------------------------ MODULE ListenerObjectsProofs ------------------------
(***************************************************************************)
(* Proofs about ListenerObjects, for any load balancers, listeners, L7     *)
(* policies, L7 rules and certificates and any number of flows under way.  *)
(***************************************************************************)
EXTENDS ListenerInvariants, TLAPS

-----------------------------------------------------------------------------
(* The tree of the objects.                                                *)
LEMMA LbTree ==
  ASSUME ShapeAssumption, NEW l \in LBs
  PROVE  /\ l \in Objects /\ l \notin Listeners /\ l \notin Policies /\ l \notin Rules /\ l \notin Parts
         /\ PolicyAt(l) = l /\ ListenerAt(l) = l /\ Lb(l) = l /\ Chain(l) = {l}
  BY DEF ShapeAssumption, Objects, Parts, PolicyAt, ListenerAt, Lb, Chain

LEMMA ListenerTree ==
  ASSUME ShapeAssumption, NEW x \in Listeners
  PROVE  /\ x \in Objects /\ x \notin LBs /\ x \notin Policies /\ x \notin Rules /\ x \in Parts
         /\ PolicyAt(x) = x /\ ListenerAt(x) = x /\ Lb(x) = LbOf[x] /\ Up(x) = LbOf[x]
         /\ Chain(x) = {x, LbOf[x]} /\ LbOf[x] \in LBs
  BY DEF ShapeAssumption, Objects, Parts, PolicyAt, ListenerAt, Lb, Chain, Up

LEMMA PolicyTree ==
  ASSUME ShapeAssumption, NEW p \in Policies
  PROVE  /\ p \in Objects /\ p \notin LBs /\ p \notin Listeners /\ p \notin Rules /\ p \in Parts
         /\ PolicyAt(p) = p /\ ListenerAt(p) = ListenerOf[p] /\ Lb(p) = LbOf[ListenerOf[p]]
         /\ Up(p) = ListenerOf[p] /\ ListenerOf[p] \in Listeners /\ LbOf[ListenerOf[p]] \in LBs
         /\ Chain(p) = {p, ListenerOf[p], LbOf[ListenerOf[p]]}
  BY DEF ShapeAssumption, Objects, Parts, PolicyAt, ListenerAt, Lb, Chain, Up

LEMMA RuleTree ==
  ASSUME ShapeAssumption, NEW r \in Rules
  PROVE  /\ r \in Objects /\ r \notin LBs /\ r \notin Listeners /\ r \notin Policies /\ r \in Parts
         /\ PolicyAt(r) = PolicyOf[r] /\ ListenerAt(r) = ListenerOf[PolicyOf[r]]
         /\ Lb(r) = LbOf[ListenerOf[PolicyOf[r]]] /\ Up(r) = PolicyOf[r] /\ PolicyOf[r] \in Policies
         /\ ListenerOf[PolicyOf[r]] \in Listeners /\ LbOf[ListenerOf[PolicyOf[r]]] \in LBs
         /\ Chain(r) = {r, PolicyOf[r], ListenerOf[PolicyOf[r]], LbOf[ListenerOf[PolicyOf[r]]]}
  BY DEF ShapeAssumption, Objects, Parts, PolicyAt, ListenerAt, Lb, Chain, Up

LEMMA Kinds ==
  ASSUME NEW o \in Objects
  PROVE  o \in LBs \/ o \in Listeners \/ o \in Policies \/ o \in Rules
  BY DEF Objects

(* The parts are the objects below the load balancers.                     *)
LEMMA PartTree ==
  ASSUME ShapeAssumption, NEW y \in Parts
  PROVE  /\ y \in Objects /\ y \notin LBs /\ Up(y) \in Objects /\ Lb(y) \in LBs /\ Lb(y) # y
         /\ Chain(y) = {y} \cup Chain(Up(y)) /\ y \notin Chain(Up(y)) /\ Lb(Up(y)) = Lb(y)
  BY ListenerTree, PolicyTree, RuleTree, LbTree DEF Parts

LEMMA ChainTree ==
  ASSUME ShapeAssumption, NEW o \in Objects
  PROVE  /\ o \in Chain(o) /\ Lb(o) \in Chain(o) /\ Chain(o) \subseteq Objects /\ Lb(o) \in LBs
         /\ \A y \in Chain(o) : Lb(y) = Lb(o) /\ Chain(y) \subseteq Chain(o)
         /\ Chain(o) \cap LBs = {Lb(o)}
<1>1. CASE o \in LBs
  BY <1>1, LbTree
<1>2. CASE o \in Listeners
  BY <1>2, ListenerTree, LbTree
<1>3. CASE o \in Policies
  BY <1>3, PolicyTree, ListenerTree, LbTree
<1>4. CASE o \in Rules
  BY <1>4, RuleTree, PolicyTree, ListenerTree, LbTree
<1>5. QED BY <1>1, <1>2, <1>3, <1>4, Kinds

LEMMA UnderTree ==
  ASSUME ShapeAssumption, NEW l \in LBs
  PROVE  /\ Under(l) = {y \in Parts : Lb(y) = l} /\ Below(l) = Under(l) \cup {l}
         /\ \A y \in Under(l) : y \in Parts /\ y # l
         /\ \A x \in Listeners : x \in Under(l) <=> LbOf[x] = l
         /\ \A p \in Policies : p \in Under(l) <=> LbOf[ListenerOf[p]] = l
<1>1. \A y \in Objects : l \in Chain(y) <=> Lb(y) = l
  BY ChainTree
<1>2. Below(l) = {y \in Objects : Lb(y) = l}
  BY <1>1 DEF Below
<1>3. \A y \in Objects : y # l /\ Lb(y) = l => y \in Parts
  BY LbTree, Kinds DEF Parts
<1>4. \A y \in Parts : y \in Objects /\ y # l
  BY LbTree, PartTree
<1>5. Under(l) = {y \in Parts : Lb(y) = l}
  BY <1>2, <1>3, <1>4 DEF Under
<1>6. l \in Below(l)
  BY <1>2, LbTree
<1>7. QED BY <1>4, <1>5, <1>6, ListenerTree, PolicyTree DEF Under

LEMMA BelowTree ==
  ASSUME ShapeAssumption, NEW o \in Objects
  PROVE  /\ o \in Below(o) /\ Below(o) \subseteq Objects
         /\ \A y \in Below(o) : Lb(y) = Lb(o) /\ o \in Chain(y)
         /\ o \in Rules => Below(o) = {o}
         /\ o \notin LBs => Below(o) \cap LBs = {}
<1>1. o \in Below(o) /\ Below(o) \subseteq Objects /\ \A y \in Below(o) : Lb(y) = Lb(o) /\ o \in Chain(y)
  BY ChainTree DEF Below
<1>2. \A y \in LBs : Chain(y) = {y}
  BY LbTree
<1>3. ASSUME o \in Rules
      PROVE  \A y \in Objects : o \in Chain(y) => y = o
  <2> TAKE y \in Objects
  <2>1. CASE y \in LBs
    BY <1>3, <2>1, LbTree
  <2>2. CASE y \in Listeners
    BY <1>3, <2>2, ListenerTree, LbTree
  <2>3. CASE y \in Policies
    BY <1>3, <2>3, ListenerTree, PolicyTree, LbTree
  <2>4. CASE y \in Rules
    BY <1>3, <2>4, ListenerTree, PolicyTree, LbTree, RuleTree
  <2>5. QED BY <2>1, <2>2, <2>3, <2>4, Kinds
<1>4. QED BY <1>1, <1>2, <1>3 DEF Below

LEMMA Membership ==
  ASSUME NEW x, NEW S
  PROVE  (x \in S) \in BOOLEAN
  OBVIOUS

-----------------------------------------------------------------------------
(* Where a flow can be.                                                    *)
LEMMA ShapeIs ==
  ASSUME ShapeAssumption, NEW f \in Flows, Shape(f)
  PROVE  /\ f.on \in Objects /\ f.cur \in Objects /\ f.on \in Chain(f.cur) /\ f.cur \in Below(f.on)
         /\ Lb(f.cur) = Lb(f.on) /\ Lb(f.on) \in LBs /\ f.op \in Ops /\ f # Idle /\ f.step # "idle"
         /\ f.on \notin LBs => f.cur = f.on /\ f.rest = {} /\ f.cur \notin LBs
         /\ f.cur \in LBs => f.cur = f.on
         /\ f.on \in LBs => f.rest \subseteq Under(f.on) \ {f.cur}
         /\ \A y \in f.rest : y \in Parts /\ Lb(y) = Lb(f.on)
<1>1. f.on \in Objects /\ f.cur \in Below(f.on) /\ f.op \in Ops /\ f.step # "idle"
  BY DEF Shape
<1>2. f.on \notin LBs => f.cur = f.on /\ f.rest = {}
  BY DEF Shape
<1>3. f.on \in LBs => f.rest \subseteq Under(f.on) \ {f.cur}
  BY DEF Shape
<1>4. f # Idle
  BY <1>1 DEF Idle
<1>5. f.cur \in Objects /\ f.on \in Chain(f.cur) /\ Lb(f.cur) = Lb(f.on)
  BY <1>1, BelowTree
<1>6. f.cur \in LBs => f.cur = f.on
  BY <1>1, <1>5, LbTree
<1>7. \A y \in f.rest : y \in Parts /\ Lb(y) = Lb(f.on)
  BY <1>1, <1>2, <1>3, UnderTree, LbTree
<1>8. Lb(f.on) \in LBs
  BY <1>1, ChainTree
<1>9. QED BY <1>1, <1>2, <1>3, <1>4, <1>5, <1>6, <1>7, <1>8

Whole(f) == f.on \in LBs /\ f.cur \in Parts
LEMMA WholeIs ==
  ASSUME ShapeAssumption, NEW f \in Flows, Shape(f), Whole(f)
  PROVE  /\ f.on \in LBs /\ f.cur # f.on /\ f.cur \in Under(f.on) /\ f.op # "update"
         /\ f.op = "create" => f.full /\ Nested(f)
         /\ f.op = "delete" => f.cur \notin Rules
<1>1. f.cur # f.on /\ f.cur \in Under(f.on)
  BY ShapeIs, PartTree DEF Whole, Under
<1>2. QED BY <1>1 DEF Whole, Shape

LEMMA AtLb ==
  ASSUME ShapeAssumption, NEW f \in Flows, Shape(f), f.cur \in LBs
  PROVE  /\ f.cur = f.on /\ f.at \in {"vs", "active", "end", "early_active", "read_ports", "write_ports",
                                      "no_vs", "lb_row"}
         /\ f.op = "create" /\ f.full => f.at \in {"vs", "active", "end"}
         /\ f.op = "create" /\ ~f.full => f.at \in {"early_active", "vs", "end"}
         /\ f.op = "update" => f.at \in {"read_ports", "write_ports", "active", "end"}
         /\ f.op = "delete" => f.at \in {"no_vs", "lb_row", "end"}
  BY ShapeIs DEF Shape, Placed, LbStages, Ops

LEMMA AtListener ==
  ASSUME ShapeAssumption, NEW f \in Flows, Shape(f), f.cur \in Listeners
  PROVE  /\ TlsOf[f.cur] = None => f.at \notin TlsTasks
         /\ f.on = f.cur \/ (Whole(f) /\ f.on = LbOf[f.cur])
         /\ f.on = f.cur /\ f.op = "create" => f.at \in {"cert", "template", "vport", "active", "end"}
         /\ f.on = f.cur /\ f.op = "update" =>
              f.at \in {"cert", "new_template", "replace", "tls_row", "active", "end"}
         /\ f.on = f.cur /\ f.op = "delete" =>
              f.at \in {"no_template", "no_cert", "no_vport", "row", "active", "end"}
         /\ f.on # f.cur => f.op # "update"
         /\ f.on # f.cur /\ f.op = "create" => f.at \in {"cert", "template", "vport", "early_active"}
         /\ f.on # f.cur /\ f.op = "delete" => f.at \in {"no_template", "no_cert", "row"}
<1>1. f.cur \notin LBs /\ f.cur \in Parts /\ Lb(f.cur) = LbOf[f.cur]
  BY ListenerTree
<1>2. f.on \in LBs => Whole(f) /\ f.on = LbOf[f.cur] /\ f.on # f.cur /\ f.op # "update"
  BY <1>1, ShapeIs, LbTree, WholeIs DEF Whole
<1>3. f.on \notin LBs => f.on = f.cur
  BY ShapeIs
<1>4. f.at \in ListenerStages(f.op, f.on \in LBs) /\ (TlsOf[f.cur] = None => f.at \notin TlsTasks)
  BY DEF Shape, Placed
<1>5. CASE f.on \in LBs
  <2>1. ListenerStages(f.op, f.on \in LBs) = ListenerStages(f.op, TRUE)
    BY <1>5
  <2>2. QED BY <1>2, <1>4, <1>5, <2>1, ShapeIs DEF ListenerStages, Ops
<1>6. CASE f.on \notin LBs
  <2>1. (f.on \in LBs) = FALSE
    BY <1>6, Membership
  <2>2. ListenerStages(f.op, f.on \in LBs) = ListenerStages(f.op, FALSE)
    BY <2>1
  <2>3. QED BY <1>3, <1>4, <1>6, <2>2, ShapeIs DEF ListenerStages, Ops
<1>7. QED BY <1>5, <1>6

LEMMA AtPolicy ==
  ASSUME ShapeAssumption, NEW f \in Flows, Shape(f), f.cur \in Policies
  PROVE  /\ f.on = f.cur \/ (Whole(f) /\ f.on = LbOf[ListenerOf[f.cur]])
         /\ f.on = f.cur /\ f.op \in {"create", "update"} => f.at \in {"script", "bind", "active", "end"}
         /\ f.on = f.cur /\ f.op = "delete" => f.at \in {"unbind", "no_script", "row", "active", "end"}
         /\ f.on # f.cur => f.op # "update"
         /\ f.on # f.cur /\ f.op = "create" => f.at \in {"script", "bind", "mark"}
         /\ f.on # f.cur /\ f.op = "delete" => f.at \in {"unbind", "no_script"}
<1>1. f.cur \notin LBs /\ f.cur \in Parts /\ Lb(f.cur) = LbOf[ListenerOf[f.cur]]
  BY PolicyTree
<1>2. f.on \in LBs => Whole(f) /\ f.on = LbOf[ListenerOf[f.cur]] /\ f.on # f.cur /\ f.op # "update"
  BY <1>1, ShapeIs, LbTree, WholeIs DEF Whole
<1>3. f.on \notin LBs => f.on = f.cur
  BY ShapeIs
<1>4. f.at \in PolicyStages(f.op, f.on \in LBs)
  BY DEF Shape, Placed
<1>5. CASE f.on \in LBs
  <2>1. PolicyStages(f.op, f.on \in LBs) = PolicyStages(f.op, TRUE)
    BY <1>5
  <2>2. QED BY <1>2, <1>4, <1>5, <2>1, ShapeIs DEF PolicyStages, Ops
<1>6. CASE f.on \notin LBs
  <2>1. (f.on \in LBs) = FALSE
    BY <1>6, Membership
  <2>2. PolicyStages(f.op, f.on \in LBs) = PolicyStages(f.op, FALSE)
    BY <2>1
  <2>3. QED BY <1>3, <1>4, <1>6, <2>2, ShapeIs DEF PolicyStages, Ops
<1>7. QED BY <1>5, <1>6

LEMMA AtRule ==
  ASSUME ShapeAssumption, NEW f \in Flows, Shape(f), f.cur \in Rules
  PROVE  /\ f.on = f.cur \/ (Whole(f) /\ f.op = "create" /\ f.on = Lb(f.cur))
         /\ f.on = f.cur /\ f.op \in {"create", "update"} => f.at \in {"script", "bind", "active", "end"}
         /\ f.on = f.cur /\ f.op = "delete" => f.at \in {"script_without", "bind", "row", "active", "end"}
         /\ f.on # f.cur => f.at \in {"script", "bind", "mark"}
<1>1. f.cur \notin LBs /\ f.cur \in Parts
  BY RuleTree
<1>2. f.on \in LBs => Whole(f) /\ f.on = Lb(f.cur) /\ f.on # f.cur /\ f.op = "create"
  BY <1>1, ShapeIs, LbTree, WholeIs DEF Whole, Ops
<1>3. f.on \notin LBs => f.on = f.cur
  BY ShapeIs
<1>4. f.at \in RuleStages(f.op, f.on \in LBs)
  BY DEF Shape, Placed
<1>5. CASE f.on \in LBs
  <2>1. RuleStages(f.op, f.on \in LBs) = RuleStages(f.op, TRUE)
    BY <1>5
  <2>2. QED BY <1>2, <1>4, <1>5, <2>1, ShapeIs DEF RuleStages, Ops
<1>6. CASE f.on \notin LBs
  <2>1. (f.on \in LBs) = FALSE
    BY <1>6, Membership
  <2>2. RuleStages(f.op, f.on \in LBs) = RuleStages(f.op, FALSE)
    BY <2>1
  <2>3. QED BY <1>3, <1>4, <1>6, <2>2, ShapeIs DEF RuleStages, Ops
<1>7. QED BY <1>5, <1>6

(* The object and the flow of each task.                                   *)
LEMMA Places ==
  ASSUME ShapeAssumption, NEW f \in Flows, Shape(f)
  PROVE  /\ f.at \in {"cert", "template", "new_template", "no_template", "no_cert", "vport", "replace",
                      "no_vport", "tls_row"} => f.cur \in Listeners
         /\ f.at \in {"unbind", "no_script"} => f.cur \in Policies /\ f.op = "delete"
         /\ f.at \in {"script", "bind", "mark"} => f.cur \in Policies \cup Rules
         /\ f.at = "script_without" => f.cur \in Rules /\ f.op = "delete" /\ f.on = f.cur
         /\ f.at \in {"vs", "no_vs", "lb_row", "read_ports", "write_ports"} => f.cur \in LBs
         /\ f.at = "early_active" => f.cur \in LBs \cup Listeners
         /\ f.at = "row" => f.cur \in Parts
         /\ f.at \in {"active", "end"} => f.cur = f.on
  BY ShapeIs, Kinds, AtLb, AtListener, AtPolicy, AtRule DEF Ops, Parts

-----------------------------------------------------------------------------
(* What comes after a task.                                                *)
Succ(f) == Tasks(f, f.cur)[f.at]

LEMMA SuccLb ==
  ASSUME ShapeAssumption, NEW f \in Flows, Shape(f), f.cur \in LBs, f.at # "end"
  PROVE  /\ f.op = "create" /\ f.full =>
              /\ f.at = "vs" => Succ(f) = "below"
              /\ f.at = "active" => Succ(f) = "end"
              /\ Tasks(f, f.cur).below = "active"
         /\ f.op = "create" /\ ~f.full =>
              /\ f.at = "early_active" => Succ(f) = "vs"
              /\ f.at = "vs" => Succ(f) = "end"
         /\ f.op = "update" =>
              /\ f.at = "read_ports" => Succ(f) = "write_ports"
              /\ f.at = "write_ports" => Succ(f) = "active"
              /\ f.at = "active" => Succ(f) = "end"
         /\ f.op = "delete" =>
              /\ f.at = "no_vs" => Succ(f) = "lb_row"
              /\ f.at = "lb_row" => Succ(f) = "end"
<1>1. Tasks(f, f.cur) = OfLb(f)
  BY DEF Tasks
<1>2. f.full \in BOOLEAN
  BY DEF Flows
<1>3. QED BY <1>1, <1>2 DEF Succ, OfLb, LbCreateFullFlow, LbCreateFlow, LbUpdateFlow, LbDeleteFlow

LEMMA SuccListener ==
  ASSUME ShapeAssumption, NEW f \in Flows, Shape(f), f.cur \in Listeners, f.at # "end"
  PROVE  /\ f.op = "create" =>
              /\ f.at = "cert" => Succ(f) = "template"
              /\ f.at = "template" => Succ(f) = "vport"
         /\ f.on = f.cur /\ f.op = "create" => (f.at = "vport" => Succ(f) = "active")
         /\ f.on = f.cur /\ f.op = "update" =>
              /\ f.at = "cert" => Succ(f) = "new_template"
              /\ f.at = "new_template" => Succ(f) = "replace"
              /\ f.at = "replace" => Succ(f) = "tls_row"
              /\ f.at = "tls_row" => Succ(f) = "active"
         /\ f.op = "delete" => (f.at = "no_template" => Succ(f) = "no_cert")
         /\ f.on = f.cur /\ f.op = "delete" =>
              /\ f.at = "no_cert" => Succ(f) = "no_vport"
              /\ f.at = "no_vport" => Succ(f) = "row"
              /\ f.at = "row" => Succ(f) = "active"
         /\ f.on = f.cur => (f.at = "active" => Succ(f) = "end")
         /\ f.on # f.cur /\ f.op = "create" =>
              /\ f.at = "vport" => Succ(f) = "below"
              /\ f.at = "early_active" => Succ(f) = "end"
              /\ Tasks(f, f.cur).below = "early_active"
         /\ f.on # f.cur /\ f.op = "delete" =>
              /\ f.at = "no_cert" => Succ(f) = "row"
              /\ f.at = "row" => Succ(f) = "end"
<1>1. Tasks(f, f.cur) = OfListener(f)
  BY ListenerTree DEF Tasks
<1>2. f.on = f.cur => f.on \notin LBs
  BY ListenerTree
<1>3. f.on # f.cur => f.on \in LBs
  BY AtListener DEF Whole
<1>4. CASE f.on = f.cur
  <2>1. /\ f.op = "create" => Tasks(f, f.cur) = ListenerCreateFlow
        /\ f.op = "update" => Tasks(f, f.cur) = ListenerUpdateFlow
        /\ f.op = "delete" => Tasks(f, f.cur) = ListenerDeleteFlow
    BY <1>1, <1>2, <1>4 DEF OfListener
  <2>2. QED BY <1>4, <2>1, AtListener, ShapeIs
            DEF Succ, ListenerCreateFlow, ListenerUpdateFlow, ListenerDeleteFlow, Ops
<1>5. CASE f.on # f.cur
  <2>1. /\ f.op = "create" => Tasks(f, f.cur) = ListenerSubflow
        /\ f.op = "delete" => Tasks(f, f.cur) = ListenerCascade
    BY <1>1, <1>3, <1>5 DEF OfListener
  <2>2. QED BY <1>5, <2>1, AtListener, ShapeIs DEF Succ, ListenerSubflow, ListenerCascade, Ops
<1>6. QED BY <1>4, <1>5

LEMMA SuccPolicy ==
  ASSUME ShapeAssumption, NEW f \in Flows, Shape(f), f.cur \in Policies, f.at # "end"
  PROVE  /\ f.at = "script" => Succ(f) = "bind"
         /\ f.at = "unbind" => Succ(f) = "no_script"
         /\ f.on = f.cur =>
              /\ f.at = "bind" => Succ(f) = "active"
              /\ f.at = "no_script" => Succ(f) = "row"
              /\ f.at = "row" => Succ(f) = "active"
              /\ f.at = "active" => Succ(f) = "end"
         /\ f.on # f.cur /\ f.op = "create" =>
              /\ f.at = "bind" => Succ(f) = "below"
              /\ f.at = "mark" => Succ(f) = "end"
              /\ Tasks(f, f.cur).below = "mark"
         /\ f.on # f.cur /\ f.op = "delete" => (f.at = "no_script" => Succ(f) = "end")
<1>1. Tasks(f, f.cur) = OfPolicy(f)
  BY PolicyTree DEF Tasks
<1>2. f.on = f.cur => f.on \notin LBs
  BY PolicyTree
<1>3. f.on # f.cur => f.on \in LBs
  BY AtPolicy DEF Whole
<1>4. CASE f.on = f.cur
  <2>1. /\ f.op = "create" => Tasks(f, f.cur) = PolicyCreateFlow
        /\ f.op = "update" => Tasks(f, f.cur) = PolicyUpdateFlow
        /\ f.op = "delete" => Tasks(f, f.cur) = PolicyDeleteFlow
    BY <1>1, <1>2, <1>4 DEF OfPolicy
  <2>2. QED BY <1>4, <2>1, AtPolicy, ShapeIs
            DEF Succ, PolicyCreateFlow, PolicyUpdateFlow, PolicyDeleteFlow, Ops
<1>5. CASE f.on # f.cur
  <2>1. /\ f.op = "create" => Tasks(f, f.cur) = PolicySubflow
        /\ f.op = "delete" => Tasks(f, f.cur) = PolicyCascade
    BY <1>1, <1>3, <1>5 DEF OfPolicy
  <2>2. QED BY <1>5, <2>1, AtPolicy, ShapeIs DEF Succ, PolicySubflow, PolicyCascade, Ops
<1>6. QED BY <1>4, <1>5

LEMMA SuccRule ==
  ASSUME ShapeAssumption, NEW f \in Flows, Shape(f), f.cur \in Rules, f.at # "end"
  PROVE  /\ f.at = "script" => Succ(f) = "bind"
         /\ f.at = "script_without" => Succ(f) = "bind"
         /\ f.on = f.cur =>
              /\ f.at = "bind" => Succ(f) = IF f.op = "delete" THEN "row" ELSE "active"
              /\ f.at = "row" => Succ(f) = "active"
              /\ f.at = "active" => Succ(f) = "end"
         /\ f.on # f.cur =>
              /\ f.at = "bind" => Succ(f) = "mark"
              /\ f.at = "mark" => Succ(f) = "end"
<1>1. Tasks(f, f.cur) = OfRule(f)
  BY RuleTree DEF Tasks
<1>2. f.on = f.cur => f.on \notin LBs
  BY RuleTree
<1>3. f.on # f.cur => f.on \in LBs /\ f.op = "create"
  BY AtRule DEF Whole
<1>4. CASE f.on = f.cur
  <2>1. /\ f.op = "create" => Tasks(f, f.cur) = RuleCreateFlow
        /\ f.op = "update" => Tasks(f, f.cur) = RuleUpdateFlow
        /\ f.op = "delete" => Tasks(f, f.cur) = RuleDeleteFlow
    BY <1>1, <1>2, <1>4 DEF OfRule
  <2>2. QED BY <1>4, <2>1, AtRule, ShapeIs
            DEF Succ, RuleCreateFlow, RuleUpdateFlow, RuleDeleteFlow, Ops
<1>5. CASE f.on # f.cur
  <2>1. Tasks(f, f.cur) = RuleSubflow
    BY <1>1, <1>3, <1>5 DEF OfRule
  <2>2. QED BY <1>5, <2>1, AtRule, ShapeIs DEF Succ, RuleSubflow, Ops
<1>6. QED BY <1>4, <1>5

(* The first task of a part of a whole flow.                               *)
LEMMA FirstIs ==
  ASSUME ShapeAssumption, NEW f, f.on \in LBs, f.op \in {"create", "delete"}, NEW x \in Parts
  PROVE  /\ x \in Listeners /\ f.op = "create" => First(f, x) = IF TlsOf[x] = None THEN "vport" ELSE "cert"
         /\ x \in Listeners /\ f.op = "delete" => First(f, x) = IF TlsOf[x] = None THEN "row" ELSE "no_template"
         /\ x \in Policies /\ f.op = "create" => First(f, x) = "script"
         /\ x \in Policies /\ f.op = "delete" => First(f, x) = "unbind"
         /\ x \in Rules /\ f.op = "create" => First(f, x) = "script"
<1>1. CASE x \in Listeners
  <2>1. Tasks(f, x) = IF f.op = "create" THEN ListenerSubflow ELSE ListenerCascade
    BY <1>1, ListenerTree DEF Tasks, OfListener
  <2>2. x \notin Policies /\ x \notin Rules
    BY <1>1, ListenerTree
  <2>3. QED BY <1>1, <2>1, <2>2 DEF First, ListenerSubflow, ListenerCascade
<1>2. CASE x \in Policies
  <2>1. Tasks(f, x) = IF f.op = "create" THEN PolicySubflow ELSE PolicyCascade
    BY <1>2, PolicyTree DEF Tasks, OfPolicy
  <2>2. x \notin Listeners /\ x \notin Rules
    BY <1>2, PolicyTree
  <2>3. QED BY <1>2, <2>1, <2>2 DEF First, PolicySubflow, PolicyCascade
<1>3. CASE x \in Rules
  <2>1. f.op = "create" => Tasks(f, x) = RuleSubflow
    BY <1>3, RuleTree DEF Tasks, OfRule
  <2>2. x \notin Listeners /\ x \notin Policies
    BY <1>3, RuleTree
  <2>3. QED BY <1>3, <2>1, <2>2 DEF First, RuleSubflow
<1>4. QED BY <1>1, <1>2, <1>3 DEF Parts

-----------------------------------------------------------------------------
(* The flow after a task.                                                  *)
Same(f, g) ==
    /\ g \in Flows /\ g.op = f.op /\ g.on = f.on /\ g.cert = f.cert /\ g.full = f.full
    /\ g.read = f.read /\ g.step = f.step /\ g.done = Done(f)
Stays(f, g) == g.cur = f.cur /\ g.rest = f.rest /\ g.at = Succ(f)
Goes(f, g, o) ==
    /\ g.cur \in f.rest /\ g.rest = f.rest \ {g.cur} /\ g.at = First(f, g.cur)
    /\ f.op = "create" => Up(g.cur) = o
Climbs(f, g, o) ==
    /\ g.cur = o /\ g.rest = f.rest /\ g.at = Tasks(f, o).below
    /\ f.op = "create" => \A y \in f.rest : Up(y) # o
    /\ f.op = "delete" => f.rest = {}
Next1(f) == IF f.op = "create" THEN Up(f.cur) ELSE f.on
Moves(f, g) ==
    /\ Same(f, g)
    /\ \/ Succ(f) # "below" /\ (Succ(f) = "end" => f.cur = f.on) /\ Stays(f, g)
       \/ Succ(f) = "below" /\ (Goes(f, g, f.cur) \/ Climbs(f, g, f.cur))
       \/ Succ(f) = "end" /\ f.cur # f.on /\ (Goes(f, g, Next1(f)) \/ Climbs(f, g, Next1(f)))

LEMMA DoneIs ==
  ASSUME NEW f \in Flows, f.cur \in Objects
  PROVE  /\ Done(f) \in Histories /\ f.done \subseteq Done(f)
         /\ \A t \in Done(f) : t \in f.done \/ (t.on = f.cur /\ t.do = f.at /\ f.at \in Undoes(f))
         /\ f.at \in Undoes(f) => Task(f.at, f.cur) \in Done(f)
<1>1. f.done \subseteq [do : Labels, on : Objects] /\ f.at \in Labels
  BY DEF Flows, Histories
<1>2. Task(f.at, f.cur) \in [do : Labels, on : Objects]
  BY <1>1 DEF Task
<1>3. Done(f) = f.done \cup {Task(do, f.cur) : do \in Undoes(f) \cap {f.at}}
  BY DEF Done
<1>4. \A do \in Undoes(f) \cap {f.at} : do = f.at
  OBVIOUS
<1>5. Task(f.at, f.cur).on = f.cur /\ Task(f.at, f.cur).do = f.at
  BY DEF Task
<1>6. Done(f) \subseteq [do : Labels, on : Objects]
  BY <1>1, <1>2, <1>3, <1>4
<1>7. QED BY <1>3, <1>4, <1>5, <1>6 DEF Histories

LEMMA WithDone ==
  ASSUME NEW f \in Flows, NEW D \in Histories, NEW d, d = [f EXCEPT !.done = D]
  PROVE  /\ d \in Flows /\ d.op = f.op /\ d.on = f.on /\ d.cert = f.cert /\ d.full = f.full
         /\ d.read = f.read /\ d.step = f.step /\ d.done = D /\ d.rest = f.rest /\ d.cur = f.cur /\ d.at = f.at
  BY DEF Flows

LEMMA LabelsAre ==
  ASSUME ShapeAssumption, NEW f \in Flows, Shape(f), f.at # "end"
  PROVE  Succ(f) = "below" \/ Succ(f) \in Labels
<1>1. CASE f.cur \in LBs
  BY <1>1, SuccLb, AtLb, ShapeIs DEF Labels, Ops
<1>2. CASE f.cur \in Listeners
  BY <1>2, SuccListener, AtListener, ShapeIs DEF Labels, Ops
<1>3. CASE f.cur \in Policies
  BY <1>3, SuccPolicy, AtPolicy, ShapeIs DEF Labels, Ops
<1>4. CASE f.cur \in Rules
  BY <1>4, SuccRule, AtRule, ShapeIs DEF Labels, Ops
<1>5. QED BY <1>1, <1>2, <1>3, <1>4, ShapeIs, Kinds

(* A part that ends is one of a whole flow; so is one with parts below.    *)
LEMMA BelowIs ==
  ASSUME ShapeAssumption, NEW f \in Flows, Shape(f), f.at # "end"
  PROVE  /\ Succ(f) = "below" => f.op = "create" /\ f.on \in LBs /\ f.full /\ f.at \in {"vs", "vport", "bind"}
                                 /\ f.cur \notin Rules
         /\ Succ(f) = "end" /\ f.cur # f.on => Whole(f) /\ f.op \in {"create", "delete"}
         /\ Succ(f) = "end" /\ f.cur # f.on /\ f.op = "create" => f.at \in {"early_active", "mark"}
         /\ Succ(f) = "end" /\ f.cur # f.on /\ f.op = "delete" => f.at \in {"row", "no_script"}
         /\ Succ(f) = "end" /\ f.cur = f.on /\ f.on \notin LBs => f.at = "active"
<1>1. CASE f.cur \in LBs
  BY <1>1, SuccLb, AtLb, ShapeIs, LbTree DEF Ops
<1>2. CASE f.cur \in Listeners
  BY <1>2, SuccListener, AtListener, ShapeIs, WholeIs, ListenerTree DEF Ops, Whole
<1>3. CASE f.cur \in Policies
  BY <1>3, SuccPolicy, AtPolicy, ShapeIs, WholeIs, PolicyTree DEF Ops, Whole
<1>4. CASE f.cur \in Rules
  BY <1>4, SuccRule, AtRule, ShapeIs, WholeIs, RuleTree DEF Ops, Whole
<1>5. QED BY <1>1, <1>2, <1>3, <1>4, ShapeIs, Kinds

LEMMA DescendIs ==
  ASSUME ShapeAssumption, NEW f \in Flows, Shape(f), f.at # "end", NEW o \in Objects,
         NEW d, d = [f EXCEPT !.done = Done(f)], NEW g \in Descend(d, o), Tasks(f, o).below \in Labels,
         f.on \in LBs, f.op \in {"create", "delete"}
  PROVE  Same(f, g) /\ (Goes(f, g, o) \/ Climbs(f, g, o))
<1>1. Done(f) \in Histories
  BY DoneIs, ShapeIs
<1>2. /\ d \in Flows /\ d.op = f.op /\ d.on = f.on /\ d.full = f.full /\ d.rest = f.rest /\ d.cur = f.cur
      /\ d.cert = f.cert /\ d.read = f.read /\ d.step = f.step /\ d.done = Done(f)
  BY <1>1, WithDone
<1>3. \A x : Tasks(d, x) = Tasks(f, x)
  BY <1>2 DEF Tasks, OfLb, OfListener, OfPolicy, OfRule
<1>4. \A x : First(d, x) = First(f, x)
  BY <1>3 DEF First
<1>5. /\ f.op = "create" => Coming(d, o) = {x \in f.rest : Up(x) = o}
      /\ f.op = "delete" => /\ Coming(d, o) = IF f.rest \cap Policies # {} THEN f.rest \cap Policies ELSE f.rest
                            /\ Coming(d, o) = {} => f.rest = {}
  BY <1>2 DEF Coming
<1>6. f.rest \subseteq Parts /\ \A x \in f.rest : x \in Objects
  BY ShapeIs, PartTree
<1>7. CASE Coming(d, o) = {}
  <2>1. g = [d EXCEPT !.cur = o, !.at = Tasks(f, o).below]
    BY <1>3, <1>7 DEF Descend
  <2>2. PICK n \in Labels : n = Tasks(f, o).below
    OBVIOUS
  <2>3. g = [d EXCEPT !.cur = o, !.at = n]
    BY <2>1, <2>2
  <2>4. /\ g \in Flows /\ g.op = d.op /\ g.on = d.on /\ g.cert = d.cert /\ g.full = d.full
        /\ g.read = d.read /\ g.step = d.step /\ g.done = d.done /\ g.rest = d.rest /\ g.cur = o /\ g.at = n
    BY <1>2, <2>2, <2>3 DEF Flows
  <2>5. Same(f, g)
    BY <1>2, <2>4 DEF Same
  <2>6. QED BY <1>2, <1>5, <1>7, <2>2, <2>4, <2>5 DEF Climbs
<1>8. CASE Coming(d, o) # {}
  <2>1. PICK x \in Coming(d, o) : g = [d EXCEPT !.cur = x, !.rest = @ \ {x}, !.at = First(f, x)]
    BY <1>4, <1>8 DEF Descend
  <2>2. x \in f.rest /\ (f.op = "create" => Up(x) = o) /\ (f.op = "delete" => x \notin Rules)
    <3>1. f.op = "delete" => f.rest \cap Rules = {}
      BY DEF Shape
    <3>2. QED BY <1>5, <2>1, <3>1
  <2>3. First(f, x) \in Labels
    BY <1>6, <2>2, FirstIs DEF Labels, Parts
  <2>4. PICK n \in Labels : n = First(f, x)
    BY <2>3
  <2>5. x \in Objects /\ g = [d EXCEPT !.cur = x, !.rest = @ \ {x}, !.at = n]
    BY <1>6, <2>1, <2>2, <2>4
  <2>6. /\ g \in Flows /\ g.op = d.op /\ g.on = d.on /\ g.cert = d.cert /\ g.full = d.full
        /\ g.read = d.read /\ g.step = d.step /\ g.done = d.done
        /\ g.rest = d.rest \ {x} /\ g.cur = x /\ g.at = n
    BY <1>2, <2>4, <2>5 DEF Flows
  <2>7. Same(f, g)
    BY <1>2, <2>6 DEF Same
  <2>8. QED BY <1>2, <2>2, <2>4, <2>6, <2>7 DEF Goes
<1>9. QED BY <1>7, <1>8

LEMMA BelowLabels ==
  ASSUME ShapeAssumption, NEW f \in Flows, f.on \in LBs, NEW o \in Objects
  PROVE  /\ f.op = "create" /\ f.full /\ o \in LBs => Tasks(f, o).below = "active"
         /\ f.op = "create" /\ o \in Listeners => Tasks(f, o).below = "early_active"
         /\ f.op = "create" /\ o \in Policies => Tasks(f, o).below = "mark"
         /\ f.op = "delete" /\ o \in LBs => Tasks(f, o).below = "no_vs"
<1>1. o \in LBs /\ f.op = "create" /\ f.full => Tasks(f, o) = LbCreateFullFlow
  BY DEF Tasks, OfLb
<1>2. o \in LBs /\ f.op = "delete" => Tasks(f, o) = LbDeleteFlow
  BY DEF Tasks, OfLb
<1>3. o \in Listeners /\ f.op = "create" => Tasks(f, o) = ListenerSubflow
  BY ListenerTree DEF Tasks, OfListener
<1>4. o \in Policies /\ f.op = "create" => Tasks(f, o) = PolicySubflow
  BY PolicyTree DEF Tasks, OfPolicy
<1>5. QED BY <1>1, <1>2, <1>3, <1>4 DEF LbCreateFullFlow, LbDeleteFlow, ListenerSubflow, PolicySubflow

LEMMA NextUp ==
  ASSUME ShapeAssumption, NEW f \in Flows, Shape(f), f.at # "end", Succ(f) = "end", f.cur # f.on
  PROVE  /\ Next1(f) \in Objects /\ Tasks(f, Next1(f)).below \in Labels
         /\ f.op = "create" => Next1(f) = Up(f.cur) /\ f.on \in Chain(Up(f.cur)) /\ Up(f.cur) \notin Rules
         /\ f.op = "delete" => Next1(f) = f.on
<1>1. Whole(f) /\ f.op \in {"create", "delete"} /\ f.on \in LBs /\ f.cur \in Parts
  BY BelowIs, WholeIs DEF Whole
<1>2. Up(f.cur) \in Objects /\ Chain(f.cur) = {f.cur} \cup Chain(Up(f.cur)) /\ Up(f.cur) \notin Rules
  BY <1>1, PartTree, ListenerTree, PolicyTree, RuleTree, LbTree DEF Parts
<1>3. f.on \in Chain(Up(f.cur))
  BY <1>1, <1>2, ShapeIs
<1>4. f.op = "create" => f.full
  BY <1>1, WholeIs
<1>5. Up(f.cur) \in LBs \/ Up(f.cur) \in Listeners \/ Up(f.cur) \in Policies
  BY <1>2, Kinds
<1>6. f.op = "create" => Tasks(f, Up(f.cur)).below \in Labels
  BY <1>1, <1>2, <1>4, <1>5, BelowLabels DEF Labels
<1>7. f.op = "delete" => Tasks(f, f.on).below \in Labels
  BY <1>1, BelowLabels, LbTree DEF Labels
<1>8. f.on \in Objects
  BY ShapeIs
<1>9. QED BY <1>1, <1>2, <1>3, <1>6, <1>7, <1>8 DEF Next1

LEMMA MoveStep ==
  ASSUME ShapeAssumption, NEW f \in Flows, Shape(f), f.at # "end",
         NEW g \in Come([f EXCEPT !.done = Done(f)], f.cur, Tasks(f, f.cur)[f.at])
  PROVE  Moves(f, g)
<1> DEFINE d == [f EXCEPT !.done = Done(f)]
<1>0. d = [f EXCEPT !.done = Done(f)]
  OBVIOUS
<1> HIDE DEF d
<1>1. Done(f) \in Histories /\ f.cur \in Objects
  BY DoneIs, ShapeIs
<1>2. /\ d \in Flows /\ d.op = f.op /\ d.on = f.on /\ d.full = f.full /\ d.rest = f.rest /\ d.cur = f.cur
      /\ d.cert = f.cert /\ d.read = f.read /\ d.step = f.step /\ d.done = Done(f)
  BY <1>0, <1>1, WithDone
<1>3. g \in Come(d, f.cur, Succ(f))
  BY <1>0 DEF Succ
<1>4. CASE Succ(f) = "below"
  <2>1. g \in Descend(d, f.cur)
    BY <1>3, <1>4 DEF Come
  <2>2. f.on \in LBs /\ f.op = "create" /\ f.full /\ f.cur \notin Rules
    BY <1>4, BelowIs
  <2>3. Tasks(f, f.cur).below \in Labels
    BY <1>1, <2>2, BelowLabels, Kinds DEF Labels
  <2>4. Same(f, g) /\ (Goes(f, g, f.cur) \/ Climbs(f, g, f.cur))
    BY <1>0, <1>1, <2>1, <2>2, <2>3, DescendIs
  <2>5. QED BY <1>4, <2>4 DEF Moves
<1>5. CASE Succ(f) = "end" /\ f.cur # f.on
  <2>1. g \in Descend(d, Next1(f))
    BY <1>2, <1>3, <1>5 DEF Come, Next1
  <2>2. f.on \in LBs /\ f.op \in {"create", "delete"}
    BY <1>5, BelowIs DEF Whole
  <2>3. Next1(f) \in Objects /\ Tasks(f, Next1(f)).below \in Labels
    BY <1>5, NextUp
  <2>4. Same(f, g) /\ (Goes(f, g, Next1(f)) \/ Climbs(f, g, Next1(f)))
    BY <1>0, <2>1, <2>2, <2>3, DescendIs
  <2>5. QED BY <1>5, <2>4 DEF Moves
<1>6. CASE Succ(f) # "below" /\ (Succ(f) = "end" => f.cur = f.on)
  <2>1. g \in {[d EXCEPT !.cur = f.cur, !.at = Succ(f)]}
    <3>1. ~(Succ(f) = "end" /\ f.cur # d.on)
      BY <1>2, <1>6
    <3>2. QED BY <1>3, <1>6, <3>1 DEF Come
  <2>2. PICK n \in Labels : n = Succ(f)
    BY <1>6, LabelsAre
  <2>3. g = [d EXCEPT !.cur = f.cur, !.at = n]
    BY <2>1, <2>2
  <2>4. /\ g \in Flows /\ g.op = d.op /\ g.on = d.on /\ g.cert = d.cert /\ g.full = d.full
        /\ g.read = d.read /\ g.step = d.step /\ g.done = d.done /\ g.rest = d.rest /\ g.cur = f.cur /\ g.at = n
    BY <1>1, <1>2, <2>2, <2>3 DEF Flows
  <2>5. Same(f, g)
    BY <1>2, <2>4 DEF Same
  <2>6. Stays(f, g)
    BY <1>2, <2>2, <2>4 DEF Stays
  <2>7. QED BY <1>6, <2>5, <2>6 DEF Moves
<1>7. QED BY <1>4, <1>5, <1>6

LEMMA StayPlaced ==
  ASSUME ShapeAssumption, NEW f \in Flows, Shape(f), f.at # "end", NEW g, Same(f, g),
         Succ(f) # "below", Succ(f) = "end" => f.cur = f.on, Stays(f, g)
  PROVE  Placed(g)
<1>1. g.cur = f.cur /\ g.on = f.on /\ g.op = f.op /\ g.full = f.full /\ g.at = Succ(f) /\ f.op \in Ops
  BY ShapeIs DEF Same, Stays
<1>2. ASSUME f.cur \in LBs PROVE g.at \in LbStages(g.op, g.full)
  <2>1. g.at \in LbStages(f.op, f.full)
    BY <1>1, <1>2, SuccLb, AtLb DEF LbStages, Ops
  <2>2. QED BY <1>1, <2>1
<1>3. ASSUME f.cur \in Listeners
      PROVE g.at \in ListenerStages(g.op, g.on \in LBs) /\ (TlsOf[g.cur] = None => g.at \notin TlsTasks)
  <2>1. CASE f.on = f.cur
    <3>1. (f.on \in LBs) = FALSE
      BY <1>3, <2>1, ListenerTree
    <3>2. g.at \in ListenerStages(f.op, FALSE) /\ (TlsOf[g.cur] = None => g.at \notin TlsTasks)
      BY <1>1, <1>3, <2>1, SuccListener, AtListener DEF ListenerStages, Ops, TlsTasks
    <3>3. QED BY <1>1, <3>1, <3>2
  <2>2. CASE f.on # f.cur
    <3>1. (f.on \in LBs) = TRUE
      BY <1>3, <2>2, AtListener DEF Whole
    <3>2. g.at \in ListenerStages(f.op, TRUE) /\ (TlsOf[g.cur] = None => g.at \notin TlsTasks)
      BY <1>1, <1>3, <2>2, SuccListener, AtListener DEF ListenerStages, Ops, TlsTasks
    <3>3. QED BY <1>1, <3>1, <3>2
  <2>3. QED BY <2>1, <2>2
<1>4. ASSUME f.cur \in Policies PROVE g.at \in PolicyStages(g.op, g.on \in LBs)
  <2>1. CASE f.on = f.cur
    <3>1. (f.on \in LBs) = FALSE
      BY <1>4, <2>1, PolicyTree
    <3>2. g.at \in PolicyStages(f.op, FALSE)
      BY <1>1, <1>4, <2>1, SuccPolicy, AtPolicy DEF PolicyStages, Ops
    <3>3. QED BY <1>1, <3>1, <3>2
  <2>2. CASE f.on # f.cur
    <3>1. (f.on \in LBs) = TRUE
      BY <1>4, <2>2, AtPolicy DEF Whole
    <3>2. g.at \in PolicyStages(f.op, TRUE)
      BY <1>1, <1>4, <2>2, SuccPolicy, AtPolicy DEF PolicyStages, Ops
    <3>3. QED BY <1>1, <3>1, <3>2
  <2>3. QED BY <2>1, <2>2
<1>5. ASSUME f.cur \in Rules PROVE g.at \in RuleStages(g.op, g.on \in LBs)
  <2>1. CASE f.on = f.cur
    <3>1. (f.on \in LBs) = FALSE
      BY <1>5, <2>1, RuleTree
    <3>2. g.at \in RuleStages(f.op, FALSE)
      BY <1>1, <1>5, <2>1, SuccRule, AtRule DEF RuleStages, Ops
    <3>3. QED BY <1>1, <3>1, <3>2
  <2>2. CASE f.on # f.cur
    <3>1. (f.on \in LBs) = TRUE /\ f.op = "create"
      BY <1>5, <2>2, AtRule DEF Whole
    <3>2. g.at \in RuleStages(f.op, TRUE)
      BY <1>1, <1>5, <2>2, <3>1, SuccRule, AtRule DEF RuleStages, Ops
    <3>3. QED BY <1>1, <3>1, <3>2
  <2>3. QED BY <2>1, <2>2
<1>6. QED BY <1>1, <1>2, <1>3, <1>4, <1>5 DEF Placed

LEMMA GoPlaced ==
  ASSUME ShapeAssumption, NEW f \in Flows, Shape(f), NEW g, Same(f, g), NEW o, Goes(f, g, o),
         f.on \in LBs, f.op \in {"create", "delete"}
  PROVE  /\ Placed(g) /\ g.cur \in Parts /\ g.cur \in Under(f.on)
         /\ f.op = "create" => g.at \in {"cert", "vport", "script"}
         /\ f.op = "delete" => g.cur \notin Rules
<1>1. /\ g.on = f.on /\ g.op = f.op /\ g.at = First(f, g.cur) /\ g.cur \in f.rest
      /\ g.cur \in Parts /\ g.cur \in Under(f.on)
  BY ShapeIs DEF Same, Goes
<1>2. f.op = "delete" => g.cur \notin Rules
  BY <1>1 DEF Shape
<1>3. (f.on \in LBs) = TRUE
  BY Membership
<1>4. CASE g.cur \in Listeners
  <2>1. g.at \in ListenerStages(f.op, TRUE) /\ (TlsOf[g.cur] = None => g.at \notin TlsTasks)
    BY <1>1, <1>4, FirstIs DEF ListenerStages, TlsTasks
  <2>2. g.cur \notin LBs /\ g.cur \notin Policies /\ g.cur \notin Rules
    BY <1>4, ListenerTree
  <2>3. f.op = "create" => g.at \in {"cert", "vport", "script"}
    BY <1>1, <1>4, FirstIs
  <2>4. QED BY <1>1, <1>2, <1>3, <2>1, <2>2, <2>3 DEF Placed
<1>5. CASE g.cur \in Policies
  <2>1. g.at \in PolicyStages(f.op, TRUE)
    BY <1>1, <1>5, FirstIs DEF PolicyStages
  <2>2. g.cur \notin LBs /\ g.cur \notin Listeners /\ g.cur \notin Rules
    BY <1>5, PolicyTree
  <2>3. f.op = "create" => g.at \in {"cert", "vport", "script"}
    BY <1>1, <1>5, FirstIs
  <2>4. QED BY <1>1, <1>2, <1>3, <2>1, <2>2, <2>3 DEF Placed
<1>6. CASE g.cur \in Rules
  <2>0. f.op = "create"
    BY <1>2, <1>6
  <2>1. g.at \in RuleStages(f.op, TRUE) /\ g.at = "script"
    BY <1>1, <1>6, <2>0, FirstIs DEF RuleStages
  <2>2. g.cur \notin LBs /\ g.cur \notin Listeners /\ g.cur \notin Policies
    BY <1>6, RuleTree
  <2>4. QED BY <1>1, <1>2, <1>3, <2>0, <2>1, <2>2 DEF Placed
<1>7. QED BY <1>1, <1>4, <1>5, <1>6 DEF Parts

LEMMA ClimbPlaced ==
  ASSUME ShapeAssumption, NEW f \in Flows, Shape(f), NEW g, Same(f, g), NEW o \in Objects, Climbs(f, g, o),
         f.on \in LBs, f.op = "create" => f.full /\ o \notin Rules, f.op = "delete" => o = f.on,
         f.op \in {"create", "delete"}
  PROVE  /\ Placed(g)
         /\ f.op = "create" => g.at = IF o \in LBs THEN "active" ELSE IF o \in Listeners THEN "early_active" ELSE "mark"
         /\ f.op = "delete" => g.at = "no_vs"
<1>1. /\ g.on = f.on /\ g.op = f.op /\ g.full = f.full /\ g.at = Tasks(f, o).below /\ g.cur = o
  BY DEF Same, Climbs
<1>2. (f.on \in LBs) = TRUE
  BY Membership
<1>3. CASE o \in LBs
  <2>1. g.at \in LbStages(f.op, f.full)
    BY <1>1, <1>3, BelowLabels DEF LbStages
  <2>2. o \notin Rules /\ o \notin Policies /\ o \notin Listeners
    BY <1>3, LbTree
  <2>3. (f.op = "create" => g.at = "active") /\ (f.op = "delete" => g.at = "no_vs")
    BY <1>1, <1>3, BelowLabels
  <2>4. QED BY <1>1, <1>3, <2>1, <2>2, <2>3 DEF Placed
<1>4. CASE o \in Listeners
  <2>1. o \notin LBs /\ o \notin Policies /\ o \notin Rules
    BY <1>4, ListenerTree
  <2>2. f.op = "create" /\ g.at = "early_active"
    BY <1>1, <1>4, <2>1, BelowLabels
  <2>3. g.at \in ListenerStages(f.op, TRUE) /\ g.at \notin TlsTasks
    BY <2>2 DEF ListenerStages, TlsTasks
  <2>4. QED BY <1>1, <1>2, <1>4, <2>1, <2>2, <2>3 DEF Placed
<1>5. CASE o \in Policies
  <2>1. o \notin LBs /\ o \notin Listeners /\ o \notin Rules
    BY <1>5, PolicyTree
  <2>2. f.op = "create" /\ g.at = "mark"
    BY <1>1, <1>5, <2>1, BelowLabels
  <2>3. g.at \in PolicyStages(f.op, TRUE)
    BY <2>2 DEF PolicyStages
  <2>4. QED BY <1>1, <1>2, <1>5, <2>1, <2>2, <2>3 DEF Placed
<1>6. CASE o \in Rules
  BY <1>6, RuleTree
<1>7. QED BY <1>3, <1>4, <1>5, <1>6, Kinds

(* What is to come below a load balancer begins with a listener.           *)
LEMMA NoRest ==
  ASSUME ShapeAssumption, NEW l \in LBs, NEW S \in SUBSET Under(l),
         \A y \in S : Up(y) \in S
  PROVE  S = {}
<1>1. \A x \in Listeners : x \notin S
  BY ListenerTree, UnderTree, PartTree
<1>2. \A p \in Policies : p \notin S
  BY <1>1, PolicyTree
<1>3. \A r \in Rules : r \notin S
  BY <1>2, RuleTree
<1>4. \A y \in S : y \in Parts
  BY UnderTree
<1>5. QED BY <1>1, <1>2, <1>3, <1>4 DEF Parts

LEMMA StayNested ==
  ASSUME ShapeAssumption, NEW f \in Flows, Shape(f), f.at # "end", NEW g, Same(f, g),
         Succ(f) # "below", Succ(f) = "end" => f.cur = f.on, Stays(f, g),
         f.on \in LBs, f.op = "create", f.full, Nested(f)
  PROVE  Nested(g)
<1>1. g.cur = f.cur /\ g.on = f.on /\ g.op = f.op /\ g.full = f.full /\ g.at = Succ(f) /\ g.rest = f.rest
  BY DEF Same, Stays
<1>2. /\ g.at \in {"template", "vport", "bind"} => f.at \in {"cert", "template", "script"}
      /\ g.at \in {"mark", "early_active"} => f.cur \in Rules
      /\ g.at \notin {"vs", "cert", "script", "active"}
      /\ g.at = "end" => f.at = "active"
  <2>1. CASE f.cur \in LBs
    BY <1>1, <2>1, SuccLb, AtLb
  <2>2. CASE f.cur \in Listeners
    BY <1>1, <2>2, SuccListener, AtListener, ListenerTree
  <2>3. CASE f.cur \in Policies
    BY <1>1, <2>3, SuccPolicy, AtPolicy, PolicyTree
  <2>4. CASE f.cur \in Rules
    BY <1>1, <2>4, SuccRule, AtRule, RuleTree
  <2>5. QED BY <2>1, <2>2, <2>3, <2>4, ShapeIs, Kinds
<1>3. \A y \in Parts : Up(y) \notin Rules
  BY ListenerTree, PolicyTree, RuleTree, LbTree DEF Parts
<1>4. \A y \in f.rest : y \in Parts
  BY ShapeIs
<1>5. QED BY <1>1, <1>2, <1>3, <1>4 DEF Nested

(* Where a part has ended, or its own part comes to the parts below.       *)
Leaves(f, o) ==
    \/ o = f.cur /\ f.at \in {"vs", "vport", "bind"}
    \/ f.cur # f.on /\ o = Up(f.cur) /\ f.at \in {"early_active", "mark"}
LEMMA LeavesIs ==
  ASSUME ShapeAssumption, NEW f \in Flows, Shape(f), NEW o, Leaves(f, o),
         f.on \in LBs, f.op = "create", f.full, Nested(f)
  PROVE  /\ o \in Objects /\ o \notin f.rest /\ o \in Below(f.on) /\ f.on \in Chain(o)
         /\ \A y \in f.rest : Up(y) \in f.rest \cup Chain(o)
<1>1. f.cur \in Objects /\ f.cur \in Below(f.on) /\ f.rest \subseteq Under(f.on) \ {f.cur}
      /\ f.on \in Chain(f.cur)
  BY ShapeIs
<1>2. \A y \in f.rest : Up(y) \in f.rest \cup Chain(f.cur)
  BY DEF Nested
<1>3. CASE o = f.cur
  BY <1>1, <1>2, <1>3
<1>4. CASE f.cur # f.on /\ o = Up(f.cur) /\ f.at \in {"early_active", "mark"}
  <2>1. f.cur \in Parts
    BY <1>1, <1>4, UnderTree
  <2>2. Chain(f.cur) = {f.cur} \cup Chain(o) /\ o \in Objects
    BY <1>4, <2>1, PartTree
  <2>3. o \notin f.rest
    BY <1>1, <1>4, <2>1 DEF Nested
  <2>4. \A y \in f.rest : Up(y) # f.cur
    BY <1>4 DEF Nested
  <2>5. f.on \in Chain(o)
    BY <1>1, <1>4, <2>2
  <2>6. QED BY <1>2, <2>2, <2>3, <2>4, <2>5 DEF Below
<1>5. QED BY <1>3, <1>4 DEF Leaves

LEMMA GoNested ==
  ASSUME ShapeAssumption, NEW f \in Flows, Shape(f), NEW g, Same(f, g), NEW o, Goes(f, g, o), Leaves(f, o),
         f.on \in LBs, f.op = "create", f.full, Nested(f)
  PROVE  Nested(g)
<1>1. g.on = f.on /\ g.cur \in f.rest /\ g.rest = f.rest \ {g.cur} /\ Up(g.cur) = o /\ g.cur \in Parts
  BY ShapeIs DEF Same, Goes
<1>2. g.at \in {"cert", "vport", "script"}
  BY GoPlaced
<1>3. Chain(g.cur) = {g.cur} \cup Chain(o)
  BY <1>1, PartTree
<1>4. o \notin f.rest /\ \A y \in f.rest : Up(y) \in f.rest \cup Chain(o)
  BY LeavesIs
<1>5. \A y \in Parts : Up(y) \in f.rest => y \in f.rest
  BY DEF Nested
<1>6. \A y \in Parts : Up(y) \in g.rest => y \in g.rest
  BY <1>1, <1>4, <1>5
<1>7. \A y \in g.rest : Up(y) \in g.rest \cup Chain(g.cur)
  BY <1>1, <1>3, <1>4
<1>8. \A y \in Parts : Up(y) = g.cur => y \in g.rest
  BY <1>1, <1>5, PartTree, ChainTree
<1>9. QED BY <1>2, <1>6, <1>7, <1>8 DEF Nested

LEMMA ClimbNested ==
  ASSUME ShapeAssumption, NEW f \in Flows, Shape(f), NEW g, Same(f, g), NEW o, Climbs(f, g, o), Leaves(f, o),
         f.on \in LBs, f.op = "create", f.full, Nested(f), o \notin Rules
  PROVE  Nested(g)
<1>1. g.on = f.on /\ g.cur = o /\ g.rest = f.rest /\ \A y \in f.rest : Up(y) # o
  BY DEF Same, Climbs
<1>2. /\ o \in Objects /\ o \notin f.rest /\ o \in Below(f.on)
      /\ \A y \in f.rest : Up(y) \in f.rest \cup Chain(o)
  BY LeavesIs
<1>3. g.at = IF o \in LBs THEN "active" ELSE IF o \in Listeners THEN "early_active" ELSE "mark"
  BY <1>2, ClimbPlaced
<1>4. o \in LBs => f.rest = {}
  <2>1. o \in LBs => \A y \in f.rest : Up(y) \in f.rest
    BY <1>1, <1>2, LbTree
  <2>2. f.rest \subseteq Under(f.on)
    BY ShapeIs
  <2>3. QED BY <2>1, <2>2, NoRest
<1>5. \A y \in Parts : Up(y) \in f.rest => y \in f.rest
  BY DEF Nested
<1>6. QED BY <1>1, <1>2, <1>3, <1>4, <1>5 DEF Nested

LEMMA MovesShape ==
  ASSUME ShapeAssumption, NEW f \in Flows, Shape(f), f.at # "end", f.step = "run", NEW g, Moves(f, g)
  PROVE  Shape(g)
<1>1. /\ g \in Flows /\ g.op = f.op /\ g.on = f.on /\ g.cert = f.cert /\ g.full = f.full
      /\ g.step = f.step /\ g.done = Done(f)
  BY DEF Moves, Same
<1>2. /\ f.step # "idle" /\ f.op \in Ops /\ f.on \in Objects /\ f.cur \in Below(f.on) /\ f.cur \in Objects
      /\ f.on \in Listeners => (f.cert = None <=> TlsOf[f.on] = None)
      /\ f.on \notin LBs => f.cur = f.on /\ f.rest = {} /\ \A t \in f.done : t.on = f.on
  BY ShapeIs DEF Shape
<1>3. f.on \in LBs =>
        /\ f.rest \subseteq Under(f.on) \ {f.cur}
        /\ f.op = "update" => f.cur = f.on /\ f.rest = {}
        /\ f.op = "delete" => f.cur \notin Rules /\ f.rest \cap Rules = {} /\ (f.cur = f.on => f.rest = {})
        /\ f.op = "create" /\ ~f.full => f.cur = f.on /\ f.rest = {}
        /\ f.op = "create" /\ f.full => Nested(f)
        /\ \A t \in f.done : t.on \in Below(f.on)
  BY DEF Shape
<1>4. \A t \in Done(f) : t \in f.done \/ t.on = f.cur
  BY <1>2, DoneIs
<1>5. CASE Succ(f) # "below" /\ (Succ(f) = "end" => f.cur = f.on) /\ Stays(f, g)
  <2>1. Placed(g)
    BY <1>5, StayPlaced DEF Moves
  <2>2. g.cur = f.cur /\ g.rest = f.rest /\ g.at = Succ(f)
    BY <1>5 DEF Stays
  <2>3. f.on \in LBs /\ f.op = "create" /\ f.full => Nested(g)
    BY <1>3, <1>5, StayNested DEF Moves
  <2>4. Ending(g) /\ f.on \notin LBs => Task("active", f.on) \in Done(f)
    <3>1. ASSUME Ending(g), f.on \notin LBs PROVE f.at = "active"
      BY <1>5, <2>2, <3>1, BelowIs DEF Ending
    <3>2. "active" \in Undoes(f)
      BY DEF Undoes
    <3>3. QED BY <1>2, <3>1, <3>2, DoneIs
  <2>5. QED BY <1>1, <1>2, <1>3, <1>4, <2>1, <2>2, <2>3, <2>4 DEF Shape
<1>6. ASSUME NEW o \in Objects, Goes(f, g, o) \/ Climbs(f, g, o), f.on \in LBs,
             f.op = "create" => f.full /\ Leaves(f, o) /\ o \notin Rules,
             f.op = "delete" => o = f.on, f.op \in {"create", "delete"}
      PROVE  Shape(g)
  <2>1. Same(f, g)
    BY DEF Moves
  <2>2. f.op = "create" => o \in Below(f.on) /\ o \notin f.rest
    BY <1>3, <1>6, LeavesIs
  <2>3. Below(f.on) = Under(f.on) \cup {f.on}
    BY <1>6, UnderTree
  <2>4. CASE Goes(f, g, o)
    <3>1. /\ Placed(g) /\ g.cur \in Under(f.on) /\ g.cur \in Parts
          /\ f.op = "delete" => g.cur \notin Rules
      BY <1>6, <2>1, <2>4, GoPlaced
    <3>2. g.rest = f.rest \ {g.cur}
      BY <2>4 DEF Goes
    <3>3. g.cur # f.on
      BY <3>1 DEF Under
    <3>4. f.op = "create" => Nested(g)
      BY <1>3, <1>6, <2>1, <2>4, GoNested
    <3>5. QED BY <1>1, <1>2, <1>3, <1>4, <1>6, <2>3, <3>1, <3>2, <3>3, <3>4 DEF Shape
  <2>5. CASE Climbs(f, g, o)
    <3>1. Placed(g)
      BY <1>6, <2>1, <2>5, ClimbPlaced
    <3>2. g.cur = o /\ g.rest = f.rest /\ (f.op = "delete" => f.rest = {})
      BY <2>5 DEF Climbs
    <3>3. f.op = "create" => Nested(g)
      BY <1>3, <1>6, <2>1, <2>5, ClimbNested
    <3>4. f.on \notin Rules
      BY <1>6, LbTree
    <3>5. QED BY <1>1, <1>2, <1>3, <1>4, <1>6, <2>2, <2>3, <3>1, <3>2, <3>3, <3>4 DEF Shape
  <2>6. QED BY <1>6, <2>4, <2>5
<1>7. CASE Succ(f) = "below" /\ (Goes(f, g, f.cur) \/ Climbs(f, g, f.cur))
  <2>1. f.op = "create" /\ f.on \in LBs /\ f.full /\ f.at \in {"vs", "vport", "bind"} /\ f.cur \notin Rules
    BY <1>7, BelowIs
  <2>2. QED BY <1>2, <1>6, <1>7, <2>1 DEF Leaves
<1>8. CASE Succ(f) = "end" /\ f.cur # f.on /\ (Goes(f, g, Next1(f)) \/ Climbs(f, g, Next1(f)))
  <2>1. /\ Whole(f) /\ f.op \in {"create", "delete"} /\ f.on \in LBs
        /\ f.op = "create" => f.at \in {"early_active", "mark"}
    BY <1>8, BelowIs DEF Whole
  <2>2. Next1(f) \in Objects /\ (f.op = "create" => Next1(f) = Up(f.cur) /\ Next1(f) \notin Rules)
        /\ (f.op = "delete" => Next1(f) = f.on)
    BY <1>8, NextUp
  <2>3. f.op = "create" => f.full
    BY <2>1, WholeIs
  <2>4. QED BY <1>6, <1>8, <2>1, <2>2, <2>3 DEF Leaves
<1>9. QED BY <1>5, <1>7, <1>8 DEF Moves

-----------------------------------------------------------------------------
(* The types of the state.                                                 *)
LEMMA FlowTyped ==
  ASSUME flow' \in [Slots -> Flows], \A t \in Slots : flow'[t] = Idle \/ Shape(flow'[t])
  PROVE  FlowInv'
  BY DEF FlowInv, Shape, Placed, Nested, Under, Below, Chain, PolicyAt, ListenerAt, Lb, Up, Ending, Idle,
     Task, Objects, Flows, Histories, Labels, LbStages, ListenerStages, PolicyStages, RuleStages, TlsTasks, Parts, Ops

LEMMA FlowFrame ==
  ASSUME FlowInv, NEW s \in Slots, NEW g, g = Idle \/ (g \in Flows /\ Shape(g)),
         flow' = [flow EXCEPT ![s] = g]
  PROVE  FlowInv' /\ flow'[s] = g /\ \A t \in Slots \ {s} : flow'[t] = flow[t]
<1>1. Idle \in Flows
  BY DEF Idle, Flows, Histories, Labels
<1>2. flow' \in [Slots -> Flows] /\ flow'[s] = g /\ \A t \in Slots \ {s} : flow'[t] = flow[t]
  BY <1>1 DEF FlowInv
<1>3. \A t \in Slots : flow'[t] = Idle \/ Shape(flow'[t])
  BY <1>2 DEF FlowInv
<1>4. FlowInv'
  BY <1>2, <1>3, FlowTyped
<1>5. QED BY <1>2, <1>4

Only(s) == \A t \in Slots \ {s} : flow'[t] = flow[t]

LEMMA Stage ==
  ASSUME ShapeAssumption, FlowInv, NEW s \in Slots, NEW do, do # "end", At(s, do)
  PROVE  flow[s] \in Flows /\ Shape(flow[s]) /\ flow[s].at = do /\ flow[s].at # "end" /\ flow[s].step = "run"
<1>1. flow[s] \in Flows /\ (flow[s] = Idle \/ Shape(flow[s])) /\ flow[s].at = do /\ flow[s].step = "run"
  BY DEF FlowInv, At
<1>2. flow[s] # Idle
  BY <1>1 DEF Idle
<1>3. QED BY <1>1, <1>2

LEMMA ProceedStep ==
  ASSUME ShapeAssumption, FlowInv, NEW s \in Slots, NEW f \in Flows, Shape(f), f.at # "end", f.step = "run",
         Proceed(s, f)
  PROVE  FlowInv' /\ flow'[s] \in Flows /\ Moves(f, flow'[s]) /\ Shape(flow'[s]) /\ Only(s)
<1>1. PICK g \in Come([f EXCEPT !.done = Done(f)], f.cur, Tasks(f, f.cur)[f.at]) : flow' = [flow EXCEPT ![s] = g]
  BY DEF Proceed
<1>2. Moves(f, g)
  BY MoveStep
<1>3. g \in Flows /\ Shape(g)
  BY <1>2, MovesShape DEF Moves, Same
<1>4. FlowInv' /\ flow'[s] = g /\ \A t \in Slots \ {s} : flow'[t] = flow[t]
  BY <1>1, <1>3, FlowFrame
<1>5. QED BY <1>2, <1>3, <1>4 DEF Only

LEMMA AdvanceStep ==
  ASSUME ShapeAssumption, FlowInv, NEW s \in Slots, NEW do, do # "end", At(s, do), Advance(s)
  PROVE  FlowInv' /\ flow'[s] \in Flows /\ Moves(flow[s], flow'[s]) /\ Shape(flow'[s]) /\ Only(s)
<1>1. flow[s] \in Flows /\ Shape(flow[s]) /\ flow[s].at # "end" /\ flow[s].step = "run"
  BY Stage
<1>2. QED BY <1>1, ProceedStep DEF Advance

(* The object that a task is about.                                        *)
LEMMA Targets ==
  ASSUME ShapeAssumption, FlowInv, NEW s \in Slots, NEW do, do # "end", At(s, do)
  PROVE  /\ do \in {"cert", "template", "new_template", "no_template", "no_cert", "vport", "replace",
                    "no_vport", "tls_row"} => Target(s) \in Listeners
         /\ do \in {"cert", "template", "new_template", "no_template", "no_cert"} => TlsOf[Target(s)] # None
         /\ do \in {"unbind", "no_script"} => Target(s) \in Policies
         /\ do \in {"script", "bind", "mark", "script_without"} => PolicyAt(Target(s)) \in Policies
         /\ do \in {"vs", "no_vs", "lb_row", "read_ports", "write_ports"} => Target(s) \in LBs
         /\ Target(s) \in Objects
<1>1. flow[s] \in Flows /\ Shape(flow[s]) /\ flow[s].at = do
  BY Stage
<1>2. PICK f \in Flows : f = flow[s]
  BY <1>1
<1>3. Shape(f) /\ f.at = do /\ Target(s) = f.cur
  BY <1>1, <1>2 DEF Target
<1>4. f.cur \in Listeners /\ f.at \in TlsTasks => TlsOf[f.cur] # None
  BY <1>3, AtListener
<1>5. QED BY <1>3, <1>4, Places, ShapeIs, PolicyTree, RuleTree DEF TlsTasks

-----------------------------------------------------------------------------
(* What Inv says of all but the flows.                                     *)
Typed ==
    /\ status \in [Objects -> Statuses] /\ tls \in [Listeners -> Certs \cup {None}]
    /\ vs \subseteq LBs /\ vports \subseteq Listeners
    /\ sslOn \subseteq {x \in vports : template[x] # None}
    /\ bound \subseteq {p \in scripts : ListenerOf[p] \in vports}
    /\ template \in [Listeners -> certs \cup {None}]
    /\ certs \subseteq Certs /\ scripts \subseteq Policies
    /\ inScript \subseteq {r \in Rules : PolicyOf[r] \in scripts}
    /\ scene \in Scenes /\ \A x \in Listeners : TlsInv(x)

LEMMA InvIs == Inv <=> Typed /\ FlowInv
<1>1. FlowInv => \A s \in Slots : flow[s].on \in Objects \cup {None}
  <2>1. SUFFICES ASSUME FlowInv, NEW s \in Slots PROVE flow[s].on \in Objects \cup {None}
    OBVIOUS
  <2>2. flow[s] \in Flows
    BY <2>1 DEF FlowInv
  <2>3. QED BY <2>2 DEF Flows
<1>2. QED BY <1>1 DEF Inv, Typed, TypeOK

LEMMA ActivatedIs ==
  ASSUME status \in [Objects -> Statuses], NEW S
  PROVE  /\ Activated(S) \in [Objects -> Statuses]
         /\ \A o \in Objects : Activated(S)[o] \in {status[o], "ACTIVE"}
         /\ \A o \in Objects : o \notin S \/ ~HasRow(o) => Activated(S)[o] = status[o]
         /\ \A o \in Objects : o \in S /\ status[o] = "PENDING" => Activated(S)[o] = "ACTIVE"
         /\ \A o \in Objects : o \in S /\ status[o] = "ERROR" /\ o \notin Listeners => Activated(S)[o] = "ACTIVE"
         /\ \A o \in Objects : status[o] = "ERROR" /\ o \in Listeners => Activated(S)[o] = "ERROR"
         /\ \A o \in Objects : status[o] \in {"NEW", "GONE"} => Activated(S)[o] = status[o]
  BY DEF Activated, Rows, HasRow, Statuses

LEMMA PutCertTyped ==
  ASSUME ShapeAssumption, Inv, NEW s \in Slots, PutCert(s)
  PROVE  Typed'
<1>1. Target(s) \in Listeners /\ TlsOf[Target(s)] # None /\ Typed /\ FlowInv
  BY Targets, InvIs DEF PutCert
<1>2. PICK c : c = CertFor(s, Target(s))
  OBVIOUS
<1>3. c \in Certs
  <2>1. flow[s] \in Flows /\ Shape(flow[s])
    BY <1>1, Stage DEF PutCert
  <2>2. PICK f \in Flows : f = flow[s]
    BY <2>1
  <2>3. f.cert \in Certs \cup {None} /\ (f.on \in Listeners => (f.cert = None <=> TlsOf[f.on] = None))
    BY <2>1, <2>2 DEF Flows, Shape
  <2>4. tls[Target(s)] \in Certs
    BY <1>1 DEF Typed, TlsInv
  <2>5. c = IF f.on = Target(s) THEN f.cert ELSE tls[Target(s)]
    BY <1>2, <2>2 DEF CertFor
  <2>6. QED BY <1>1, <2>3, <2>4, <2>5
<1>4. QED BY <1>1, <1>2, <1>3 DEF PutCert, Typed, port, TlsInv

LEMMA PutTemplateTyped ==
  ASSUME ShapeAssumption, Inv, NEW s \in Slots, PutTemplate(s)
  PROVE  Typed'
<1>1. Target(s) \in Listeners /\ TlsOf[Target(s)] # None /\ Typed
  BY Targets, InvIs DEF PutTemplate
<1>2. PICK c, x : c = CertFor(s, x) /\ x = Target(s)
  OBVIOUS
<1>3. c \in certs /\ c # None /\ template' = [template EXCEPT ![x] = c]
  BY <1>1, <1>2 DEF PutTemplate, Typed, ShapeAssumption
<1>4. \A y \in Listeners : TlsInv(y)'
  BY <1>1, <1>2, <1>3 DEF Typed, TlsInv, PutTemplate
<1>5. sslOn' \subseteq {y \in vports' : template'[y] # None}
  BY <1>1, <1>2, <1>3 DEF Typed, PutTemplate, port
<1>6. QED BY <1>1, <1>2, <1>3, <1>4, <1>5 DEF PutTemplate, Typed, port

LEMMA UpdateTemplateTyped ==
  ASSUME ShapeAssumption, Inv, NEW s \in Slots, UpdateTemplate(s)
  PROVE  Typed'
<1>1. Target(s) \in Listeners /\ TlsOf[Target(s)] # None /\ Typed
  BY Targets, InvIs DEF UpdateTemplate
<1>2. PICK c, x, old : c = CertFor(s, x) /\ x = Target(s) /\ old = template[x]
  OBVIOUS
<1>3. c \in certs /\ c # None
  BY <1>1, <1>2 DEF UpdateTemplate, Typed, ShapeAssumption
<1>4. CASE old = None
  BY <1>1, <1>2, <1>4 DEF UpdateTemplate, Typed, port, TlsInv
<1>5. CASE old # None
  <2>1. /\ template' = [template EXCEPT ![x] = c]
        /\ \/ ~Uses(template', old) /\ certs' = certs \ {old} /\ c # old
           \/ certs' = certs
    BY <1>2, <1>5 DEF UpdateTemplate
  <2>2. \A y \in Listeners : TlsInv(y)'
    BY <1>1, <1>2, <1>3, <2>1 DEF Typed, TlsInv, UpdateTemplate
  <2>3. sslOn' \subseteq {y \in vports' : template'[y] # None}
    BY <1>1, <1>2, <1>3, <2>1 DEF Typed, UpdateTemplate, port
  <2>4. template' \in [Listeners -> certs' \cup {None}]
    BY <1>1, <1>2, <1>3, <2>1 DEF Typed, Uses
  <2>5. QED BY <1>1, <2>1, <2>2, <2>3, <2>4 DEF UpdateTemplate, Typed, port
<1>6. QED BY <1>4, <1>5

LEMMA DeleteTemplateTyped ==
  ASSUME ShapeAssumption, Inv, NEW s \in Slots, DeleteTemplate(s)
  PROVE  Typed'
<1>1. Target(s) \in Listeners /\ Typed
  BY Targets, InvIs DEF DeleteTemplate
<1>2. PICK x : x = Target(s)
  OBVIOUS
<1>3. \A y \in Listeners : TlsInv(y)'
  BY <1>1 DEF Typed, TlsInv, DeleteTemplate
<1>4. QED BY <1>1, <1>2, <1>3 DEF Typed, DeleteTemplate

LEMMA DeleteCertTyped ==
  ASSUME ShapeAssumption, Inv, NEW s \in Slots, DeleteCert(s)
  PROVE  Typed'
<1>1. Typed
  BY InvIs
<1>2. PICK c : c = tls[Target(s)]
  OBVIOUS
<1>3. template' \in [Listeners -> certs' \cup {None}]
  BY <1>1, <1>2 DEF Typed, DeleteCert, Uses
<1>4. QED BY <1>1, <1>2, <1>3 DEF Typed, DeleteCert, port, TlsInv

LEMMA PortTyped ==
  ASSUME ShapeAssumption, Inv, NEW s \in Slots, CreatePort(s) \/ ReplacePort(s) \/ DeletePort(s)
  PROVE  Typed'
<1>1. Target(s) \in Listeners /\ Typed
  BY Targets, InvIs DEF CreatePort, ReplacePort, DeletePort
<1>2. CASE CreatePort(s)
  BY <1>1, <1>2 DEF CreatePort, Typed, files, TlsInv
<1>3. CASE ReplacePort(s)
  BY <1>1, <1>3 DEF ReplacePort, Typed, files, TlsInv
<1>4. CASE DeletePort(s)
  BY <1>1, <1>4 DEF DeletePort, Typed, files, TlsInv, PoliciesOf
<1>5. QED BY <1>2, <1>3, <1>4

LEMMA ImportTyped ==
  ASSUME ShapeAssumption, Inv, NEW s \in Slots, PolicyAt(Target(s)) \in Policies,
         NEW R, R \subseteq RulesOf(PolicyAt(Target(s))), Import(s, R)
  PROVE  Typed'
<1>1. Typed
  BY InvIs
<1>2. PICK p \in Policies : p = PolicyAt(Target(s))
  OBVIOUS
<1>3. R \subseteq {r \in Rules : PolicyOf[r] = p}
  BY <1>2 DEF RulesOf
<1>4. QED BY <1>1, <1>2, <1>3 DEF Import, Typed, port, TlsInv

LEMMA ScriptTyped ==
  ASSUME ShapeAssumption, Inv, NEW s \in Slots,
         PutScript(s) \/ PutScriptWithout(s) \/ Bind(s) \/ Unbind(s) \/ DeleteScript(s)
  PROVE  Typed'
<1>1. Typed
  BY InvIs
<1>2. CASE PutScript(s)
  <2>1. PolicyAt(Target(s)) \in Policies
    BY <1>2, Targets, InvIs DEF PutScript
  <2>2. PICK R : R = Rows(RulesOf(PolicyAt(Target(s))))
    OBVIOUS
  <2>3. R \subseteq RulesOf(PolicyAt(Target(s))) /\ Import(s, R)
    BY <1>2, <2>2 DEF Rows, PutScript
  <2>4. QED BY <2>1, <2>3, ImportTyped
<1>3. CASE PutScriptWithout(s)
  <2>1. PolicyAt(Target(s)) \in Policies
    BY <1>3, Targets, InvIs DEF PutScriptWithout
  <2>2. PICK R : R = Rows(RulesOf(PolicyAt(Target(s)))) \ {Target(s)}
    OBVIOUS
  <2>3. R \subseteq RulesOf(PolicyAt(Target(s))) /\ Import(s, R)
    BY <1>3, <2>2 DEF Rows, PutScriptWithout
  <2>4. QED BY <2>1, <2>3, ImportTyped
<1>4. CASE Bind(s)
  BY <1>1, <1>4 DEF Bind, Typed, files, TlsInv
<1>5. CASE Unbind(s)
  BY <1>1, <1>5 DEF Unbind, Typed, files, TlsInv
<1>6. CASE DeleteScript(s)
  BY <1>1, <1>6 DEF DeleteScript, Typed, TlsInv, RulesOf
<1>7. QED BY <1>2, <1>3, <1>4, <1>5, <1>6

LEMMA VsTyped ==
  ASSUME ShapeAssumption, Inv, NEW s \in Slots, CreateVs(s) \/ DeleteVs(s) \/ ReadPorts(s) \/ WritePorts(s)
  PROVE  Typed'
<1>1. Target(s) \in LBs /\ Typed
  BY Targets, InvIs DEF CreateVs, DeleteVs, ReadPorts, WritePorts
<1>2. CASE CreateVs(s)
  BY <1>1, <1>2 DEF CreateVs, Typed, files, port, TlsInv
<1>3. CASE DeleteVs(s)
  BY <1>1, <1>3 DEF DeleteVs, DropVs, Typed, files, TlsInv, ListenersOf, ShapeAssumption
<1>4. CASE ReadPorts(s)
  BY <1>1, <1>4 DEF ReadPorts, Typed, files, port, device, TlsInv
<1>5. CASE WritePorts(s)
  BY <1>1, <1>5 DEF WritePorts, Typed, files, TlsInv
<1>6. QED BY <1>2, <1>3, <1>4, <1>5

LEMMA MarkTyped ==
  ASSUME ShapeAssumption, Inv, NEW s \in Slots,
         MarkOne(s) \/ MarkEarly(s) \/ MarkActive(s) \/ UpdateTls(s) \/ DeleteRow(s) \/ DeleteLbRow(s)
  PROVE  Typed'
<1>1. Typed
  BY InvIs
<1>2. CASE MarkOne(s) \/ MarkEarly(s) \/ MarkActive(s)
  <2>1. PICK S : status' = Activated(S)
    BY <1>2 DEF MarkOne, MarkEarly, MarkActive
  <2>2. status' \in [Objects -> Statuses]
    BY <1>1, <2>1, ActivatedIs DEF Typed
  <2>3. QED BY <1>1, <1>2, <2>2 DEF MarkOne, MarkEarly, MarkActive, Typed, device, files, port, TlsInv
<1>3. CASE UpdateTls(s)
  <2>1. flow[s] \in Flows /\ Shape(flow[s]) /\ flow[s].at = "tls_row"
    BY <1>3, Stage, InvIs DEF UpdateTls
  <2>2. PICK f \in Flows : f = flow[s]
    BY <2>1
  <2>3. f.cur \in Listeners /\ f.on = f.cur /\ f.cert \in Certs \cup {None}
    BY <2>1, <2>2, Places, AtListener, ShapeIs DEF Flows, Ops
  <2>4. f.cert = None <=> TlsOf[f.cur] = None
    BY <2>1, <2>2, <2>3 DEF Shape
  <2>5. tls' = [tls EXCEPT ![f.cur] = f.cert] /\ UNCHANGED <<scene, status, device>>
    BY <1>3, <2>2 DEF UpdateTls, Target
  <2>6. QED BY <1>1, <2>3, <2>4, <2>5 DEF Typed, device, files, port, TlsInv
<1>4. CASE DeleteRow(s) \/ DeleteLbRow(s)
  <2>1. status' \in [Objects -> Statuses]
    BY <1>1, <1>4 DEF DeleteRow, DeleteLbRow, Typed, Statuses
  <2>2. QED BY <1>1, <1>4, <2>1 DEF DeleteRow, DeleteLbRow, Typed, device, files, port, TlsInv
<1>5. QED BY <1>2, <1>3, <1>4

-----------------------------------------------------------------------------
(* The flow of a new request.                                              *)
(* The task a request begins with.                                         *)
Begins(g) ==
    /\ g.on \in Listeners =>
         g.at = CASE g.op = "create" -> IF TlsOf[g.on] = None THEN "vport" ELSE "cert"
                  [] g.op = "update" -> IF TlsOf[g.on] = None THEN "replace" ELSE "cert"
                  [] g.op = "delete" -> IF TlsOf[g.on] = None THEN "no_vport" ELSE "no_template"
    /\ g.on \in Policies => g.at = IF g.op = "delete" THEN "unbind" ELSE "script"
    /\ g.on \in Rules => g.at = IF g.op = "delete" THEN "script_without" ELSE "script"

LEMMA PartBegins ==
  ASSUME ShapeAssumption, NEW op \in Ops, NEW o \in Parts, NEW cert \in Certs \cup {None},
         o \in Listeners => (cert = None <=> TlsOf[o] = None),
         NEW g \in Come(Flow(op, o, cert), Flow(op, o, cert).on, First(Flow(op, o, cert), Flow(op, o, cert).on))
  PROVE  /\ g \in Flows /\ Shape(g) /\ g.op = op /\ g.on = o /\ g.cert = cert /\ g.rest = {} /\ g.cur = o
         /\ g.done = {} /\ g.step = "queued" /\ Begins(g) /\ g.full = FALSE
<1>1. PICK f : f = Flow(op, o, cert)
  OBVIOUS
<1>2. o \in Objects
  BY DEF Parts, Objects
<1>3. /\ f \in Flows /\ f.op = op /\ f.on = o /\ f.cert = cert /\ f.full = FALSE /\ f.read = {} /\ f.rest = {}
      /\ f.cur = o /\ f.done = {} /\ f.step = "queued"
  <2>1. f = [op |-> op, on |-> o, cert |-> cert, full |-> FALSE, read |-> {}, rest |-> {}, cur |-> o, at |-> "end",
             done |-> {}, step |-> "queued"]
    BY <1>1 DEF Flow, Idle
  <2>2. QED BY <1>2, <2>1 DEF Flows, Labels, Histories, Ops
<1>4. (o \in LBs) = FALSE /\ o \notin LBs
  BY PartTree, Membership
<1>5. /\ o \in Listeners => First(f, o) =
           CASE op = "create" -> IF TlsOf[o] = None THEN "vport" ELSE "cert"
             [] op = "update" -> IF TlsOf[o] = None THEN "replace" ELSE "cert"
             [] op = "delete" -> IF TlsOf[o] = None THEN "no_vport" ELSE "no_template"
      /\ o \in Policies => First(f, o) = IF op = "delete" THEN "unbind" ELSE "script"
      /\ o \in Rules => First(f, o) = IF op = "delete" THEN "script_without" ELSE "script"
  <2>1. CASE o \in Listeners
    <3>1. o \notin Policies /\ o \notin Rules
      BY <2>1, ListenerTree
    <3>2. Tasks(f, o) = OfListener(f)
      BY <2>1, <1>4 DEF Tasks
    <3>3. OfListener(f) = CASE op = "create" -> ListenerCreateFlow [] op = "update" -> ListenerUpdateFlow
                            [] op = "delete" -> ListenerDeleteFlow
      BY <1>3, <1>4 DEF OfListener
    <3>4. QED BY <2>1, <3>1, <3>2, <3>3 DEF First, Ops, ListenerCreateFlow, ListenerUpdateFlow, ListenerDeleteFlow
  <2>2. CASE o \in Policies
    <3>1. o \notin Listeners /\ o \notin Rules
      BY <2>2, PolicyTree
    <3>2. Tasks(f, o) = OfPolicy(f)
      BY <2>2, <3>1, <1>4 DEF Tasks
    <3>3. OfPolicy(f) = CASE op = "create" -> PolicyCreateFlow [] op = "update" -> PolicyUpdateFlow
                            [] op = "delete" -> PolicyDeleteFlow
      BY <1>3, <1>4 DEF OfPolicy
    <3>4. QED BY <2>2, <3>1, <3>2, <3>3 DEF First, Ops, PolicyCreateFlow, PolicyUpdateFlow, PolicyDeleteFlow
  <2>3. CASE o \in Rules
    <3>1. o \notin Listeners /\ o \notin Policies
      BY <2>3, RuleTree
    <3>2. Tasks(f, o) = OfRule(f)
      BY <2>3, <3>1, <1>4 DEF Tasks
    <3>3. OfRule(f) = CASE op = "create" -> RuleCreateFlow [] op = "update" -> RuleUpdateFlow
                            [] op = "delete" -> RuleDeleteFlow
      BY <1>3, <1>4 DEF OfRule
    <3>4. QED BY <2>3, <3>1, <3>2, <3>3 DEF First, Ops, RuleCreateFlow, RuleUpdateFlow, RuleDeleteFlow
  <2>4. QED BY <2>1, <2>2, <2>3 DEF Parts
<1>6. PICK n \in Labels \ {"end"} : n = First(f, o)
  BY <1>5 DEF Labels, Parts, Ops
<1>7. n # "below"
  BY <1>6 DEF Labels
<1>8. g = [f EXCEPT !.cur = o, !.at = n]
  BY <1>1, <1>3, <1>6, <1>7 DEF Come
<1>9. /\ g \in Flows /\ g.op = f.op /\ g.on = f.on /\ g.cert = f.cert /\ g.full = f.full /\ g.read = f.read
      /\ g.step = f.step /\ g.done = f.done /\ g.rest = f.rest /\ g.cur = o /\ g.at = n
  BY <1>2, <1>3, <1>8 DEF Flows
<1>10. Begins(g)
  <2>1. g.on = o /\ g.op = op /\ g.at = First(f, o)
    BY <1>3, <1>6, <1>9
  <2>2. QED BY <1>5, <2>1 DEF Begins
<1>11. Placed(g)
  <2>1. (g.on \in LBs) = FALSE
    BY <1>3, <1>4, <1>9
  <2>2. g.cur \notin LBs
    BY <1>4, <1>9
  <2>3. g.cur \in Listeners =>
         g.at \in ListenerStages(g.op, FALSE) /\ (TlsOf[g.cur] = None => g.at \notin TlsTasks)
    BY <1>3, <1>5, <1>6, <1>9 DEF ListenerStages, TlsTasks, Ops
  <2>4. g.cur \in Policies => g.at \in PolicyStages(g.op, FALSE)
    BY <1>3, <1>5, <1>6, <1>9 DEF PolicyStages, Ops
  <2>5. g.cur \in Rules => g.at \in RuleStages(g.op, FALSE)
    BY <1>3, <1>5, <1>6, <1>9 DEF RuleStages, Ops
  <2>6. QED BY <2>1, <2>2, <2>3, <2>4, <2>5 DEF Placed
<1>12. g.cur \in Below(g.on)
  BY <1>2, <1>3, <1>9 DEF Below, Chain
<1>13. Shape(g)
  BY <1>2, <1>3, <1>4, <1>6, <1>9, <1>11, <1>12 DEF Shape, Ending
<1>14. QED BY <1>3, <1>9, <1>10, <1>13

LEMMA LbUpdateBegins ==
  ASSUME ShapeAssumption, NEW l \in LBs,
         NEW g \in Come(Flow("update", l, None), Flow("update", l, None).on,
                        First(Flow("update", l, None), Flow("update", l, None).on))
  PROVE  /\ g \in Flows /\ Shape(g) /\ g.op = "update" /\ g.on = l /\ g.cur = l /\ g.at = "read_ports"
         /\ g.done = {} /\ g.step = "queued" /\ g.rest = {} /\ g.cert = None
<1>1. PICK f : f = Flow("update", l, None)
  OBVIOUS
<1>2. l \in Objects
  BY DEF Objects
<1>3. /\ f \in Flows /\ f.op = "update" /\ f.on = l /\ f.cert = None /\ f.full = FALSE /\ f.read = {} /\ f.rest = {}
      /\ f.cur = l /\ f.done = {} /\ f.step = "queued"
  <2>1. f = [op |-> "update", on |-> l, cert |-> None, full |-> FALSE, read |-> {}, rest |-> {}, cur |-> l, at |-> "end",
             done |-> {}, step |-> "queued"]
    BY <1>1 DEF Flow, Idle
  <2>2. QED BY <1>2, <2>1 DEF Flows, Labels, Histories, Ops
<1>4. First(f, l) = "read_ports"
  <2>1. l \notin Listeners
    BY LbTree
  <2>2. Tasks(f, l) = LbUpdateFlow
    BY <1>3, LbTree DEF Tasks, OfLb
  <2>3. QED BY <2>1, <2>2 DEF First, LbUpdateFlow
<1>5. g = [f EXCEPT !.cur = l, !.at = "read_ports"]
  BY <1>1, <1>3, <1>4 DEF Come
<1>6. /\ g \in Flows /\ g.op = f.op /\ g.on = f.on /\ g.cert = f.cert /\ g.full = f.full /\ g.read = f.read
      /\ g.step = f.step /\ g.done = f.done /\ g.rest = f.rest /\ g.cur = l /\ g.at = "read_ports"
  BY <1>2, <1>3, <1>5 DEF Flows, Labels
<1>7. Placed(g)
  BY <1>3, <1>6, LbTree DEF Placed, LbStages
<1>8. g.cur \in Below(g.on)
  BY <1>2, <1>3, <1>6 DEF Below, Chain
<1>9. Shape(g)
  BY <1>2, <1>3, <1>6, <1>7, <1>8, LbTree DEF Shape, Ending, Ops
<1>10. QED BY <1>3, <1>6, <1>9

(* A new flow for a load balancer.                                         *)
Plain(e, op, l, rest) ==
    /\ e \in Flows /\ e.op = op /\ e.on = l /\ e.cert = None /\ e.rest = rest
    /\ e.cur = l /\ e.done = {} /\ e.step = "queued"

LEMMA LbCreateBegins ==
  ASSUME ShapeAssumption, NEW l \in LBs, NEW new, new = {} \/ new = Under(l),
         NEW e, Plain(e, "create", l, new), e.full <=> new # {},
         NEW g \in Come(e, e.on, First(e, e.on))
  PROVE  /\ g \in Flows /\ Shape(g) /\ g.op = "create" /\ g.on = l /\ g.cur = l
         /\ g.at = (IF g.full THEN "vs" ELSE "early_active")
         /\ g.done = {} /\ g.step = "queued" /\ g.rest = new /\ (g.full <=> new # {}) /\ g.cert = None
<1>2. l \in Objects /\ new \subseteq Parts
  BY UnderTree DEF Objects
<1>5. /\ e \in Flows /\ e.op = "create" /\ e.on = l /\ e.cert = None /\ e.full \in BOOLEAN /\ e.rest = new
      /\ e.cur = l /\ e.done = {} /\ e.step = "queued"
  BY DEF Plain, Flows
<1>6. First(e, l) = IF e.full THEN "vs" ELSE "early_active"
  <2>1. l \notin Listeners
    BY LbTree
  <2>2. Tasks(e, l) = IF e.full THEN LbCreateFullFlow ELSE LbCreateFlow
    BY <1>5, LbTree DEF Tasks, OfLb
  <2>3. QED BY <2>1, <2>2 DEF First, LbCreateFullFlow, LbCreateFlow
<1>7. PICK n \in Labels : n = First(e, l) /\ n \notin {"end", "below"}
  BY <1>6 DEF Labels
<1>8. g = [e EXCEPT !.cur = l, !.at = n]
  BY <1>5, <1>7 DEF Come
<1>9. /\ g \in Flows /\ g.op = e.op /\ g.on = e.on /\ g.cert = e.cert /\ g.full = e.full /\ g.read = e.read
      /\ g.step = e.step /\ g.done = e.done /\ g.rest = e.rest /\ g.cur = l /\ g.at = n
  BY <1>2, <1>5, <1>8 DEF Flows
<1>10. Placed(g)
  BY <1>5, <1>6, <1>7, <1>9, LbTree DEF Placed, LbStages
<1>11. g.cur \in Below(g.on)
  BY <1>2, <1>5, <1>9 DEF Below, Chain
<1>12. g.full => Nested(g)
  <2>1. SUFFICES ASSUME g.full PROVE Nested(g)
    OBVIOUS
  <2>2. g.rest = Under(l) /\ g.at = "vs" /\ g.on = l /\ g.cur = l
    BY <1>5, <1>6, <1>7, <1>9, <2>1
  <2>3. \A y \in Parts : Up(y) \in Under(l) => y \in Under(l)
    BY UnderTree, PartTree, ChainTree DEF Under, Below, Parts, Objects
  <2>4. \A y \in Under(l) : Up(y) \in Under(l) \cup Chain(l)
    BY UnderTree, PartTree, ChainTree DEF Under, Below, Parts, Objects
  <2>5. QED BY <2>2, <2>3, <2>4 DEF Nested
<1>13. g.rest \subseteq Under(l) \ {l}
  BY <1>5, <1>9 DEF Under
<1>14. Shape(g)
  BY <1>2, <1>5, <1>7, <1>9, <1>10, <1>11, <1>12, <1>13, LbTree DEF Shape, Ending, Ops
<1>15. QED BY <1>5, <1>6, <1>7, <1>9, <1>14

LEMMA LbDeleteBegins ==
  ASSUME ShapeAssumption, NEW l \in LBs, NEW R \in SUBSET (Under(l) \ Rules),
         NEW e, Plain(e, "delete", l, R),
         NEW g \in Come(e, e.on, First(e, e.on))
  PROVE  /\ g \in Flows /\ Shape(g) /\ g.op = "delete" /\ g.on = l /\ g.cert = None
         /\ g.done = {} /\ g.step = "queued"
         /\ g.cur = l => g.at = "no_vs"
         /\ g.cur \in Listeners => g.at = IF TlsOf[g.cur] = None THEN "row" ELSE "no_template"
         /\ g.cur \in Policies => g.at = "unbind"
<1>2. l \in Objects /\ R \subseteq Parts /\ R \cap Rules = {}
  BY UnderTree DEF Objects
<1>4. /\ e \in Flows /\ e.op = "delete" /\ e.on = l /\ e.cert = None /\ e.rest = R
      /\ e.cur = l /\ e.done = {} /\ e.step = "queued"
  BY DEF Plain
<1>5. Tasks(e, l) = LbDeleteFlow /\ First(e, l) = "below"
  <2>1. l \notin Listeners
    BY LbTree
  <2>2. Tasks(e, l) = LbDeleteFlow
    BY <1>4, LbTree DEF Tasks, OfLb
  <2>3. QED BY <2>1, <2>2 DEF First, LbDeleteFlow
<1>6. g \in Descend(e, l)
  BY <1>4, <1>5 DEF Come
<1>7. /\ Coming(e, l) \subseteq R
      /\ Coming(e, l) = {} => R = {}
  BY <1>4 DEF Coming
<1>8. l \in Below(l)
  BY <1>2 DEF Below, Chain
<1>9. CASE Coming(e, l) = {}
  <2>1. PICK n \in Labels : g = [e EXCEPT !.cur = l, !.at = n] /\ n = "no_vs"
    <3>1. g = [e EXCEPT !.cur = l, !.at = Tasks(e, l).below]
      BY <1>6, <1>9 DEF Descend
    <3>2. Tasks(e, l).below = "no_vs"
      BY <1>5 DEF LbDeleteFlow
    <3>3. QED BY <3>1, <3>2 DEF Labels
  <2>2. /\ g \in Flows /\ g.op = e.op /\ g.on = e.on /\ g.cert = e.cert /\ g.full = e.full /\ g.read = e.read
        /\ g.step = e.step /\ g.done = e.done /\ g.rest = e.rest /\ g.cur = l /\ g.at = "no_vs"
    BY <1>2, <1>4, <2>1 DEF Flows
  <2>3. Placed(g)
    BY <1>4, <2>2, LbTree DEF Placed, LbStages
  <2>4. Shape(g)
    BY <1>2, <1>4, <1>7, <1>8, <1>9, <2>2, <2>3, LbTree DEF Shape, Ending, Ops
  <2>5. QED BY <1>4, <2>2, <2>4, LbTree
<1>10. CASE Coming(e, l) # {}
  <2>1. PICK x \in Coming(e, l) : g = [e EXCEPT !.cur = x, !.rest = @ \ {x}, !.at = First(e, x)]
    BY <1>6, <1>10 DEF Descend
  <2>2. x \in R /\ x \in Parts /\ x \notin Rules /\ x \in Objects /\ x # l /\ x \in Under(l) /\ x \notin LBs
    BY <1>2, <1>7, <2>1, UnderTree, PartTree
  <2>3. First(e, x) = IF x \in Policies THEN "unbind" ELSE IF TlsOf[x] = None THEN "row" ELSE "no_template"
    <3>1. CASE x \in Listeners
      <4>1. Tasks(e, x) = ListenerCascade
        BY <1>4, <3>1, ListenerTree DEF Tasks, OfListener
      <4>2. QED BY <3>1, <4>1, ListenerTree DEF First, ListenerCascade
    <3>2. CASE x \in Policies
      <4>1. Tasks(e, x) = PolicyCascade
        BY <1>4, <3>2, PolicyTree DEF Tasks, OfPolicy
      <4>2. QED BY <3>2, <4>1, PolicyTree DEF First, PolicyCascade
    <3>3. QED BY <2>2, <3>1, <3>2 DEF Parts
  <2>4. PICK n \in Labels : n = First(e, x)
    BY <2>3 DEF Labels
  <2>5. g = [e EXCEPT !.cur = x, !.rest = @ \ {x}, !.at = n]
    BY <2>1, <2>4
  <2>6. /\ g \in Flows /\ g.op = e.op /\ g.on = e.on /\ g.cert = e.cert /\ g.full = e.full /\ g.read = e.read
        /\ g.step = e.step /\ g.done = e.done /\ g.rest = R \ {x} /\ g.cur = x /\ g.at = n
    BY <1>4, <2>2, <2>5 DEF Flows
  <2>7. (g.on \in LBs) = TRUE
    BY <1>4, <2>6
  <2>8. Placed(g)
    <3>1. g.cur \in Listeners => g.at \in ListenerStages(g.op, TRUE) /\ (TlsOf[g.cur] = None => g.at \notin TlsTasks)
      BY <1>4, <2>3, <2>4, <2>6, ListenerTree DEF ListenerStages, TlsTasks
    <3>2. g.cur \in Policies => g.at \in PolicyStages(g.op, TRUE)
      BY <1>4, <2>3, <2>4, <2>6 DEF PolicyStages
    <3>3. QED BY <2>2, <2>6, <2>7, <3>1, <3>2 DEF Placed
  <2>9. x \in Below(l) /\ R \subseteq Under(l)
    BY <2>2 DEF Under
  <2>10. Shape(g)
    <3>1. g.cur \in Below(g.on) /\ g.rest \subseteq Under(g.on) \ {g.cur} /\ g.on \in LBs /\ g.on \notin Listeners
      BY <1>4, <2>6, <2>9, LbTree
    <3>2. g.cur \notin Rules /\ g.rest \cap Rules = {} /\ g.cur # g.on
      BY <1>2, <1>4, <2>2, <2>6
    <3>3. n # "end"
      BY <2>3, <2>4
    <3>4. QED BY <1>2, <1>4, <2>6, <2>8, <3>1, <3>2, <3>3 DEF Shape, Ending, Ops
  <2>11. QED BY <1>4, <2>2, <2>3, <2>4, <2>6, <2>10, PolicyTree, ListenerTree
<1>11. QED BY <1>9, <1>10

(* The admission of a request, whose flow is then g.                       *)
Admission(s, g, new) ==
    /\ flow[s] = Idle /\ g \in Flows /\ Shape(g) /\ g.step = "queued" /\ g.done = {}
    /\ flow' = [flow EXCEPT ![s] = g]
    /\ status' = [x \in Objects |-> IF x \in Chain(g.on) \cup new THEN "PENDING" ELSE status[x]]
    /\ revived' = revived \cup {x \in Chain(g.on) \ {g.on} : status[x] = "ERROR"}
    /\ overlapped' =
         IF \E t \in On(Lb(g.on)) : \/ flow[t].step = "revert"
                                    \/ flow[t].on = Lb(g.on) /\ (~Ending(flow[t]) \/ flow[t].op = "create")
         THEN overlapped \cup {Lb(g.on)} ELSE overlapped
    /\ UNCHANGED <<scene, rack, tls, device, unbound, bare, left>>
ForPart(s, g) ==
    /\ Admission(s, g, {}) /\ g.on \in Parts /\ g.cur = g.on /\ g.rest = {} /\ Begins(g)
    /\ status[Lb(g.on)] = "ACTIVE"
    /\ g.op = "create" => status[g.on] = "NEW" /\ HasRow(Up(g.on))
    /\ g.op # "create" => HasRow(g.on)
    /\ g.cert = None \/ g.on \in Listeners
    /\ g.on \in Listeners /\ g.op # "update" => g.cert = tls[g.on]
ForLbCreate(s, g) ==
    /\ Admission(s, g, g.rest) /\ g.on \in LBs /\ g.cur = g.on /\ g.op = "create" /\ g.cert = None
    /\ status[g.on] = "NEW"
    /\ IF g.full THEN g.rest = Under(g.on) /\ g.at = "vs" ELSE g.rest = {} /\ g.at = "early_active"
ForLbUpdate(s, g) ==
    /\ Admission(s, g, {}) /\ g.on \in LBs /\ g.cur = g.on /\ g.op = "update" /\ g.cert = None
    /\ status[g.on] = "ACTIVE" /\ g.at = "read_ports"
ForLbDelete(s, g) ==
    /\ Admission(s, g, {}) /\ g.on \in LBs /\ g.op = "delete" /\ g.cert = None
    /\ status[g.on] \in {"ACTIVE", "ERROR"}
    /\ g.cur = g.on => g.at = "no_vs"
    /\ g.cur \in Listeners => g.at = IF TlsOf[g.cur] = None THEN "row" ELSE "no_template"
    /\ g.cur \in Policies => g.at = "unbind"

LEMMA PartAdmitted ==
  ASSUME ShapeAssumption, NEW s \in Slots, NEW op \in Ops, NEW o \in Parts, NEW cert \in Certs \cup {None},
         o \in Listeners => (cert = None <=> TlsOf[o] = None),
         cert = None \/ o \in Listeners, o \in Listeners /\ op # "update" => cert = tls[o],
         status[Lb(o)] = "ACTIVE", op = "create" => status[o] = "NEW" /\ HasRow(Up(o)), op # "create" => HasRow(o),
         Admit(s, Flow(op, o, cert), {})
  PROVE  \E g \in Flows : ForPart(s, g)
<1>1. PICK f : f = Flow(op, o, cert)
  OBVIOUS
<1>2. PICK g \in Come(f, f.on, First(f, f.on)) : flow' = [flow EXCEPT ![s] = g]
  BY <1>1 DEF Admit
<1>3. /\ g \in Flows /\ Shape(g) /\ g.op = op /\ g.on = o /\ g.cert = cert /\ g.rest = {} /\ g.cur = o
      /\ g.done = {} /\ g.step = "queued" /\ Begins(g) /\ g.full = FALSE
  <2>1. g \in Come(Flow(op, o, cert), Flow(op, o, cert).on, First(Flow(op, o, cert), Flow(op, o, cert).on))
    BY <1>1, <1>2
  <2>2. QED BY <2>1, PartBegins
<1>4. f.on = g.on
  BY <1>1, <1>3 DEF Flow, Idle
<1>5. Admission(s, g, {})
  <2>1. Admit(s, f, {})
    BY <1>1
  <2>2. /\ flow[s] = Idle
        /\ status' = [x \in Objects |-> IF x \in Chain(g.on) \cup {} THEN "PENDING" ELSE status[x]]
        /\ UNCHANGED <<scene, rack, tls, device, unbound, bare, left>>
    BY <1>4, <2>1 DEF Admit
  <2>3. /\ revived' = revived \cup {x \in Chain(g.on) \ {g.on} : status[x] = "ERROR"}
        /\ overlapped' =
             IF \E t \in On(Lb(g.on)) : \/ flow[t].step = "revert"
                                        \/ flow[t].on = Lb(g.on) /\ (~Ending(flow[t]) \/ flow[t].op = "create")
             THEN overlapped \cup {Lb(g.on)} ELSE overlapped
    BY <1>4, <2>1 DEF Admit
  <2>4. QED BY <1>2, <1>3, <2>2, <2>3 DEF Admission
<1>6. QED BY <1>3, <1>5 DEF ForPart

LEMMA LbAdmitted ==
  ASSUME ShapeAssumption, NEW s \in Slots, NEW l \in LBs, CreateLb(s, l) \/ UpdateLb(s, l) \/ DeleteLb(s, l)
  PROVE  \E g \in Flows : ForLbCreate(s, g) \/ ForLbUpdate(s, g) \/ ForLbDelete(s, g)
<1>1. CASE CreateLb(s, l)
  <2>1. PICK new \in {{}, Under(l)} : Admit(s, [Flow("create", l, None) EXCEPT !.full = (new # {}), !.rest = new], new)
    BY <1>1 DEF CreateLb, Under
  <2>2. PICK e : e = [Flow("create", l, None) EXCEPT !.full = (new # {}), !.rest = new]
    OBVIOUS
  <2>3. PICK g \in Come(e, e.on, First(e, e.on)) : flow' = [flow EXCEPT ![s] = g]
    BY <2>1, <2>2 DEF Admit
  <2>9. Plain(e, "create", l, new) /\ (e.full <=> new # {})
    <3>1. PICK f : f = Flow("create", l, None)
      OBVIOUS
    <3>2. f = [op |-> "create", on |-> l, cert |-> None, full |-> FALSE, read |-> {}, rest |-> {}, cur |-> l,
               at |-> "end", done |-> {}, step |-> "queued"]
      BY <3>1 DEF Flow, Idle
    <3>3. l \in Objects /\ new \subseteq Parts
      BY UnderTree DEF Objects
    <3>4. f \in Flows
      BY <3>2, <3>3 DEF Flows, Labels, Histories, Ops
    <3>5. PICK b \in BOOLEAN : b = (new # {})
      OBVIOUS
    <3>6. e = [f EXCEPT !.full = b, !.rest = new]
      BY <2>2, <3>1, <3>5
    <3>7. Plain(e, "create", l, new)
      <4>1. /\ f.op = "create" /\ f.on = l /\ f.cert = None /\ f.cur = l /\ f.read = {} /\ f.done = {} /\ f.at = "end"
            /\ f.step = "queued"
        BY <3>2
      <4>2. /\ e \in Flows /\ e.op = f.op /\ e.on = f.on /\ e.cert = f.cert /\ e.read = f.read /\ e.rest = new
            /\ e.cur = f.cur /\ e.done = f.done /\ e.step = f.step /\ e.at = f.at
        BY <3>3, <3>4, <3>6 DEF Flows
      <4>3. QED BY <4>1, <4>2 DEF Plain
    <3>8. e.full <=> new # {}
      BY <3>4, <3>5, <3>6 DEF Flows
    <3>9. QED BY <3>7, <3>8
  <2>11. new = {} \/ new = Under(l)
    BY <2>1
  <2>10. Admit(s, e, new)
    BY <2>1, <2>2
  <2>4. /\ g \in Flows /\ Shape(g) /\ g.op = "create" /\ g.on = l /\ g.cur = l
        /\ g.at = (IF g.full THEN "vs" ELSE "early_active")
        /\ g.done = {} /\ g.step = "queued" /\ g.rest = new /\ (g.full <=> new # {}) /\ g.cert = None
    BY <2>3, <2>9, <2>11, LbCreateBegins
  <2>5. e.on = g.on
    BY <2>4, <2>9 DEF Plain
  <2>6. Admission(s, g, g.rest)
    BY <2>10, <2>3, <2>4, <2>5 DEF Admit, Admission
  <2>7. QED BY <1>1, <2>4, <2>6 DEF ForLbCreate, CreateLb
<1>2. CASE UpdateLb(s, l)
  <2>1. PICK e : e = Flow("update", l, None)
    OBVIOUS
  <2>2. PICK g \in Come(e, e.on, First(e, e.on)) : flow' = [flow EXCEPT ![s] = g]
    BY <1>2, <2>1 DEF Admit, UpdateLb
  <2>3. /\ g \in Flows /\ Shape(g) /\ g.op = "update" /\ g.on = l /\ g.cur = l /\ g.at = "read_ports"
        /\ g.done = {} /\ g.step = "queued" /\ g.rest = {} /\ g.cert = None
    BY <2>1, <2>2, LbUpdateBegins
  <2>4. e.on = g.on
    BY <2>1, <2>3 DEF Flow, Idle
  <2>5. Admission(s, g, {})
    BY <1>2, <2>1, <2>2, <2>3, <2>4 DEF Admit, Admission, UpdateLb
  <2>6. status[l] = "ACTIVE"
    BY <1>2, LbTree DEF UpdateLb, MayChange
  <2>7. QED BY <2>3, <2>5, <2>6 DEF ForLbUpdate
<1>3. CASE DeleteLb(s, l)
  <2>1. PICK R \in SUBSET (Under(l) \ Rules) : Admit(s, [Flow("delete", l, None) EXCEPT !.rest = R], {})
    <3>1. PICK listeners : listeners = Rows(ListenersOf(l))
      OBVIOUS
    <3>2. PICK last \in IF listeners = {} THEN {None} ELSE listeners :
              Admit(s, [Flow("delete", l, None) EXCEPT
                           !.rest = listeners \cup Rows({p \in Policies : ListenerOf[p] = last})], {})
      BY <1>3, <3>1 DEF DeleteLb
    <3>3. PICK R : R = listeners \cup Rows({p \in Policies : ListenerOf[p] = last})
      OBVIOUS
    <3>4. listeners \subseteq Under(l) \ Rules
      BY <3>1, UnderTree, ListenerTree DEF Rows, ListenersOf
    <3>5. \A p \in Policies : ListenerOf[p] = last => p \in Under(l) \ Rules
      <4>1. SUFFICES ASSUME NEW p \in Policies, ListenerOf[p] = last PROVE p \in Under(l) \ Rules
        OBVIOUS
      <4>2. last \in listeners
        BY <3>2, <4>1, PolicyTree, ListenerTree DEF ShapeAssumption, Objects
      <4>3. LbOf[last] = l
        BY <3>1, <4>2 DEF Rows, ListenersOf
      <4>4. QED BY <4>1, <4>3, UnderTree, PolicyTree
    <3>6. R \in SUBSET (Under(l) \ Rules)
      BY <3>3, <3>4, <3>5 DEF Rows
    <3>7. QED BY <3>2, <3>3, <3>6
  <2>2. PICK e : e = [Flow("delete", l, None) EXCEPT !.rest = R]
    OBVIOUS
  <2>3. PICK g \in Come(e, e.on, First(e, e.on)) : flow' = [flow EXCEPT ![s] = g]
    BY <2>1, <2>2 DEF Admit
  <2>8. Plain(e, "delete", l, R)
    <3>1. PICK f : f = Flow("delete", l, None)
      OBVIOUS
    <3>2. f = [op |-> "delete", on |-> l, cert |-> None, full |-> FALSE, read |-> {}, rest |-> {}, cur |-> l,
               at |-> "end", done |-> {}, step |-> "queued"]
      BY <3>1 DEF Flow, Idle
    <3>3. l \in Objects /\ R \subseteq Parts
      BY UnderTree DEF Objects
    <3>4. f \in Flows
      BY <3>2, <3>3 DEF Flows, Labels, Histories, Ops
    <3>5. QED BY <2>2, <3>1, <3>2, <3>3, <3>4 DEF Plain, Flows
  <2>9. Admit(s, e, {})
    BY <2>1, <2>2
  <2>4. /\ g \in Flows /\ Shape(g) /\ g.op = "delete" /\ g.on = l /\ g.cert = None
        /\ g.done = {} /\ g.step = "queued"
        /\ g.cur = l => g.at = "no_vs"
        /\ g.cur \in Listeners => g.at = IF TlsOf[g.cur] = None THEN "row" ELSE "no_template"
        /\ g.cur \in Policies => g.at = "unbind"
    BY <2>3, <2>8, LbDeleteBegins
  <2>5. e.on = g.on
    BY <2>4, <2>8 DEF Plain
  <2>6. Admission(s, g, {})
    BY <2>9, <2>3, <2>4, <2>5 DEF Admit, Admission
  <2>7. QED BY <1>3, <2>4, <2>6 DEF ForLbDelete, DeleteLb
<1>4. QED BY <1>1, <1>2, <1>3

-----------------------------------------------------------------------------
(* Every step keeps the types.                                             *)
Request(s) ==
    \/ \E x \in Listeners : CreateListener(s, x) \/ UpdateListener(s, x) \/ DeleteListener(s, x)
    \/ \E p \in Policies : CreatePolicy(s, p) \/ UpdatePolicy(s, p) \/ DeletePolicy(s, p)
    \/ \E r \in Rules : CreateRule(s, r) \/ UpdateRule(s, r) \/ DeleteRule(s, r)
    \/ \E l \in LBs : CreateLb(s, l) \/ UpdateLb(s, l) \/ DeleteLb(s, l)
Admits(s, g) == ForPart(s, g) \/ ForLbCreate(s, g) \/ ForLbUpdate(s, g) \/ ForLbDelete(s, g)

LEMMA Requests ==
  ASSUME ShapeAssumption, Inv, NEW s \in Slots, Request(s)
  PROVE  \E g \in Flows : Admits(s, g)
<1>1. ASSUME NEW x \in Listeners, CreateListener(s, x) \/ UpdateListener(s, x) \/ DeleteListener(s, x)
      PROVE  \E g \in Flows : ForPart(s, g)
  <2>1. x \in Parts /\ x \in Listeners
    BY <1>1, ListenerTree
  <2>2. tls[x] \in Certs \cup {None} /\ (tls[x] = None <=> TlsOf[x] = None)
    BY <1>1 DEF Inv, TypeOK, TlsInv
  <2>3. CASE CreateListener(s, x)
    BY <2>1, <2>2, <2>3, PartAdmitted DEF CreateListener, MayCreate, Ops
  <2>4. CASE DeleteListener(s, x)
    BY <2>1, <2>2, <2>4, PartAdmitted DEF DeleteListener, MayChange, Ops
  <2>5. CASE UpdateListener(s, x)
    <3>1. PICK cert \in Certs \cup {None} : Admit(s, Flow("update", x, cert), {}) /\ (cert = None <=> TlsOf[x] = None)
      BY <1>1, <2>5 DEF UpdateListener, ShapeAssumption
    <3>2. QED BY <2>1, <2>5, <3>1, PartAdmitted DEF UpdateListener, MayChange, Ops
  <2>6. QED BY <1>1, <2>3, <2>4, <2>5
<1>2. ASSUME NEW p \in Policies, CreatePolicy(s, p) \/ UpdatePolicy(s, p) \/ DeletePolicy(s, p)
      PROVE  \E g \in Flows : ForPart(s, g)
  <2>1. p \in Parts /\ p \notin Listeners /\ None \in Certs \cup {None}
    BY <1>2, PolicyTree
  <2>2. CASE CreatePolicy(s, p)
    BY <2>1, <2>2, PartAdmitted DEF CreatePolicy, MayCreate, Ops
  <2>3. CASE UpdatePolicy(s, p)
    BY <2>1, <2>3, PartAdmitted DEF UpdatePolicy, MayChange, Ops
  <2>4. CASE DeletePolicy(s, p)
    BY <2>1, <2>4, PartAdmitted DEF DeletePolicy, MayChange, Ops
  <2>5. QED BY <1>2, <2>2, <2>3, <2>4
<1>3. ASSUME NEW r \in Rules, CreateRule(s, r) \/ UpdateRule(s, r) \/ DeleteRule(s, r)
      PROVE  \E g \in Flows : ForPart(s, g)
  <2>1. r \in Parts /\ r \notin Listeners /\ None \in Certs \cup {None}
    BY <1>3, RuleTree
  <2>2. CASE CreateRule(s, r)
    BY <2>1, <2>2, PartAdmitted DEF CreateRule, MayCreate, Ops
  <2>3. CASE UpdateRule(s, r)
    BY <2>1, <2>3, PartAdmitted DEF UpdateRule, MayChange, Ops
  <2>4. CASE DeleteRule(s, r)
    BY <2>1, <2>4, PartAdmitted DEF DeleteRule, MayChange, Ops
  <2>5. QED BY <1>3, <2>2, <2>3, <2>4
<1>4. QED BY <1>1, <1>2, <1>3, LbAdmitted DEF Request, Admits

LEMMA InvPrime ==
  ASSUME Typed', FlowInv'
  PROVE  Inv'
<1>1. \A s \in Slots : flow'[s].on \in Objects \cup {None}
  <2>1. SUFFICES ASSUME NEW s \in Slots PROVE flow'[s].on \in Objects \cup {None}
    OBVIOUS
  <2>2. flow'[s] \in Flows
    BY DEF FlowInv, Flows, Histories, Labels, Parts, Objects, Ops
  <2>3. QED BY <2>2 DEF Flows
<1>2. QED BY <1>1 DEF Inv, Typed, TypeOK, Objects, Statuses

LEMMA AdmissionInv ==
  ASSUME ShapeAssumption, Inv, NEW s \in Slots, NEW g \in Flows, NEW new, Admission(s, g, new)
  PROVE  Inv' /\ flow'[s] = g /\ Only(s)
<1>1. Typed /\ FlowInv
  BY InvIs
<1>2. FlowInv' /\ flow'[s] = g /\ \A t \in Slots \ {s} : flow'[t] = flow[t]
  BY <1>1, FlowFrame DEF Admission
<1>3. status' \in [Objects -> Statuses]
  BY <1>1 DEF Admission, Typed, Statuses
<1>4. Typed'
  BY <1>1, <1>3 DEF Admission, Typed, device, files, port, TlsInv
<1>5. QED BY <1>2, <1>4, InvPrime DEF Only

(* The flow at work but for its step and its history.                      *)
Alike(f, g) ==
    /\ g \in Flows /\ Shape(g)
    /\ g.op = f.op /\ g.on = f.on /\ g.cert = f.cert /\ g.full = f.full /\ g.read = f.read
    /\ g.rest = f.rest /\ g.cur = f.cur /\ g.at = f.at

LEMMA AlikeIs ==
  ASSUME ShapeAssumption, NEW f \in Flows, Shape(f), NEW g \in Flows,
         g.op = f.op /\ g.on = f.on /\ g.cert = f.cert /\ g.full = f.full /\ g.read = f.read
           /\ g.rest = f.rest /\ g.cur = f.cur /\ g.at = f.at,
         g.step = "revert" \/ (g.step = "run" /\ f.step = "queued" /\ g.done = f.done),
         \A t \in g.done : t \in f.done \/ t.on = f.cur
  PROVE  Alike(f, g)
<1>2. Placed(g)
  BY DEF Placed, Shape
<1>3. Nested(f) => Nested(g)
  BY DEF Nested
<1>4. ~Ending(g) /\ g.step # "queued" /\ g.step # "idle"
  BY DEF Ending, Shape
<1>5. \A t \in g.done : f.on \notin LBs => t.on = f.on
  BY DEF Shape
<1>6. \A t \in g.done : f.on \in LBs => t.on \in Below(f.on)
  BY DEF Shape
<1>7. Shape(g)
  BY <1>2, <1>3, <1>4, <1>5, <1>6 DEF Shape
<1>8. QED BY <1>7 DEF Alike

LEMMA BeginStep ==
  ASSUME ShapeAssumption, Inv, NEW s \in Slots, Begin(s)
  PROVE  /\ Inv' /\ Only(s) /\ flow[s] \in Flows /\ Shape(flow[s]) /\ Alike(flow[s], flow'[s])
         /\ flow[s].step = "queued" /\ flow'[s].step = "run" /\ flow'[s].done = flow[s].done
<1>1. Typed /\ FlowInv /\ flow[s] \in Flows
  BY InvIs DEF FlowInv
<1>2. PICK f \in Flows : f = flow[s]
  BY <1>1
<1>3. f.step = "queued" /\ f # Idle
  BY <1>2 DEF Begin, Idle
<1>4. Shape(f)
  BY <1>1, <1>2, <1>3 DEF FlowInv
<1>5. PICK g : g = [f EXCEPT !.step = "run", !.done = f.done]
  OBVIOUS
<1>6. Alike(f, g) /\ g.step = "run" /\ g.done = f.done
  <2>1. /\ g \in Flows /\ g.op = f.op /\ g.on = f.on /\ g.cert = f.cert /\ g.full = f.full /\ g.read = f.read
        /\ g.rest = f.rest /\ g.cur = f.cur /\ g.at = f.at /\ g.step = "run" /\ g.done = f.done
    BY <1>5 DEF Flows
  <2>2. QED BY <1>3, <1>4, <2>1, AlikeIs
<1>7. flow' = [flow EXCEPT ![s] = g]
  <2>1. flow' = [flow EXCEPT ![s] = [f EXCEPT !.step = "run"]]
    BY <1>2 DEF Begin
  <2>2. [f EXCEPT !.step = "run"] = g
    BY <1>5 DEF Flows
  <2>3. QED BY <2>1, <2>2
<1>8. FlowInv' /\ flow'[s] = g /\ \A t \in Slots \ {s} : flow'[t] = flow[t]
  BY <1>1, <1>6, <1>7, FlowFrame DEF Alike
<1>9. Typed'
  BY <1>1 DEF Begin, Typed, device, files, port, TlsInv
<1>10. QED BY <1>1, <1>2, <1>3, <1>4, <1>6, <1>8, <1>9, InvPrime DEF Only

LEMMA FinishStep ==
  ASSUME ShapeAssumption, Inv, NEW s \in Slots, Finish(s)
  PROVE  /\ Inv' /\ Only(s) /\ flow[s] \in Flows /\ Shape(flow[s]) /\ flow'[s] = Idle /\ Ending(flow[s])
<1>1. Typed /\ FlowInv /\ flow[s] \in Flows
  BY InvIs DEF FlowInv
<1>2. Ending(flow[s]) /\ Shape(flow[s])
  <2>1. Ending(flow[s])
    BY DEF Finish
  <2>2. flow[s] # Idle
    BY <2>1 DEF Ending, Idle
  <2>3. QED BY <1>1, <2>1, <2>2 DEF FlowInv
<1>3. FlowInv' /\ flow'[s] = Idle /\ \A t \in Slots \ {s} : flow'[t] = flow[t]
  BY <1>1, FlowFrame DEF Finish
<1>4. Typed'
  BY <1>1 DEF Finish, Typed, device, files, port, TlsInv
<1>5. QED BY <1>1, <1>2, <1>3, <1>4, InvPrime DEF Only

LEMMA FailStep ==
  ASSUME ShapeAssumption, Inv, NEW s \in Slots, Fail(s)
  PROVE  /\ Inv' /\ Only(s) /\ flow[s] \in Flows /\ Shape(flow[s]) /\ Alike(flow[s], flow'[s])
         /\ flow[s].step \in {"queued", "run"} /\ flow'[s].step = "revert"
<1>1. Typed /\ FlowInv /\ flow[s] \in Flows
  BY InvIs DEF FlowInv
<1>2. PICK f \in Flows : f = flow[s]
  BY <1>1
<1>3. f.step \in {"queued", "run"} /\ f # Idle
  BY <1>2 DEF Fail, Idle
<1>4. Shape(f)
  BY <1>1, <1>2, <1>3 DEF FlowInv
<1>5. PICK D : D = IF f.step = "run" THEN Done(f) ELSE f.done
  OBVIOUS
<1>6. PICK g : g = [f EXCEPT !.step = "revert", !.done = D]
  OBVIOUS
<1>7. Alike(f, g) /\ g.step = "revert"
  <2>1. f.done \in Histories /\ f.cur \in Objects
    BY <1>4, ShapeIs DEF Flows
  <2>2. D \in Histories /\ \A t \in D : t \in f.done \/ t.on = f.cur
    BY <1>5, <2>1, DoneIs
  <2>3. /\ g \in Flows /\ g.op = f.op /\ g.on = f.on /\ g.cert = f.cert /\ g.full = f.full /\ g.read = f.read
        /\ g.rest = f.rest /\ g.cur = f.cur /\ g.at = f.at /\ g.step = "revert" /\ g.done = D
    BY <1>6, <2>2 DEF Flows
  <2>4. QED BY <1>4, <2>2, <2>3, AlikeIs
<1>8. flow' = [flow EXCEPT ![s] = g]
  <2>1. flow' = [flow EXCEPT ![s].step = "revert", ![s].done = IF f.step = "run" THEN Done(f) ELSE @]
    BY <1>2 DEF Fail
  <2>2. flow' = [flow EXCEPT ![s] = [f EXCEPT !.step = "revert", !.done = IF f.step = "run" THEN Done(f) ELSE @]]
    BY <1>1, <1>2, <2>1 DEF FlowInv
  <2>3. [f EXCEPT !.step = "revert", !.done = IF f.step = "run" THEN Done(f) ELSE @] = g
    BY <1>5, <1>6 DEF Flows
  <2>4. QED BY <2>2, <2>3
<1>9. FlowInv' /\ flow'[s] = g /\ \A t \in Slots \ {s} : flow'[t] = flow[t]
  BY <1>1, <1>7, <1>8, FlowFrame DEF Alike
<1>10. status' \in [Objects -> Statuses]
  BY <1>1 DEF Fail, Typed, Statuses
<1>11. Typed'
  BY <1>1, <1>10 DEF Fail, Typed, device, files, port, TlsInv
<1>12. QED BY <1>1, <1>2, <1>3, <1>4, <1>7, <1>9, <1>11, InvPrime DEF Only

(* What the reverts of a flow take off the device: ports, templates,       *)
(* scripts and virtual servers.                                            *)
Undone(P, T, S, L) ==
    /\ vports' = {x \in vports \ P : LbOf[x] \notin L}
    /\ template' = [x \in Listeners |-> IF x \in T THEN None ELSE template[x]]
    /\ sslOn' = {x \in (sslOn \ T) : x \in vports'}
    /\ scripts' = scripts \ S
    /\ inScript' = {r \in inScript : PolicyOf[r] \in scripts'}
    /\ bound' = {p \in bound : p \in scripts' /\ ListenerOf[p] \in vports'}
    /\ vs' = vs \ L
MadeBy(f, do) == IF f.op = "create" THEN {t.on : t \in {d \in f.done : d.do = do}} ELSE {}

LEMMA RevertIs ==
  ASSUME NEW s \in Slots, Revert(s)
  PROVE  \E P \in SUBSET MadeBy(flow[s], "vport"), T \in SUBSET MadeBy(flow[s], "template"),
            S \in SUBSET (MadeBy(flow[s], "script") \cap Policies), L \in SUBSET MadeBy(flow[s], "vs") : Undone(P, T, S, L)
<1>1. PICK f : f = flow[s]
  OBVIOUS
<1>2. PICK V, E, C, L : /\ V = MadeBy(f, "vport") /\ E = MadeBy(f, "template")
                        /\ C = MadeBy(f, "script") \cap Policies /\ L = MadeBy(f, "vs")
  OBVIOUS
<1>6. PICK spared :
         /\ vs' = vs \ (MadeBy(flow[s], "vs") \ spared)
         /\ vports' = {x \in vports \ (MadeBy(flow[s], "vport") \ spared) : LbOf[x] \notin MadeBy(flow[s], "vs") \ spared}
         /\ template' = [x \in Listeners |-> IF x \in MadeBy(flow[s], "template") \ spared THEN None ELSE template[x]]
         /\ sslOn' = {x \in (sslOn \ (MadeBy(flow[s], "template") \ spared)) : x \in vports'}
         /\ scripts' = scripts \ ((MadeBy(flow[s], "script") \cap Policies) \ spared)
         /\ inScript' = {r \in inScript : PolicyOf[r] \in scripts'}
         /\ bound' = {p \in bound : p \in scripts' /\ ListenerOf[p] \in vports'}
  BY DEF Revert, MadeBy
<1>5. Undone(V \ spared, E \ spared, C \ spared, L \ spared)
  BY <1>1, <1>2, <1>6 DEF Undone
<1>7. QED BY <1>1, <1>2, <1>5

LEMMA RevertStep ==
  ASSUME ShapeAssumption, Inv, NEW s \in Slots, Revert(s)
  PROVE  /\ Inv' /\ Only(s) /\ flow[s] \in Flows /\ Shape(flow[s]) /\ flow'[s] = Idle /\ flow[s].step = "revert"
<1>1. Typed /\ FlowInv /\ flow[s] \in Flows
  BY InvIs DEF FlowInv
<1>2. flow[s].step = "revert" /\ Shape(flow[s])
  <2>1. flow[s].step = "revert"
    BY DEF Revert
  <2>2. flow[s] # Idle
    BY <2>1 DEF Idle
  <2>3. QED BY <1>1, <2>1, <2>2 DEF FlowInv
<1>3. FlowInv' /\ flow'[s] = Idle /\ \A t \in Slots \ {s} : flow'[t] = flow[t]
  <2>1. flow' = [flow EXCEPT ![s] = Idle]
    BY DEF Revert
  <2>2. QED BY <1>1, <2>1, FlowFrame
<1>4. status' \in [Objects -> Statuses]
  <2>1. EndInError(s)
    BY DEF Revert
  <2>2. Activated(Chain(flow[s].on)) \in [Objects -> Statuses]
    BY <1>1, ActivatedIs DEF Typed
  <2>3. PICK A : A = Activated(Chain(flow[s].on))
    OBVIOUS
  <2>4. QED BY <2>1, <2>2, <2>3 DEF EndInError, Statuses
<1>5. /\ vports' \subseteq vports /\ (\A x \in Listeners : template'[x] \in {template[x], None})
      /\ template' \in [Listeners -> certs \cup {None}]
      /\ sslOn' \subseteq {x \in vports' : template'[x] # None}
      /\ scripts' \subseteq scripts /\ inScript' \subseteq {r \in inScript : PolicyOf[r] \in scripts'}
      /\ bound' \subseteq {p \in bound : p \in scripts' /\ ListenerOf[p] \in vports'}
      /\ vs' \subseteq vs /\ UNCHANGED <<scene, tls>>
  <2>1. PICK P, T, S, L : Undone(P, T, S, L)
    BY RevertIs
  <2>2. vs' \subseteq vs /\ UNCHANGED <<scene, tls>>
    BY DEF Revert
  <2>3. QED BY <1>1, <2>1, <2>2 DEF Typed, Undone
<1>6. certs' \subseteq certs /\ template' \in [Listeners -> certs' \cup {None}]
  <2>1. PICK G : certs' = certs \ G /\ \A c \in G : ~Uses(template', c)
    BY DEF Revert
  <2>2. QED BY <1>5, <2>1 DEF Uses
<1>7. \A x \in Listeners : TlsInv(x)'
  BY <1>1, <1>5 DEF Typed, TlsInv
<1>8. Typed'
  BY <1>1, <1>4, <1>5, <1>6, <1>7 DEF Typed
<1>9. QED BY <1>1, <1>2, <1>3, <1>8, InvPrime DEF Only

LEMMA ReadStep ==
  ASSUME ShapeAssumption, Inv, NEW s \in Slots, ReadPorts(s)
  PROVE  /\ FlowInv' /\ Only(s) /\ flow[s] \in Flows /\ Shape(flow[s]) /\ flow[s].at = "read_ports"
         /\ \E f \in Flows : /\ f = [flow[s] EXCEPT !.read = vports \cap ListenersOf(Target(s))] /\ Shape(f)
                             /\ Moves(f, flow'[s]) /\ Shape(flow'[s]) /\ flow'[s] \in Flows
<1>1. flow[s] \in Flows /\ Shape(flow[s]) /\ flow[s].at = "read_ports" /\ flow[s].step = "run" /\ FlowInv
  BY Stage, InvIs DEF ReadPorts
<1>2. PICK e \in Flows : e = flow[s]
  BY <1>1
<1>3. PICK f : f = [e EXCEPT !.read = vports \cap ListenersOf(Target(s))]
  OBVIOUS
<1>4. /\ f \in Flows /\ f.op = e.op /\ f.on = e.on /\ f.cert = e.cert /\ f.full = e.full
      /\ f.rest = e.rest /\ f.cur = e.cur /\ f.at = e.at /\ f.done = e.done /\ f.step = e.step
  <2>1. ListenersOf(Target(s)) \subseteq Listeners
    BY DEF ListenersOf
  <2>2. PICK R \in SUBSET Listeners : R = vports \cap ListenersOf(Target(s))
    BY <2>1
  <2>3. QED BY <1>3, <2>2 DEF Flows
<1>5. Shape(f)
  <2>1. Placed(f)
    BY <1>1, <1>2, <1>4 DEF Placed, Shape
  <2>2. Nested(e) => Nested(f)
    BY <1>4 DEF Nested
  <2>3. Ending(f) <=> Ending(e)
    BY <1>4 DEF Ending
  <2>4. QED BY <1>1, <1>2, <1>4, <2>1, <2>2, <2>3 DEF Shape
<1>6. Proceed(s, f)
  BY <1>2, <1>3 DEF ReadPorts
<1>7. FlowInv' /\ flow'[s] \in Flows /\ Moves(f, flow'[s]) /\ Shape(flow'[s]) /\ Only(s)
  <2>1. f.at # "end" /\ f.step = "run"
    BY <1>1, <1>2, <1>4
  <2>2. QED BY <1>1, <1>4, <1>5, <1>6, <2>1, ProceedStep
<1>8. QED BY <1>1, <1>2, <1>3, <1>4, <1>5, <1>7

(* A task: what it does, and which flow it is of.                          *)
Tasked(s) ==
    \/ PutCert(s) \/ PutTemplate(s) \/ UpdateTemplate(s) \/ DeleteTemplate(s) \/ DeleteCert(s)
    \/ CreatePort(s) \/ ReplacePort(s) \/ DeletePort(s)
    \/ PutScript(s) \/ PutScriptWithout(s) \/ Bind(s) \/ Unbind(s) \/ DeleteScript(s)
    \/ CreateVs(s) \/ DeleteVs(s) \/ WritePorts(s)
    \/ MarkOne(s) \/ MarkEarly(s) \/ MarkActive(s)
    \/ UpdateTls(s) \/ DeleteRow(s) \/ DeleteLbRow(s)
LEMMA TaskStep ==
  ASSUME ShapeAssumption, Inv, NEW s \in Slots, Tasked(s)
  PROVE  /\ Inv' /\ Only(s) /\ flow[s] \in Flows /\ Shape(flow[s]) /\ flow[s].step = "run" /\ flow[s].at # "end"
         /\ flow'[s] \in Flows /\ Moves(flow[s], flow'[s]) /\ Shape(flow'[s])
<1>1. \E do \in Labels \ {"end"} : At(s, do) /\ Advance(s)
  <2>1. CASE PutCert(s) \/ PutTemplate(s) \/ UpdateTemplate(s) \/ DeleteTemplate(s) \/ DeleteCert(s)
    BY <2>1 DEF PutCert, PutTemplate, UpdateTemplate, DeleteTemplate, DeleteCert, Labels
  <2>2. CASE CreatePort(s) \/ ReplacePort(s) \/ DeletePort(s) \/ Bind(s) \/ Unbind(s) \/ DeleteScript(s)
    BY <2>2 DEF CreatePort, ReplacePort, DeletePort, Bind, Unbind, DeleteScript, Labels
  <2>3. CASE PutScript(s) \/ PutScriptWithout(s)
    BY <2>3 DEF PutScript, PutScriptWithout, Import, Labels
  <2>4. CASE CreateVs(s) \/ DeleteVs(s) \/ WritePorts(s) \/ MarkOne(s) \/ MarkEarly(s) \/ MarkActive(s)
    BY <2>4 DEF CreateVs, DeleteVs, WritePorts, MarkOne, MarkEarly, MarkActive, Labels
  <2>5. CASE UpdateTls(s) \/ DeleteRow(s) \/ DeleteLbRow(s)
    BY <2>5 DEF UpdateTls, DeleteRow, DeleteLbRow, Labels
  <2>6. QED BY <2>1, <2>2, <2>3, <2>4, <2>5 DEF Tasked
<1>2. PICK do \in Labels \ {"end"} : At(s, do) /\ Advance(s)
  BY <1>1
<1>3. Typed /\ FlowInv
  BY InvIs
<1>4. FlowInv' /\ flow'[s] \in Flows /\ Moves(flow[s], flow'[s]) /\ Shape(flow'[s]) /\ Only(s)
  BY <1>2, <1>3, AdvanceStep
<1>5. flow[s] \in Flows /\ Shape(flow[s]) /\ flow[s].step = "run" /\ flow[s].at # "end"
  BY <1>2, <1>3, Stage
<1>6. Typed'
  BY PutCertTyped, PutTemplateTyped, UpdateTemplateTyped, DeleteTemplateTyped, DeleteCertTyped, PortTyped, ScriptTyped,
     VsTyped, MarkTyped DEF Tasked
<1>7. QED BY <1>4, <1>5, <1>6, InvPrime

LEMMA InvInit ==
  ASSUME ShapeAssumption, Init
  PROVE  Inv
<1>1. FlowInv
  BY DEF Init, FlowInv, Idle, Flows, Labels, Histories
<1>2. scene \in Scenes /\ scene.exist \subseteq Objects
  BY DEF Init, ShapeAssumption
<1>3. status \in [Objects -> Statuses] /\ tls \in [Listeners -> Certs \cup {None}]
  BY DEF Init, Statuses, ShapeAssumption
<1>4. /\ \A p \in scene.exist \cap Policies : ListenerOf[p] \in scene.exist \cap Listeners
      /\ \A r \in scene.exist \cap Rules : PolicyOf[r] \in scene.exist \cap Policies
  BY <1>2 DEF ShapeAssumption
<1>5. template \in [Listeners -> certs \cup {None}] /\ certs \subseteq Certs
  BY DEF Init, ShapeAssumption
<1>6. sslOn \subseteq {x \in vports : template[x] # None}
  BY DEF Init
<1>7. \A x \in Listeners : TlsInv(x)
  BY DEF Init, TlsInv
<1>8. Typed
  BY <1>2, <1>3, <1>4, <1>5, <1>6, <1>7 DEF Init, Typed
<1>9. QED BY <1>1, <1>8, InvIs

LEMMA NextIs == Next <=> \E s \in Slots : Request(s) \/ Begin(s) \/ Tasked(s) \/ ReadPorts(s) \/ Finish(s) \/ Fail(s)
                                          \/ Revert(s)
  BY DEF Next, Request, Tasked, Run

LEMMA InvNext ==
  ASSUME ShapeAssumption, Inv, [Next]_vars
  PROVE  Inv'
<1>1. CASE UNCHANGED vars
  <2>1. Typed /\ FlowInv
    BY InvIs
  <2>2. Typed'
    BY <1>1, <2>1 DEF vars, Typed, device, files, port, TlsInv
  <2>3. FlowInv'
    <3>1. PICK h : h = flow
      OBVIOUS
    <3>2. flow' = flow
      BY <1>1 DEF vars
    <3>3. \A t \in Slots : flow'[t] = Idle \/ Shape(flow'[t])
      BY <2>1, <3>2 DEF FlowInv
    <3>4. flow' \in [Slots -> Flows]
      BY <2>1, <3>2 DEF FlowInv
    <3>5. QED BY <3>3, <3>4, FlowTyped
  <2>4. QED BY <2>2, <2>3, InvPrime
<1>2. CASE Next
  <2>1. PICK s \in Slots : Request(s) \/ Begin(s) \/ Tasked(s) \/ ReadPorts(s) \/ Finish(s) \/ Fail(s) \/ Revert(s)
    BY <1>2, NextIs
  <2>2. CASE Request(s)
    BY <2>2, Requests, AdmissionInv DEF Admits, ForPart, ForLbCreate, ForLbUpdate, ForLbDelete
  <2>3. CASE ReadPorts(s)
    BY <2>3, ReadStep, VsTyped, InvPrime
  <2>4. QED BY <2>1, <2>2, <2>3, BeginStep, TaskStep, FinishStep, FailStep, RevertStep
<1>3. QED BY <1>1, <1>2

(* Every variable keeps its type, and what is bound on the device is       *)
(* there: a template's certificate, a bound port's template, a bound       *)
(* policy's port and script, a script's rules.                             *)
THEOREM TypeCorrect == Spec => []TypeOK
<1>1. Init => Inv
  BY ShapeAssumption, InvInit
<1>2. Inv /\ [Next]_vars => Inv'
  BY ShapeAssumption, InvNext
<1>3. Inv => TypeOK
  BY DEF Inv
<1>4. QED BY <1>1, <1>2, <1>3, PTL DEF Spec

-----------------------------------------------------------------------------
(* What a step leaves alone.                                               *)
SameListener(x) ==
    /\ tls'[x] = tls[x] /\ template'[x] = template[x]
    /\ x \in vports' <=> x \in vports
    /\ x \in sslOn' <=> x \in sslOn
    /\ x \in bare' <=> x \in bare
SamePolicy(p) ==
    /\ p \in bound' <=> p \in bound
    /\ p \in unbound' <=> p \in unbound
    /\ p \in scripts' <=> p \in scripts
    /\ \A r \in RulesOf(p) : r \in inScript' <=> r \in inScript
SameStatus(o) == status'[o] = status[o] /\ (o \in revived' <=> o \in revived)
Untouched(l) ==
    /\ \A o \in Below(l) : SameStatus(o)
    /\ l \in vs' <=> l \in vs
    /\ \A x \in ListenersOf(l) : SameListener(x)
    /\ \A p \in Policies : LbOf[ListenerOf[p]] = l => SamePolicy(p)

LEMMA BelowLb ==
  ASSUME ShapeAssumption, NEW l \in LBs
  PROVE  /\ l \in Below(l)
         /\ \A x \in ListenersOf(l) : x \in Below(l) /\ x \in Under(l) /\ x \in Listeners /\ LbOf[x] = l /\ Lb(x) = l
         /\ \A p \in Policies : LbOf[ListenerOf[p]] = l => p \in Below(l) /\ ListenerOf[p] \in ListenersOf(l)
                                /\ ListenerOf[p] \in Below(l) /\ Lb(p) = l /\ p \in Under(l)
         /\ \A p \in Policies, r \in Rules : LbOf[ListenerOf[p]] = l /\ PolicyOf[r] = p => r \in Below(l) /\ r \in Under(l) /\ Lb(r) = l
         /\ \A o \in Under(l) : o \in Below(l) /\ o \in Objects /\ Lb(o) = l /\ o # l
<1>1. \A x \in ListenersOf(l) : x \in Below(l) /\ x \in Under(l) /\ x \in Listeners /\ LbOf[x] = l /\ Lb(x) = l
  BY UnderTree, ListenerTree DEF ListenersOf
<1>2. \A p \in Policies : LbOf[ListenerOf[p]] = l => p \in Below(l) /\ ListenerOf[p] \in ListenersOf(l)
                             /\ ListenerOf[p] \in Below(l) /\ Lb(p) = l /\ p \in Under(l)
  BY <1>1, UnderTree, PolicyTree DEF ListenersOf
<1>3. \A p \in Policies, r \in Rules : LbOf[ListenerOf[p]] = l /\ PolicyOf[r] = p => r \in Below(l) /\ r \in Under(l) /\ Lb(r) = l
  BY UnderTree, RuleTree
<1>4. \A o \in Under(l) : o \in Below(l) /\ o \in Objects /\ Lb(o) = l /\ o # l
  BY UnderTree, PartTree
<1>5. l \in Below(l)
  BY UnderTree
<1>6. QED BY <1>1, <1>2, <1>3, <1>4, <1>5

LEMMA LiveFrame ==
  ASSUME NEW l, status'[l] = status[l], NEW f, NEW g, g.op = f.op, g.on = f.on
  PROVE  Live(g, l)' <=> Live(f, l)
  BY DEF Live, HasRow, Deletes

LEMMA ListenerFrame ==
  ASSUME NEW x, SameListener(x), SameStatus(x), NEW f, NEW g, g.on = f.on,
         Live(g, LbOf[x])' => Live(f, LbOf[x]), status'[LbOf[x]] = status[LbOf[x]], Live(f, LbOf[x]) => Live(g, LbOf[x])',
         ListenerOK(f, x), CleanListener(f, x)
  PROVE  ListenerOK(g, x)' /\ CleanListener(g, x)'
<1>1. Served(x)' <=> Served(x)
  BY DEF Served, SameListener
<1>2. ListenerOK(g, x)'
  BY <1>1 DEF ListenerOK, SameStatus, Under, Below, Chain, PolicyAt, ListenerAt, Lb, Objects
<1>3. CleanListener(g, x)'
  BY DEF CleanListener, SameListener, SameStatus, Falling
<1>4. QED BY <1>2, <1>3

LEMMA PolicyFrame ==
  ASSUME NEW p \in Policies, SamePolicy(p), SameStatus(p), \A r \in RulesOf(p) : status'[r] = status[r],
         NEW f, NEW g, g.on = f.on, status'[ListenerOf[p]] = status[ListenerOf[p]],
         Live(g, LbOf[ListenerOf[p]])' => Live(f, LbOf[ListenerOf[p]]),
         ListenerOf[p] \in vports' => ListenerOf[p] \in vports,
         PolicyOK(f, p), CleanPolicy(p)
  PROVE  PolicyOK(g, p)' /\ CleanPolicy(p)'
<1>1. Listed(p)' <=> Listed(p)
  BY DEF Listed, SamePolicy, RulesOf
<1>2. PolicyOK(g, p)'
  BY <1>1 DEF PolicyOK, SameStatus, SamePolicy, RulesOf
<1>3. CleanPolicy(p)'
  BY DEF CleanPolicy, SamePolicy, SameStatus, RulesOf
<1>4. QED BY <1>2, <1>3

LEMMA FlowOKFrame ==
  ASSUME ShapeAssumption, NEW l \in LBs, NEW f \in Flows, Shape(f), Lb(f.on) = l, Untouched(l), FlowOK(f)
  PROVE  FlowOK(f)'
<1>1. f.on \in Objects /\ \A y \in Chain(f.on) : y \in Below(l)
  BY ShapeIs, ChainTree DEF Below
<1>2. \A y \in Below(l) : status'[y] = status[y]
  BY DEF Untouched, SameStatus
<1>3. \A x \in ListenersOf(l) : SameListener(x)
  BY DEF Untouched
<1>4. \A p \in Policies : LbOf[ListenerOf[p]] = l => SamePolicy(p)
  BY DEF Untouched
<1>5. f.on \notin LBs => PartGood(f)'
  <2>1. f.on \notin LBs => PartGood(f)
    BY DEF FlowOK
  <2>2. f.on \in Chain(f.on)
    BY <1>1, ChainTree
  <2>3. QED BY <1>1, <1>2, <2>1, <2>2 DEF PartGood, OwnStatus, Chain, PolicyAt, ListenerAt, Lb
<1>6. f.on \in Listeners => ListenerGood(f, f.on)'
  <2>1. SUFFICES ASSUME f.on \in Listeners PROVE ListenerGood(f, f.on)'
    OBVIOUS
  <2>2. PICK x \in Listeners : x = f.on
    BY <2>1
  <2>3. ListenerGood(f, x) /\ LbOf[x] = l
    BY <2>2, ListenerTree DEF FlowOK
  <2>4. SameListener(x) /\ \A y \in Under(x) : status'[y] = status[y]
    <3>1. \A y \in Under(x) : y \in Below(l)
      BY <2>2, <2>3, ListenerTree, BelowTree, ChainTree DEF Under, Below
    <3>2. QED BY <1>2, <1>3, <2>3, <3>1 DEF ListenersOf
  <2>5. \A y \in Under(x) : status'[y] = "NEW" <=> status[y] = "NEW"
    BY <2>4
  <2>6. ListenerGood(f, x)'
    <3>1. (f.op = "create" => f.cert = tls[x] /\ \A y \in Under(x) : status[y] = "NEW")'
      BY <2>3, <2>4 DEF ListenerGood, SameListener, Under, Below, Chain, PolicyAt, ListenerAt, Lb, Objects
    <3>2. QED BY <2>3, <2>4, <3>1 DEF ListenerGood, SameListener
  <2>7. QED BY <2>2, <2>6
<1>7. f.on \in Policies => PolicyGood(f, f.on)'
  <2>1. SUFFICES ASSUME f.on \in Policies PROVE PolicyGood(f, f.on)'
    OBVIOUS
  <2>2. PICK p \in Policies : p = f.on
    BY <2>1
  <2>3. PolicyGood(f, p) /\ LbOf[ListenerOf[p]] = l
    BY <2>2, PolicyTree DEF FlowOK
  <2>4. SamePolicy(p) /\ \A r \in RulesOf(p) : status'[r] = status[r]
    BY <1>2, <1>4, <2>3, BelowLb DEF RulesOf
  <2>5. Listed(p)' <=> Listed(p)
    BY <2>4 DEF Listed, SamePolicy, RulesOf
  <2>6. PolicyGood(f, p)'
    BY <2>3, <2>4, <2>5 DEF PolicyGood, SamePolicy
  <2>7. QED BY <2>2, <2>6
<1>8. f.on \in Rules => RuleGood(f, f.on)'
  <2>1. SUFFICES ASSUME f.on \in Rules PROVE RuleGood(f, f.on)'
    OBVIOUS
  <2>2. PICK r \in Rules : r = f.on
    BY <2>1
  <2>3. RuleGood(f, r) /\ LbOf[ListenerOf[PolicyOf[r]]] = l /\ PolicyOf[r] \in Policies
    BY <2>2, RuleTree DEF FlowOK
  <2>4. r \in inScript' <=> r \in inScript
    BY <1>4, <2>3 DEF SamePolicy, RulesOf
  <2>5. RuleGood(f, r)'
    BY <2>3, <2>4 DEF RuleGood
  <2>6. QED BY <2>2, <2>5
<1>9. f.on \in LBs => f.on = l
  BY LbTree
<1>10. f.on \in LBs /\ f.op = "create" => CreateGood(f, l)'
  <2>1. SUFFICES ASSUME f.on \in LBs, f.op = "create" PROVE CreateGood(f, l)'
    OBVIOUS
  <2>2. CreateGood(f, l)
    BY <1>9, <2>1 DEF FlowOK
  <2>3. \A y \in Under(l) : status'[y] = status[y]
    BY <1>2, BelowLb
  <2>4. (~f.full => \A y \in Under(l) : status[y] = "NEW")'
    BY <2>2, <2>3 DEF CreateGood, Under, Below, Chain, PolicyAt, ListenerAt, Lb, Objects
  <2>5. ASSUME f.full
        PROVE  /\ (f.at # "vs" => l \in vs)'
               /\ (\A y \in Under(l) : status[y] \in IF y \in f.rest \cup Chain(f.cur) THEN {"PENDING"}
                                                     ELSE {"PENDING", "ACTIVE"})'
    <3>1. (f.at # "vs" => l \in vs)'
      BY <2>2, <2>5 DEF CreateGood, Untouched
    <3>2. QED BY <2>2, <2>3, <2>5, <3>1 DEF CreateGood, Under, Below, Chain, PolicyAt, ListenerAt, Lb, Objects
  <2>6. ASSUME f.full, NEW x \in ListenersOf(l)
        PROVE  /\ (~Passed(f, x, {"cert", "template"}) => template[x] = None)'
               /\ (Passed(f, x, {"cert", "template"}) => template[x] = tls[x])'
               /\ (Passed(f, x, {"cert", "template", "vport"}) => x \in vports /\ (tls[x] # None => x \in sslOn))'
    <3>1. SameListener(x)
      BY <1>3
    <3>2. /\ (~Passed(f, x, {"cert", "template"}) => template[x] = None)
          /\ (Passed(f, x, {"cert", "template"}) => template[x] = tls[x])
          /\ (Passed(f, x, {"cert", "template", "vport"}) => x \in vports /\ (tls[x] # None => x \in sslOn))
      BY <2>2, <2>6 DEF CreateGood
    <3>3. QED BY <3>1, <3>2 DEF SameListener, Passed
  <2>7. ASSUME f.full, NEW p \in Policies, LbOf[ListenerOf[p]] = l
        PROVE  /\ (Passed(f, p, {"script"}) => p \in scripts /\ RulesOf(p) \subseteq inScript)'
               /\ (Passed(f, p, {"script", "bind"}) => p \in bound)'
    <3>1. SamePolicy(p)
      BY <1>4, <2>7
    <3>2. /\ (Passed(f, p, {"script"}) => p \in scripts /\ RulesOf(p) \subseteq inScript)
          /\ (Passed(f, p, {"script", "bind"}) => p \in bound)
      BY <2>2, <2>7 DEF CreateGood
    <3>3. QED BY <3>1, <3>2 DEF SamePolicy, Passed, RulesOf
  <2>8. QED BY <2>4, <2>5, <2>6, <2>7 DEF CreateGood, ListenersOf
<1>11. f.on \in LBs /\ f.op = "update" => UpdateGood(f, l)'
  <2>1. SUFFICES ASSUME f.on \in LBs, f.op = "update" PROVE UpdateGood(f, l)'
    OBVIOUS
  <2>2. UpdateGood(f, l)
    BY <1>9, <2>1 DEF FlowOK
  <2>3. \A x \in ListenersOf(l) : x \in vports' <=> x \in vports
    BY <1>3 DEF SameListener
  <2>4. QED BY <2>2, <2>3 DEF UpdateGood, ListenersOf
<1>12. f.on \in LBs /\ f.op = "delete" => DeleteGood(f, l)'
  <2>1. SUFFICES ASSUME f.on \in LBs, f.op = "delete" PROVE DeleteGood(f, l)'
    OBVIOUS
  <2>2. DeleteGood(f, l)
    BY <1>9, <2>1 DEF FlowOK
  <2>3. \A x \in ListenersOf(l) : (x \in vports' <=> x \in vports) /\ template'[x] = template[x]
    BY <1>3 DEF SameListener
  <2>4. f.cur \in Listeners => f.cur \in ListenersOf(l)
    BY ShapeIs, ListenerTree DEF ListenersOf
  <2>5. QED BY <2>2, <2>3, <2>4 DEF DeleteGood, ListenersOf
<1>13. QED BY <1>5, <1>6, <1>7, <1>8, <1>9, <1>10, <1>11, <1>12 DEF FlowOK

LEMMA LbFrame ==
  ASSUME ShapeAssumption, NEW l \in LBs, NEW f \in Flows, f = Idle \/ (Shape(f) /\ Lb(f.on) = l), Untouched(l),
         LbGood(f, l)
  PROVE  LbGood(f, l)'
<1>1. status'[l] = status[l] /\ (Live(f, l)' <=> Live(f, l))
  BY BelowLb, LiveFrame DEF Untouched, SameStatus
<1>2. LbStatus(f, l)'
  BY <1>1 DEF LbGood, LbStatus, Deletes, Creates
<1>3. Live(f, l)' => l \in vs' \/ Creates(f, l)
  BY <1>1 DEF LbGood, Untouched
<1>4. ASSUME NEW x \in ListenersOf(l)
      PROVE  ListenerOK(f, x)' /\ CleanListener(f, x)'
  <2>1. LbOf[x] = l /\ SameListener(x) /\ SameStatus(x) /\ ListenerOK(f, x) /\ CleanListener(f, x)
    BY BelowLb DEF Untouched, LbGood
  <2>2. QED BY <1>1, <2>1, ListenerFrame
<1>5. ASSUME NEW p \in Policies, LbOf[ListenerOf[p]] = l
      PROVE  PolicyOK(f, p)' /\ CleanPolicy(p)'
  <2>1. /\ SamePolicy(p) /\ SameStatus(p) /\ (\A r \in RulesOf(p) : status'[r] = status[r])
        /\ status'[ListenerOf[p]] = status[ListenerOf[p]] /\ SameListener(ListenerOf[p])
    BY <1>5, BelowLb DEF Untouched, SameStatus, RulesOf
  <2>2. PolicyOK(f, p) /\ CleanPolicy(p)
    BY <1>5 DEF LbGood
  <2>3. QED BY <1>1, <1>5, <2>1, <2>2, PolicyFrame DEF SameListener
<1>6. \A o \in Under(l) : Calm(f, o)'
  BY <1>1, BelowLb DEF LbGood, Calm, Untouched, SameStatus, Creates
<1>7. f # Idle /\ f.step # "revert" => FlowOK(f)'
  BY FlowOKFrame DEF LbGood
<1>8. QED BY <1>2, <1>3, <1>4, <1>5, <1>6, <1>7 DEF LbGood, ListenersOf, Under, Below, Chain, PolicyAt, ListenerAt, Lb, Objects, Idle

LEMMA EndedFrame ==
  ASSUME ShapeAssumption, NEW l \in LBs, NEW f \in Flows, Shape(f), Lb(f.on) = l,
         status[l] = "GONE" => status'[l] = "GONE",
         \A o \in Below(l) : status'[o] = "ERROR" => status[o] = "ERROR",
         Ended(f)
  PROVE  Ended(f)'
<1>1. f.on \in LBs => f.on = l
  BY LbTree
<1>2. f.on \in Rules => PolicyOf[f.on] \in Below(l)
  BY RuleTree, BelowLb, PolicyTree
<1>3. l \in Below(l)
  BY BelowLb
<1>4. QED BY <1>1, <1>2, <1>3 DEF Ended, Lb, ListenerAt, PolicyAt, Parts

(* A step of the slot s does not disturb the load balancers it is not for. *)
LEMMA OtherLb ==
  ASSUME ShapeAssumption, Inv, Inv', NEW s \in Slots, Only(s), NEW l \in LBs, Untouched(l),
         Settled(l)' => Settled(l), LbOK(l),
         s \notin On(l), s \notin On(l)'
  PROVE  LbOK(l)'
<1>1. SUFFICES ASSUME Settled(l)' PROVE /\ \E f \in Flows : AtWork(f, l)' /\ LbGood(f, l)'
                                        /\ \A t \in On(l)', f \in Flows : f = flow'[t] /\ Ending(f) => Ended(f)'
  BY DEF LbOK, Flows, Ops, Objects, Parts, Labels, Histories
<1>2. /\ \E f \in Flows : AtWork(f, l) /\ LbGood(f, l)
      /\ \A t \in On(l), f \in Flows : f = flow[t] /\ Ending(f) => Ended(f)
  BY <1>1 DEF LbOK
<1>3. On(l)' = On(l)
  BY DEF On, Only
<1>4. \A t \in On(l) : t # s /\ t \in Slots /\ flow'[t] = flow[t] /\ flow[t] \in Flows /\ Shape(flow[t])
                       /\ Lb(flow[t].on) = l
  <2>1. SUFFICES ASSUME NEW t \in On(l) PROVE t # s /\ t \in Slots /\ flow'[t] = flow[t] /\ flow[t] \in Flows /\ Shape(flow[t])
                       /\ Lb(flow[t].on) = l
    OBVIOUS
  <2>2. t \in Slots /\ flow[t].step # "idle" /\ t # s /\ Lb(flow[t].on) = l
    BY DEF On
  <2>3. flow[t] # Idle
    BY <2>2 DEF Idle
  <2>4. QED BY <2>2, <2>3 DEF Inv, FlowInv, Only
<1>5. PICK f \in Flows : AtWork(f, l) /\ LbGood(f, l)
  BY <1>2
<1>6. AtWork(f, l)'
  BY <1>3, <1>4, <1>5 DEF AtWork
<1>7. f = Idle \/ (Shape(f) /\ Lb(f.on) = l)
  BY <1>4, <1>5 DEF AtWork
<1>8. LbGood(f, l)'
  BY <1>5, <1>7, LbFrame
<1>9. ASSUME NEW t \in On(l)', NEW h \in Flows, h = flow'[t], Ending(h) PROVE Ended(h)'
  <2>1. h = flow[t] /\ Shape(h) /\ Lb(h.on) = l /\ Ended(h)
    BY <1>2, <1>3, <1>4, <1>9
  <2>2. QED BY <2>1, EndedFrame, BelowLb DEF Untouched, SameStatus
<1>10. QED BY <1>6, <1>8, <1>9

-----------------------------------------------------------------------------
(* The flow at work on a load balancer.                                    *)
LEMMA AtTask ==
  ASSUME ShapeAssumption, Inv, NEW s \in Slots, NEW l \in LBs, Settled(l), LbOK(l),
         NEW f \in Flows, f = flow[s], Lb(f.on) = l, f.step # "idle", ~Ending(f)
  PROVE  LbGood(f, l) /\ \A t \in On(l) \ {s} : Ending(flow[t])
<1>1. PICK e \in Flows : AtWork(e, l) /\ LbGood(e, l)
  BY DEF LbOK
<1>2. s \in On(l) /\ ~Ending(flow[s])
  BY DEF On
<1>3. PICK t \in On(l) : e = flow[t] /\ ~Ending(e) /\ \A u \in On(l) \ {t} : Ending(flow[u])
  BY <1>1, <1>2 DEF AtWork
<1>4. t = s
  BY <1>2, <1>3
<1>5. QED BY <1>1, <1>3, <1>4

(* After its flow at work has made a step, a load balancer is as it should *)
(* be if that flow sees it so, or no flow when it has come to its end.     *)
LEMMA WorkStep ==
  ASSUME ShapeAssumption, Inv, Inv', NEW s \in Slots, NEW l \in LBs, NEW f \in Flows, NEW g \in Flows,
         f = flow[s], g = flow'[s], Shape(g), Only(s), Lb(f.on) = l, g.on = f.on, f.step # "idle", ~Ending(f),
         Settled(l)' => Settled(l), LbOK(l),
         status[l] = "GONE" => status'[l] = "GONE", \A o \in Below(l) : status'[o] = "ERROR" => status[o] = "ERROR",
         Settled(l)' => IF Ending(g) THEN LbGood(Idle, l)' /\ Ended(g)' ELSE LbGood(g, l)'
  PROVE  LbOK(l)'
<1>1. SUFFICES ASSUME Settled(l)' PROVE /\ \E e \in Flows : AtWork(e, l)' /\ LbGood(e, l)'
                                        /\ \A t \in On(l)', e \in Flows : e = flow'[t] /\ Ending(e) => Ended(e)'
  BY DEF LbOK, Flows, Ops, Objects, Parts, Labels, Histories
<1>2. LbGood(f, l) /\ \A t \in On(l) \ {s} : Ending(flow[t])
  BY <1>1, AtTask
<1>3. On(l)' = On(l) /\ s \in On(l)
  BY DEF On, Only, Shape
<1>4. \A t \in On(l) \ {s} : t \in Slots /\ flow'[t] = flow[t] /\ flow[t] \in Flows /\ Shape(flow[t])
                       /\ Lb(flow[t].on) = l
  <2>1. SUFFICES ASSUME NEW t \in On(l) \ {s} PROVE t \in Slots /\ flow'[t] = flow[t] /\ flow[t] \in Flows /\ Shape(flow[t])
                       /\ Lb(flow[t].on) = l
    OBVIOUS
  <2>2. t \in Slots /\ flow[t].step # "idle" /\ Lb(flow[t].on) = l
    BY DEF On
  <2>3. flow[t] # Idle
    BY <2>2 DEF Idle
  <2>4. QED BY <2>2, <2>3 DEF Inv, FlowInv, Only
<1>5. \A t \in On(l)' \ {s} : Ending(flow'[t])
  BY <1>2, <1>3, <1>4
<1>6. \E e \in Flows : AtWork(e, l)' /\ LbGood(e, l)'
  <2>1. CASE Ending(g)
    <3>1. \A t \in On(l)' : Ending(flow'[t])
      BY <1>5, <2>1
    <3>2. AtWork(Idle, l)'
      BY <3>1 DEF AtWork, Idle
    <3>3. Idle \in Flows
      BY DEF Idle, Flows, Labels, Histories
    <3>4. QED BY <1>1, <2>1, <3>2, <3>3
  <2>2. CASE ~Ending(g)
    <3>1. AtWork(g, l)'
      BY <1>3, <1>5, <2>2 DEF AtWork
    <3>2. QED BY <1>1, <2>2, <3>1
  <2>3. QED BY <2>1, <2>2
<1>7. ASSUME NEW t \in On(l)', NEW h \in Flows, h = flow'[t], Ending(h) PROVE Ended(h)'
  <2>1. CASE t = s
    BY <1>1, <1>7, <2>1
  <2>2. CASE t # s
    <3>1. h = flow[t] /\ Shape(h) /\ Lb(h.on) = l /\ Ended(h)
      BY <1>1, <1>3, <1>4, <1>7, <2>2 DEF LbOK
    <3>2. QED BY <3>1, EndedFrame
  <2>3. QED BY <2>1, <2>2
<1>8. QED BY <1>6, <1>7

LEMMA StatusAt ==
  ASSUME ShapeAssumption, NEW l \in LBs, NEW f \in Flows, Shape(f), Lb(f.on) = l, f.step # "revert", LbGood(f, l)
  PROVE  /\ f.on \notin LBs => /\ \A y \in Chain(f.on) \ {f.on} : status[y] = "PENDING"
                               /\ status[f.on] = OwnStatus(f) /\ f.on # l /\ l \in Chain(f.on) /\ status[l] = "PENDING"
                               /\ Live(f, l) /\ l \in vs
         /\ Whole(f) /\ f.op = "create" => \A y \in Chain(f.cur) \ {l} : status[y] = "PENDING"
         /\ f.on \in LBs => f.on = l /\ (f.op # "create" => status[l] = "PENDING")
         /\ f.on \in LBs /\ f.op = "delete" => ~Live(f, l)
         /\ f # Idle /\ FlowOK(f)
<1>1. f # Idle /\ FlowOK(f)
  BY ShapeIs DEF LbGood
<1>2. f.on \in Objects /\ f.on \in Chain(f.on) /\ l \in Chain(f.on)
  BY ShapeIs, ChainTree
<1>3. f.on \notin LBs => /\ \A y \in Chain(f.on) \ {f.on} : status[y] = "PENDING"
                         /\ status[f.on] = OwnStatus(f) /\ f.on # l /\ l \in Chain(f.on) /\ status[l] = "PENDING"
  BY <1>1, <1>2 DEF FlowOK, PartGood
<1>4. f.on \in LBs => f.on = l
  BY LbTree
<1>5. f.on \notin LBs => Live(f, l) /\ l \in vs
  BY <1>1, <1>3 DEF LbGood, Live, HasRow, Deletes, Creates
<1>6. ASSUME Whole(f), f.op = "create"
      PROVE  \A y \in Chain(f.cur) \ {l} : status[y] = "PENDING"
  <2>1. f.on = l /\ f.full /\ f.cur \in Under(l)
    BY <1>4, <1>6, WholeIs
  <2>2. CreateGood(f, l)
    BY <1>1, <1>6, <2>1 DEF FlowOK
  <2>3. \A y \in Chain(f.cur) \ {l} : y \in Under(l)
    BY <2>1, BelowLb, ChainTree, UnderTree DEF Under, Below
  <2>4. QED BY <2>1, <2>2, <2>3 DEF CreateGood
<1>7. f.on \in LBs /\ f.op # "create" => status[l] = "PENDING"
  BY <1>1, <1>4 DEF LbGood, LbStatus, Creates
<1>8. f.on \in LBs /\ f.op = "delete" => ~Live(f, l)
  BY <1>4 DEF Live, Deletes
<1>9. QED BY <1>1, <1>3, <1>4, <1>5, <1>6, <1>7, <1>8

LEMMA DeviceGood ==
  ASSUME ShapeAssumption, NEW l \in LBs, NEW f \in Flows, NEW g \in Flows, Shape(f), Shape(g), Lb(f.on) = l,
         g.op = f.op, g.on = f.on, f.step # "revert", g.step = f.step,
         status' = status, revived' = revived, LbGood(f, l), Live(f, l) /\ l \in vs => l \in vs',
         \A x \in ListenersOf(l) : SameListener(x) \/ (ListenerOK(g, x)' /\ CleanListener(g, x)'),
         \A p \in Policies : LbOf[ListenerOf[p]] = l =>
            \/ SamePolicy(p) /\ (ListenerOf[p] \in vports' => ListenerOf[p] \in vports)
            \/ PolicyOK(g, p)' /\ CleanPolicy(p)',
         FlowOK(g)'
  PROVE  LbGood(g, l)'
<1>1. status'[l] = status[l] /\ (Live(g, l)' <=> Live(f, l)) /\ f # Idle /\ g # Idle
  BY LiveFrame, ShapeIs
<1>2. LbStatus(g, l)'
  BY <1>1 DEF LbGood, LbStatus, Deletes, Creates
<1>3. Live(g, l)' => l \in vs' \/ Creates(g, l)
  BY <1>1 DEF LbGood, Creates
<1>4. ASSUME NEW x \in ListenersOf(l)
      PROVE  ListenerOK(g, x)' /\ CleanListener(g, x)'
  <2>1. LbOf[x] = l /\ SameStatus(x) /\ ListenerOK(f, x) /\ CleanListener(f, x)
    BY BelowLb DEF SameStatus, LbGood
  <2>2. QED BY <1>1, <2>1, ListenerFrame
<1>5. ASSUME NEW p \in Policies, LbOf[ListenerOf[p]] = l
      PROVE  PolicyOK(g, p)' /\ CleanPolicy(p)'
  <2>1. SameStatus(p) /\ (\A r \in RulesOf(p) : status'[r] = status[r]) /\ status'[ListenerOf[p]] = status[ListenerOf[p]]
    BY DEF SameStatus
  <2>2. PolicyOK(f, p) /\ CleanPolicy(p)
    BY <1>5 DEF LbGood
  <2>3. QED BY <1>1, <1>5, <2>1, <2>2, PolicyFrame
<1>6. \A o \in Under(l) : Calm(g, o)'
  BY <1>1, BelowLb DEF LbGood, Calm, Creates
<1>7. QED BY <1>1, <1>2, <1>3, <1>4, <1>5, <1>6 DEF LbGood, ListenersOf, Under, Below, Chain, PolicyAt, ListenerAt, Lb, Objects, Idle

(* The listener a task is about is not ACTIVE.                             *)
LEMMA QuietListener ==
  ASSUME ShapeAssumption, NEW l \in LBs, NEW f \in Flows, Shape(f), Lb(f.on) = l, f.step = "run", LbGood(f, l),
         NEW x \in Listeners, x = f.cur, f.at \notin {"active", "end"}
  PROVE  /\ ~(Live(f, l) /\ (status[x] = "ACTIVE" \/ (status[x] = "PENDING" /\ f.on \in Under(x))))
         /\ status[x] = "PENDING" \/ f.op = "delete" \/ f.on = x
         /\ f.on = x => status[x] = "PENDING"
         /\ LbOf[x] = l /\ x \in ListenersOf(l)
<1>1. LbOf[x] = l /\ x \in Chain(x) /\ x # l /\ x \in Objects /\ x \in ListenersOf(l)
  BY ShapeIs, ListenerTree DEF ListenersOf
<1>2. f.on = x => status[x] = "PENDING" /\ f.on \notin Under(x)
  BY StatusAt, ListenerTree DEF OwnStatus, Under
<1>3. f.on # x => Whole(f) /\ f.op # "update" /\ f.on = l /\ f.op \in Ops
  BY <1>1, AtListener, ShapeIs
<1>4. f.on # x /\ f.op = "create" => status[x] = "PENDING" /\ f.on \notin Under(x)
  <2>1. f.on = l => f.on \notin Under(x)
    BY <1>1, BelowTree, ListenerTree DEF Under
  <2>2. QED BY <1>1, <1>3, <2>1, StatusAt
<1>5. f.on # x /\ f.op = "delete" => ~Live(f, l)
  BY <1>3, StatusAt
<1>6. QED BY <1>1, <1>2, <1>3, <1>4, <1>5 DEF Ops

(* So is the policy that a task takes off its port.                        *)
LEMMA QuietPolicy ==
  ASSUME ShapeAssumption, NEW l \in LBs, NEW f \in Flows, Shape(f), Lb(f.on) = l, f.step = "run", LbGood(f, l),
         NEW p \in Policies, p = f.cur, f.at \notin {"active", "end"}, f.op = "delete"
  PROVE  /\ ~(Live(f, l) /\ (status[p] = "ACTIVE" \/ (status[p] \in {"PENDING", "ERROR"} /\ f.on \in RulesOf(p))))
         /\ LbOf[ListenerOf[p]] = l
<1>1. LbOf[ListenerOf[p]] = l
  BY ShapeIs, PolicyTree
<1>2. f.on = p => status[p] = "PENDING" /\ f.on \notin RulesOf(p)
  BY StatusAt, PolicyTree DEF OwnStatus, RulesOf
<1>3. f.on # p => Whole(f)
  BY AtPolicy
<1>4. f.on # p => ~Live(f, l)
  BY <1>3, StatusAt DEF Whole
<1>5. QED BY <1>1, <1>2, <1>4

-----------------------------------------------------------------------------
(* The creation of a load balancer with what is below it.                  *)
Building(f, l) == f.on = l /\ l \in LBs /\ f.op = "create" /\ f.full

LEMMA CreateMoves ==
  ASSUME ShapeAssumption, NEW l \in LBs, NEW f \in Flows, Shape(f), Building(f, l), f.at # "end", NEW g, Moves(f, g)
  PROVE  /\ f.cur \notin f.rest /\ f.cur \notin g.rest
         /\ \/ g.cur = f.cur /\ g.rest = f.rest
               /\ (g.at = Succ(f) \/ (f.at \in {"vs", "vport", "bind"} /\ g.at \in {"early_active", "mark", "active"}))
            \/ /\ g.cur \in f.rest /\ g.rest = f.rest \ {g.cur} /\ g.at = First(f, g.cur) /\ g.cur # f.cur
               /\ f.at \in {"vs", "vport", "bind", "early_active", "mark"}
            \/ /\ g.rest = f.rest /\ g.cur # f.cur /\ g.cur \in Chain(f.cur) /\ g.at \in {"early_active", "mark", "active"}
               /\ f.at \in {"early_active", "mark"}
         /\ g.rest \cup Chain(g.cur) \subseteq f.rest \cup Chain(f.cur)
         /\ f.at \in {"early_active", "mark"} => f.cur \notin Chain(g.cur) /\ f.cur # l
         /\ Building(g, l)
<1>1. f.rest \subseteq Under(l) \ {f.cur} /\ f.cur \in Objects
  BY ShapeIs DEF Building
<1>2. Building(g, l)
  BY DEF Moves, Same, Building
<1>3. \A y \in f.rest : y \in Parts
  BY ShapeIs
<1>4. CASE Succ(f) # "below" /\ (Succ(f) = "end" => f.cur = f.on) /\ Stays(f, g)
  <2>1. f.at \in {"early_active", "mark"} => Succ(f) = "end" /\ f.cur # f.on
    <3>1. CASE f.cur \in LBs
      BY <3>1, AtLb DEF Building
    <3>2. CASE f.cur \in Listeners
      BY <3>2, AtListener, SuccListener, ListenerTree DEF Building
    <3>3. CASE f.cur \in Policies
      BY <3>3, AtPolicy, SuccPolicy, PolicyTree DEF Building
    <3>4. CASE f.cur \in Rules
      BY <3>4, AtRule, SuccRule, RuleTree DEF Building
    <3>5. QED BY <1>1, <3>1, <3>2, <3>3, <3>4, Kinds
  <2>2. QED BY <1>1, <1>2, <1>4, <2>1 DEF Stays
<1>5. CASE Succ(f) = "below" /\ (Goes(f, g, f.cur) \/ Climbs(f, g, f.cur))
  <2>1. f.at \in {"vs", "vport", "bind"} /\ f.cur \notin Rules
    BY <1>5, BelowIs
  <2>2. CASE Goes(f, g, f.cur)
    <3>1. g.cur \in f.rest /\ g.rest = f.rest \ {g.cur} /\ g.at = First(f, g.cur) /\ Up(g.cur) = f.cur
      BY <2>2 DEF Goes, Building
    <3>2. Chain(g.cur) = {g.cur} \cup Chain(f.cur)
      BY <1>3, <3>1, PartTree
    <3>3. QED BY <1>1, <1>2, <2>1, <3>1, <3>2
  <2>3. CASE Climbs(f, g, f.cur)
    <3>1. g.at \in {"early_active", "mark", "active"}
      BY <1>1, <2>1, <2>3, BelowLabels, Kinds DEF Climbs, Building
    <3>2. QED BY <1>1, <1>2, <2>1, <2>3, <3>1 DEF Climbs
  <2>4. QED BY <1>5, <2>2, <2>3
<1>6. CASE Succ(f) = "end" /\ f.cur # f.on /\ (Goes(f, g, Next1(f)) \/ Climbs(f, g, Next1(f)))
  <2>1. f.at \in {"early_active", "mark"} /\ Next1(f) = Up(f.cur) /\ f.cur \in Parts /\ Up(f.cur) \notin Rules
    BY <1>6, BelowIs, NextUp DEF Building, Whole
  <2>2. /\ Chain(f.cur) = {f.cur} \cup Chain(Up(f.cur)) /\ f.cur \notin Chain(Up(f.cur)) /\ Up(f.cur) \in Objects
        /\ Up(f.cur) \in Chain(Up(f.cur)) /\ f.cur # l
    BY <2>1, PartTree, ChainTree
  <2>3. CASE Goes(f, g, Next1(f))
    <3>1. g.cur \in f.rest /\ g.rest = f.rest \ {g.cur} /\ g.at = First(f, g.cur) /\ Up(g.cur) = Up(f.cur)
      BY <2>1, <2>3 DEF Goes, Building
    <3>2. Chain(g.cur) = {g.cur} \cup Chain(Up(f.cur))
      BY <1>3, <3>1, PartTree
    <3>3. QED BY <1>1, <1>2, <2>1, <2>2, <3>1, <3>2
  <2>4. CASE Climbs(f, g, Next1(f))
    <3>1. g.at \in {"early_active", "mark", "active"}
      BY <2>1, <2>2, <2>4, BelowLabels, Kinds DEF Climbs, Building
    <3>2. g.cur = Up(f.cur) /\ g.rest = f.rest
      BY <2>1, <2>4 DEF Climbs
    <3>3. QED BY <1>1, <1>2, <2>1, <2>2, <3>1, <3>2
  <2>5. QED BY <1>6, <2>3, <2>4
<1>7. QED BY <1>4, <1>5, <1>6 DEF Moves

(* Of the objects but the one the flow was at, only the one it comes to    *)
(* gets to its first task.                                                 *)
LEMMA PassedMove ==
  ASSUME ShapeAssumption, NEW l \in LBs, NEW f \in Flows, Shape(f), Building(f, l), f.at # "end", NEW g, Moves(f, g),
         NEW y \in Parts, NEW L \in SUBSET {"cert", "template", "vport", "script", "bind"}
  PROVE  /\ y # f.cur /\ Passed(f, y, L) => Passed(g, y, L)
         /\ y # f.cur /\ Passed(g, y, L) => Passed(f, y, L) \/ (g.cur = y /\ y \in f.rest /\ g.at = First(f, y) /\ First(f, y) \notin L)
         /\ y = f.cur /\ Passed(g, y, L) => g.cur # y \/ g.at \notin L
         /\ y = f.cur /\ ~Passed(g, y, L) => g.cur = y /\ g.at \in L /\ g.at = Succ(f)
         /\ y = f.cur => (Passed(f, y, L) <=> f.at \notin L)
  BY CreateMoves DEF Passed

LEMMA CreateDevice ==
  ASSUME ShapeAssumption, NEW l \in LBs, NEW f \in Flows, Shape(f), Building(f, l), NEW g \in Flows, Moves(f, g),
         f.at \in {"vs", "cert", "template", "vport", "script", "bind"},
         CreateGood(f, l), status' = status, tls' = tls, l \in vs', \A x \in Listeners : TlsInv(x),
         \A x \in ListenersOf(l) : x # f.cur => template'[x] = template[x],
         \A x \in ListenersOf(l) : x \in vports => x \in vports',
         \A x \in ListenersOf(l) : x \in sslOn => x \in sslOn',
         f.cur \in Listeners => template'[f.cur] = IF f.at = "template" THEN tls[f.cur] ELSE template[f.cur],
         f.at = "vport" => f.cur \in vports' /\ (tls[f.cur] # None => f.cur \in sslOn'),
         bound \subseteq bound', scripts \subseteq scripts',
         \A p \in Policies : LbOf[ListenerOf[p]] = l /\ RulesOf(p) \subseteq inScript => RulesOf(p) \subseteq inScript',
         f.cur \in Policies /\ f.at = "script" => f.cur \in scripts' /\ RulesOf(f.cur) \subseteq inScript',
         f.cur \in Policies /\ f.at = "bind" => f.cur \in bound'
  PROVE  CreateGood(g, l)'
<1>1. f.on = l /\ f.op = "create" /\ f.full /\ g.full /\ f.at # "end" /\ g.at # "vs"
  <2>1. g.at # "vs"
    <3>1. \A y \in Parts : First(f, y) # "vs"
      <4>1. ASSUME NEW y \in Parts PROVE First(f, y) # "vs"
        <5>1. f.on \in LBs /\ f.op = "create"
          BY DEF Building
        <5>2. y \in Listeners \/ y \in Policies \/ y \in Rules
          BY DEF Parts
        <5>3. QED BY <5>1, <5>2, FirstIs
      <4>2. QED BY <4>1
    <3>4. Succ(f) # "vs"
      <4>1. CASE f.cur \in LBs
        <5>1. f.op = "create" /\ f.full /\ f.at = "vs"
          BY <4>1, AtLb DEF Building
        <5>2. QED BY <4>1, <5>1, SuccLb
      <4>2. CASE f.cur \in Listeners
        BY <4>2, AtListener, SuccListener, ListenerTree DEF Building
      <4>3. CASE f.cur \in Policies
        BY <4>3, AtPolicy, SuccPolicy, PolicyTree DEF Building
      <4>4. CASE f.cur \in Rules
        BY <4>4, AtRule, SuccRule, RuleTree DEF Building
      <4>5. QED BY <4>1, <4>2, <4>3, <4>4, ShapeIs, Kinds
    <3>2. \A y \in f.rest : y \in Parts
      BY ShapeIs
    <3>3. QED BY <3>1, <3>2, <3>4, CreateMoves
  <2>2. QED BY <2>1 DEF Building, Moves, Same
<1>2. g.rest \cup Chain(g.cur) \subseteq f.rest \cup Chain(f.cur)
  BY <1>1, CreateMoves
<1>3. (\A y \in Under(l) : status[y] \in IF y \in g.rest \cup Chain(g.cur) THEN {"PENDING"} ELSE {"PENDING", "ACTIVE"})'
  <2>1. \A y \in Under(l) : status[y] \in IF y \in f.rest \cup Chain(f.cur) THEN {"PENDING"} ELSE {"PENDING", "ACTIVE"}
    BY <1>1 DEF CreateGood
  <2>2. \A y \in Under(l) : status'[y] \in IF y \in g.rest \cup Chain(g.cur) THEN {"PENDING"} ELSE {"PENDING", "ACTIVE"}
    BY <1>2, <2>1
  <2>3. QED BY <2>2 DEF Under, Below, Chain, PolicyAt, ListenerAt, Lb, Objects
<1>4. ASSUME NEW x \in ListenersOf(l)
      PROVE  /\ (~Passed(g, x, {"cert", "template"}) => template[x] = None)'
             /\ (Passed(g, x, {"cert", "template"}) => template[x] = tls[x])'
             /\ (Passed(g, x, {"cert", "template", "vport"}) => x \in vports /\ (tls[x] # None => x \in sslOn))'
  <2>1. x \in Listeners /\ x \in Parts /\ LbOf[x] = l /\ TlsInv(x)
    BY BelowLb, ListenerTree
  <2>2. /\ (~Passed(f, x, {"cert", "template"}) => template[x] = None)
        /\ (Passed(f, x, {"cert", "template"}) => template[x] = tls[x])
        /\ (Passed(f, x, {"cert", "template", "vport"}) => x \in vports /\ (tls[x] # None => x \in sslOn))
    BY <1>1 DEF CreateGood
  <2>3. First(f, x) = IF TlsOf[x] = None THEN "vport" ELSE "cert"
    BY <1>1, <2>1, FirstIs
  <2>4. /\ ~Passed(g, x, {"cert", "template"}) => template'[x] = None
        /\ Passed(g, x, {"cert", "template"}) => template'[x] = tls[x]
        /\ Passed(g, x, {"cert", "template", "vport"}) => x \in vports' /\ (tls[x] # None => x \in sslOn')
    <3>1. CASE x # f.cur
      <4>1. template'[x] = template[x] /\ (x \in vports => x \in vports') /\ (x \in sslOn => x \in sslOn')
        BY <3>1
      <4>2. ASSUME NEW L \in SUBSET {"cert", "template", "vport", "script", "bind"}
            PROVE  /\ Passed(f, x, L) => Passed(g, x, L)
                   /\ Passed(g, x, L) => Passed(f, x, L) \/ First(f, x) \notin L
        BY <1>1, <2>1, <3>1, PassedMove
      <4>3. {"cert", "template"} \in SUBSET {"cert", "template", "vport", "script", "bind"}
            /\ {"cert", "template", "vport"} \in SUBSET {"cert", "template", "vport", "script", "bind"}
        OBVIOUS
      <4>4. /\ Passed(f, x, {"cert", "template"}) => Passed(g, x, {"cert", "template"})
            /\ Passed(g, x, {"cert", "template"}) => Passed(f, x, {"cert", "template"}) \/ TlsOf[x] = None
            /\ Passed(g, x, {"cert", "template", "vport"}) => Passed(f, x, {"cert", "template", "vport"})
        BY <2>3, <4>2, <4>3
      <4>5. TlsOf[x] = None => tls[x] = None /\ template[x] = None
        BY <2>1 DEF TlsInv
      <4>6. QED BY <2>2, <4>1, <4>4, <4>5
    <3>2. CASE x = f.cur
      <4>1. /\ f.at \in {"cert", "template", "vport"} /\ (TlsOf[x] = None => f.at = "vport")
            /\ f.at = "cert" => Succ(f) = "template"
            /\ f.at = "template" => Succ(f) = "vport"
            /\ f.at = "vport" => Succ(f) = "below"
        BY <1>1, <2>1, <3>2, AtListener, SuccListener, ListenerTree DEF TlsTasks
      <4>2. (g.cur = x /\ g.rest = f.rest /\ g.at = Succ(f)) \/ f.at = "vport"
        BY <1>1, <3>2, <4>1, CreateMoves
      <4>3. x \notin g.rest /\ x \notin f.rest
        BY <1>1, <3>2, CreateMoves
      <4>4. CASE f.at = "cert"
        <5>1. ~Passed(f, x, {"cert", "template"})
          BY <3>2, <4>3, <4>4 DEF Passed
        <5>2. g.cur = x /\ g.at = "template"
          BY <4>1, <4>2, <4>4
        <5>3. ~Passed(g, x, {"cert", "template"}) /\ ~Passed(g, x, {"cert", "template", "vport"})
          BY <5>2 DEF Passed
        <5>4. template'[x] = template[x]
          BY <2>1, <3>2, <4>4
        <5>5. QED BY <2>2, <5>1, <5>3, <5>4
      <4>5. CASE f.at = "template"
        BY <2>1, <2>2, <3>2, <4>1, <4>2, <4>3, <4>5 DEF Passed
      <4>6. CASE f.at = "vport"
        <5>1. Passed(f, x, {"cert", "template"})
          BY <3>2, <4>3, <4>6 DEF Passed
        <5>2. g.cur = x => g.at \notin {"cert", "template", "vport"}
          BY <1>1, <3>2, <4>1, <4>6, CreateMoves
        <5>3. Passed(g, x, {"cert", "template"})
          BY <4>3, <5>2 DEF Passed
        <5>4. QED BY <2>1, <2>2, <3>2, <4>6, <5>1, <5>3
      <4>7. QED BY <4>1, <4>4, <4>5, <4>6
    <3>3. QED BY <3>1, <3>2
  <2>5. QED BY <2>4 DEF Passed
<1>5. ASSUME NEW p \in Policies, LbOf[ListenerOf[p]] = l
      PROVE  /\ (Passed(g, p, {"script"}) => p \in scripts /\ RulesOf(p) \subseteq inScript)'
             /\ (Passed(g, p, {"script", "bind"}) => p \in bound)'
  <2>1. p \in Parts
    BY PolicyTree
  <2>2. /\ (Passed(f, p, {"script"}) => p \in scripts /\ RulesOf(p) \subseteq inScript)
        /\ (Passed(f, p, {"script", "bind"}) => p \in bound)
    BY <1>1, <1>5 DEF CreateGood
  <2>3. First(f, p) = "script"
    BY <1>1, <2>1, FirstIs
  <2>4. /\ Passed(g, p, {"script"}) => p \in scripts' /\ RulesOf(p) \subseteq inScript'
        /\ Passed(g, p, {"script", "bind"}) => p \in bound'
    <3>1. CASE p # f.cur
      <4>1. ASSUME NEW L \in SUBSET {"cert", "template", "vport", "script", "bind"}
            PROVE  Passed(g, p, L) => Passed(f, p, L) \/ First(f, p) \notin L
        BY <1>1, <2>1, <3>1, PassedMove
      <4>2. {"script"} \in SUBSET {"cert", "template", "vport", "script", "bind"}
            /\ {"script", "bind"} \in SUBSET {"cert", "template", "vport", "script", "bind"}
        OBVIOUS
      <4>3. /\ Passed(g, p, {"script"}) => Passed(f, p, {"script"})
            /\ Passed(g, p, {"script", "bind"}) => Passed(f, p, {"script", "bind"})
        BY <2>3, <4>1, <4>2
      <4>4. QED BY <1>5, <2>2, <4>3
    <3>2. CASE p = f.cur
      <4>1. /\ f.at \in {"script", "bind"}
            /\ f.at = "script" => Succ(f) = "bind"
            /\ f.at = "bind" => Succ(f) = "below"
        BY <1>1, <3>2, AtPolicy, SuccPolicy, PolicyTree
      <4>2. p \notin g.rest /\ p \notin f.rest
        BY <1>1, <3>2, CreateMoves
      <4>3. CASE f.at = "script"
        <5>1. g.cur = p /\ g.at = "bind"
          BY <1>1, <3>2, <4>1, <4>3, CreateMoves
        <5>2. QED BY <3>2, <4>2, <4>3, <5>1 DEF Passed
      <4>4. CASE f.at = "bind"
        BY <1>5, <2>2, <3>2, <4>2, <4>4 DEF Passed
      <4>5. QED BY <4>1, <4>3, <4>4
    <3>3. QED BY <3>1, <3>2
  <2>5. QED BY <2>4 DEF Passed, RulesOf
<1>6. QED BY <1>1, <1>3, <1>4, <1>5 DEF CreateGood, ListenersOf

-----------------------------------------------------------------------------
(* A task of the flow f at work on the load balancer l, after which it is  *)
(* the flow g.                                                             *)
Doing(l, f, g) ==
    /\ l \in LBs /\ f \in Flows /\ g \in Flows /\ Shape(f) /\ Shape(g) /\ Lb(f.on) = l /\ Moves(f, g)
    /\ f.step = "run" /\ f.at # "end" /\ LbGood(f, l)

LEMMA DoingIs ==
  ASSUME ShapeAssumption, NEW l \in LBs, NEW f \in Flows, NEW g \in Flows, Doing(l, f, g)
  PROVE  /\ Shape(f) /\ Shape(g) /\ Lb(f.on) = l /\ f.step = "run" /\ g.step = "run" /\ f.at # "end" /\ LbGood(f, l)
         /\ g.op = f.op /\ g.on = f.on /\ g.cert = f.cert /\ g.full = f.full /\ g.read = f.read /\ g.done = Done(f)
         /\ f # Idle /\ FlowOK(f) /\ Moves(f, g)
         /\ f.on \notin LBs => g.cur = f.on /\ f.cur = f.on /\ g.at = Succ(f)
         /\ f.on \in LBs => f.on = l
<1>1. f # Idle /\ FlowOK(f) /\ (f.on \in LBs => f.on = l) /\ (f.on \notin LBs => f.cur = f.on)
  BY ShapeIs, StatusAt DEF Doing
<1>2. f.on \notin LBs => g.cur = f.on /\ g.at = Succ(f)
  BY <1>1, BelowIs DEF Doing, Moves, Stays
<1>3. QED BY <1>1, <1>2 DEF Doing, Moves, Same

LEMMA PartGoodStep ==
  ASSUME ShapeAssumption, NEW l \in LBs, NEW f \in Flows, NEW g \in Flows, Doing(l, f, g),
         f.on \notin LBs, f.at \notin {"active", "row"}, status' = status
  PROVE  PartGood(g)'
<1>1. PartGood(f) /\ g.on = f.on /\ g.op = f.op /\ g.at = Succ(f) /\ Shape(f) /\ f.cur = f.on /\ f.at # "end"
  BY DoingIs DEF FlowOK
<1>2. f.op = "delete" => g.at # "active"
  <2>1. CASE f.on \in Listeners
    BY <1>1, <2>1, AtListener, SuccListener
  <2>2. CASE f.on \in Policies
    BY <1>1, <2>2, AtPolicy, SuccPolicy
  <2>3. CASE f.on \in Rules
    BY <1>1, <2>3, AtRule, SuccRule
  <2>4. QED BY <1>1, <2>1, <2>2, <2>3, ShapeIs, Kinds
<1>3. OwnStatus(g) = "PENDING" /\ OwnStatus(f) = "PENDING"
  BY <1>1, <1>2 DEF OwnStatus
<1>4. QED BY <1>1, <1>3 DEF PartGood, Chain, PolicyAt, ListenerAt, Lb, OwnStatus

LEMMA ListenerGoodStep ==
  ASSUME ShapeAssumption, NEW l \in LBs, NEW f \in Flows, NEW g \in Flows, Doing(l, f, g),
         NEW x \in Listeners, x = f.on, f.at \notin {"active", "row"}, status' = status, TlsInv(x),
         f.at # "tls_row" => tls'[x] = tls[x],
         f.at = "tls_row" => tls'[x] = f.cert,
         f.at \notin {"template", "new_template", "no_template"} => template'[x] = template[x],
         f.at = "template" => template'[x] = f.cert,
         f.at = "new_template" => template'[x] \in {None, f.cert},
         f.at = "no_template" => template'[x] = None,
         f.at \in {"vport", "replace"} => x \in vports' /\ (tls[x] # None => x \in sslOn'),
         f.at = "tls_row" => (x \in vports => x \in vports') /\ (x \in sslOn => x \in sslOn'),
         f.at = "no_vport" => x \notin vports'
  PROVE  ListenerGood(g, x)'
<1>1. ListenerGood(f, x) /\ g.on = x /\ f.on = x /\ g.op = f.op /\ g.at = Succ(f) /\ Shape(f) /\ f.cur = x /\ f.at # "end" /\ g.cert = f.cert
  BY DoingIs, ListenerTree DEF FlowOK
<1>2. f.op \in Ops /\ (f.cert = None <=> TlsOf[x] = None)
  BY <1>1 DEF Shape
<1>3. CASE f.op = "create"
  <2>1. f.at \in {"cert", "template", "vport"} /\ (f.at = "cert" => g.at = "template") /\ (f.at = "template" => g.at = "vport")
        /\ (f.at = "vport" => g.at = "active")
    BY <1>1, <1>3, AtListener, SuccListener
  <2>2. f.cert = tls[x] /\ tls'[x] = tls[x] /\ \A y \in Under(x) : status'[y] = "NEW"
    BY <1>1, <1>3, <2>1 DEF ListenerGood
  <2>3. CASE f.at = "cert"
    <3>1. template[x] = None /\ template'[x] = None
      BY <1>1, <1>3, <2>3 DEF ListenerGood
    <3>2. QED BY <1>1, <1>3, <2>1, <2>2, <2>3, <3>1 DEF ListenerGood, Under, Below, Chain, PolicyAt, ListenerAt, Lb, Objects
  <2>4. CASE f.at = "template"
    BY <1>1, <1>3, <2>1, <2>2, <2>4 DEF ListenerGood, Under, Below, Chain, PolicyAt, ListenerAt, Lb, Objects
  <2>5. CASE f.at = "vport"
    <3>1. template[x] = tls[x] /\ template'[x] = tls[x]
      BY <1>1, <1>3, <2>5 DEF ListenerGood
    <3>2. QED BY <1>1, <1>3, <2>1, <2>2, <2>5, <3>1 DEF ListenerGood, Under, Below, Chain, PolicyAt, ListenerAt, Lb, Objects
  <2>6. QED BY <2>1, <2>3, <2>4, <2>5
<1>4. CASE f.op = "update"
  <2>1. f.at \in {"cert", "new_template", "replace", "tls_row"} /\ (f.at = "cert" => g.at = "new_template")
        /\ (f.at = "new_template" => g.at = "replace") /\ (f.at = "replace" => g.at = "tls_row") /\ (f.at = "tls_row" => g.at = "active")
    BY <1>1, <1>4, AtListener, SuccListener
  <2>2. CASE f.at = "cert"
    BY <1>1, <1>4, <2>1, <2>2 DEF ListenerGood
  <2>3. CASE f.at = "new_template"
    BY <1>1, <1>4, <2>1, <2>3 DEF ListenerGood
  <2>4. CASE f.at = "replace"
    <3>1. template[x] \in {None, f.cert} /\ template'[x] = template[x] /\ tls'[x] = tls[x]
      BY <1>1, <1>4, <2>4 DEF ListenerGood
    <3>2. QED BY <1>1, <1>4, <2>1, <2>4, <3>1 DEF ListenerGood
  <2>5. CASE f.at = "tls_row"
    <3>1. template[x] \in {None, f.cert} /\ template'[x] = template[x] /\ tls'[x] = f.cert
          /\ x \in vports /\ (tls[x] # None => x \in sslOn)
      BY <1>1, <1>4, <2>5 DEF ListenerGood
    <3>2. tls'[x] # None => tls[x] # None
      BY <1>2, <3>1 DEF TlsInv
    <3>3. QED BY <1>1, <1>4, <2>1, <2>5, <3>1, <3>2 DEF ListenerGood
  <2>6. QED BY <2>1, <2>2, <2>3, <2>4, <2>5
<1>5. CASE f.op = "delete"
  <2>1. f.at \in {"no_template", "no_cert", "no_vport"} /\ (f.at = "no_template" => g.at = "no_cert")
        /\ (f.at = "no_cert" => g.at = "no_vport") /\ (f.at = "no_vport" => g.at = "row")
    BY <1>1, <1>5, AtListener, SuccListener
  <2>2. template'[x] = None
    BY <1>1, <1>5, <2>1 DEF ListenerGood
  <2>3. QED BY <1>1, <1>5, <2>1, <2>2 DEF ListenerGood
<1>6. QED BY <1>2, <1>3, <1>4, <1>5 DEF Ops

LEMMA PolicyGoodStep ==
  ASSUME ShapeAssumption, NEW l \in LBs, NEW f \in Flows, NEW g \in Flows, Doing(l, f, g),
         NEW p \in Policies, p = f.on, f.at \notin {"active", "row"}, status' = status,
         f.at = "script" => p \in scripts' /\ \A r \in RulesOf(p) : status[r] = "ACTIVE" => r \in inScript',
         f.at = "bind" => scripts' = scripts /\ inScript' = inScript /\ p \in bound',
         f.at = "no_script" => p \notin scripts'
  PROVE  PolicyGood(g, p)'
<1>1. PolicyGood(f, p) /\ g.on = p /\ f.on = p /\ g.op = f.op /\ g.at = Succ(f) /\ Shape(f) /\ f.cur = p /\ f.at # "end"
  BY DoingIs, PolicyTree DEF FlowOK
<1>2. f.op \in Ops
  BY <1>1 DEF Shape
<1>3. CASE f.op # "delete"
  <2>1. f.at \in {"script", "bind"} /\ (f.at = "script" => g.at = "bind") /\ (f.at = "bind" => g.at = "active")
    BY <1>1, <1>2, <1>3, AtPolicy, SuccPolicy DEF Ops
  <2>2. CASE f.at = "script"
    BY <1>1, <1>3, <2>1, <2>2 DEF PolicyGood, Listed, RulesOf
  <2>3. CASE f.at = "bind"
    BY <1>1, <1>3, <2>1, <2>3 DEF PolicyGood, Listed, RulesOf
  <2>4. QED BY <2>1, <2>2, <2>3
<1>4. CASE f.op = "delete"
  <2>1. f.at \in {"unbind", "no_script"} /\ (f.at = "unbind" => g.at = "no_script") /\ (f.at = "no_script" => g.at = "row")
    BY <1>1, <1>4, AtPolicy, SuccPolicy
  <2>2. QED BY <1>1, <1>4, <2>1 DEF PolicyGood
<1>5. QED BY <1>3, <1>4

LEMMA RuleGoodStep ==
  ASSUME ShapeAssumption, NEW l \in LBs, NEW f \in Flows, NEW g \in Flows, Doing(l, f, g),
         NEW r \in Rules, r = f.on, f.at \notin {"active", "row"},
         f.at = "script" => r \in inScript',
         f.at = "bind" => inScript' = inScript,
         f.at = "script_without" => r \notin inScript'
  PROVE  RuleGood(g, r)'
<1>1. RuleGood(f, r) /\ g.on = r /\ f.on = r /\ g.op = f.op /\ g.at = Succ(f) /\ Shape(f) /\ f.cur = r /\ f.at # "end"
  BY DoingIs, RuleTree DEF FlowOK
<1>2. f.op \in Ops
  BY <1>1 DEF Shape
<1>3. CASE f.op # "delete"
  <2>1. f.at \in {"script", "bind"} /\ (f.at = "script" => g.at = "bind") /\ (f.at = "bind" => g.at = "active")
    BY <1>1, <1>2, <1>3, AtRule, SuccRule DEF Ops
  <2>2. QED BY <1>1, <1>3, <2>1 DEF RuleGood
<1>4. CASE f.op = "delete"
  <2>1. f.at \in {"script_without", "bind"} /\ (f.at = "script_without" => g.at = "bind") /\ (f.at = "bind" => g.at = "row")
    BY <1>1, <1>4, AtRule, SuccRule
  <2>2. QED BY <1>1, <1>4, <2>1 DEF RuleGood
<1>5. QED BY <1>3, <1>4

LEMMA DeleteGoodStep ==
  ASSUME ShapeAssumption, NEW l \in LBs, NEW f \in Flows, NEW g \in Flows, Doing(l, f, g),
         f.on \in LBs, f.op = "delete", \A x \in Listeners : TlsInv(x)',
         f.at = "no_vs" => ListenersOf(l) \cap vports' = {},
         f.cur \in Listeners /\ f.at = "no_template" => template'[f.cur] = None,
         f.cur \in Listeners /\ f.at # "no_template" => template'[f.cur] = template[f.cur]
  PROVE  DeleteGood(g, l)'
<1>1. /\ DeleteGood(f, l) /\ g.on = l /\ f.on = l /\ g.op = f.op /\ Shape(f) /\ f.at # "end" /\ Moves(f, g)
      /\ l \notin Listeners
  BY DoingIs, LbTree DEF FlowOK
<1>2. \A y \in f.rest : y \in Parts
  BY <1>1, ShapeIs
<1>3. CASE Stays(f, g) /\ (Succ(f) = "end" => f.cur = f.on)
  <2>1. CASE f.cur \in Listeners
    <3>1. f.cur # f.on /\ f.at \in {"no_template", "no_cert"} /\ g.at \in {"no_cert", "row"} /\ g.cur = f.cur
      BY <1>1, <1>3, <2>1, AtListener, SuccListener, LbTree DEF Stays
    <3>2. template'[g.cur] = None
      BY <1>1, <2>1, <3>1 DEF DeleteGood
    <3>3. QED BY <3>1, <3>2 DEF DeleteGood
  <2>2. CASE f.cur \in Policies
    <3>1. g.cur = f.cur /\ f.cur \notin Listeners /\ g.at # "lb_row"
      BY <1>1, <1>3, <2>2, AtPolicy, SuccPolicy, PolicyTree DEF Stays
    <3>2. QED BY <3>1 DEF DeleteGood
  <2>3. CASE f.cur \in LBs
    <3>1. g.cur = f.cur /\ f.cur \notin Listeners /\ (g.at = "lb_row" => f.at = "no_vs")
      BY <1>1, <1>3, <2>3, AtLb, SuccLb, LbTree DEF Stays
    <3>2. QED BY <3>1 DEF DeleteGood, ListenersOf
  <2>4. f.cur \notin Rules
    BY <1>1, WholeIs, RuleTree DEF Whole
  <2>5. QED BY <1>1, <2>1, <2>2, <2>3, <2>4, ShapeIs, Kinds
<1>4. ASSUME NEW o, Goes(f, g, o) PROVE DeleteGood(g, l)'
  <2>1. g.cur \in Parts /\ g.at = First(f, g.cur) /\ g.cur \in f.rest
    BY <1>2, <1>4 DEF Goes
  <2>2. f.rest \cap Rules = {}
    BY <1>1 DEF Shape
  <2>3. g.cur \in Listeners \/ g.cur \in Policies
    BY <2>1, <2>2 DEF Parts
  <2>4. CASE g.cur \in Listeners
    <3>1. g.at = IF TlsOf[g.cur] = None THEN "row" ELSE "no_template"
      BY <1>1, <2>1, <2>4, FirstIs
    <3>2. TlsOf[g.cur] = None => template'[g.cur] = None
      BY <2>4 DEF TlsInv
    <3>3. QED BY <3>1, <3>2 DEF DeleteGood
  <2>5. CASE g.cur \in Policies
    <3>1. g.at = "unbind" /\ g.cur \notin Listeners
      BY <1>1, <2>1, <2>5, FirstIs, PolicyTree
    <3>2. QED BY <3>1 DEF DeleteGood
  <2>6. QED BY <2>3, <2>4, <2>5
<1>5. ASSUME Climbs(f, g, l) PROVE DeleteGood(g, l)'
  <2>1. g.cur = l /\ g.at = "no_vs"
    BY <1>1, <1>5, BelowLabels, LbTree DEF Climbs
  <2>2. QED BY <1>1, <2>1 DEF DeleteGood
<1>6. Succ(f) # "below" /\ Next1(f) = l
  BY <1>1, BelowIs DEF Next1
<1>7. QED BY <1>1, <1>3, <1>4, <1>5, <1>6 DEF Moves

-----------------------------------------------------------------------------
(* What a task of the flow of the load balancer l, then g, leaves behind.  *)
Worked(l, g) ==
    /\ IF Ending(g) THEN LbGood(Idle, l)' /\ Ended(g)' ELSE LbGood(g, l)'
    /\ \A m \in LBs \ {l} : Untouched(m)
    /\ overlapped' = overlapped
    /\ status[l] = "GONE" => status'[l] = "GONE"
    /\ \A o \in Below(l) : status'[o] = "ERROR" => status[o] = "ERROR"

LEMMA NotEnding ==
  ASSUME ShapeAssumption, NEW l \in LBs, NEW f \in Flows, NEW g \in Flows, Doing(l, f, g),
         f.at \notin {"active", "lb_row"}, f.at = "vs" => f.full
  PROVE  ~Ending(g)
<1> SUFFICES ASSUME g.at = "end" PROVE FALSE
  BY DEF Ending
<1>1. Shape(f) /\ Shape(g) /\ Moves(f, g) /\ g.cur = g.on /\ g.on = f.on /\ f.at # "end" /\ (f.on \in LBs => f.on = l)
  BY DoingIs, Places
<1>2. ASSUME Stays(f, g), Succ(f) = "end" => f.cur = f.on PROVE FALSE
  <2>1. Succ(f) = "end" /\ f.cur = f.on
    BY <1>2 DEF Stays
  <2>2. CASE f.on \notin LBs
    BY <1>1, <2>1, <2>2, BelowIs
  <2>3. CASE f.on \in LBs
    <3>1. f.op \in Ops
      BY <1>1, ShapeIs
    <3>2. CASE f.op = "create" /\ f.full
      BY <1>1, <2>1, <2>3, <3>2, AtLb, SuccLb
    <3>3. CASE f.op = "create" /\ ~f.full
      BY <1>1, <2>1, <2>3, <3>3, AtLb, SuccLb
    <3>4. CASE f.op = "update"
      BY <1>1, <2>1, <2>3, <3>4, AtLb, SuccLb
    <3>5. CASE f.op = "delete"
      BY <1>1, <2>1, <2>3, <3>5, AtLb, SuccLb
    <3>6. QED BY <3>1, <3>2, <3>3, <3>4, <3>5 DEF Ops
  <2>4. QED BY <2>2, <2>3
<1>3. ASSUME NEW o, Goes(f, g, o), f.on \in LBs PROVE FALSE
  <2>1. g.cur \in f.rest /\ g.cur # f.on
    BY <1>1, <1>3, ShapeIs, LbTree DEF Goes
  <2>2. QED BY <1>1, <2>1
<1>4. ASSUME NEW o \in Objects, Climbs(f, g, o), f.on \in LBs,
             f.op = "create" => f.full /\ o \notin Rules, f.op = "delete" => o = f.on, f.op \in {"create", "delete"}
      PROVE FALSE
  <2>1. Same(f, g)
    BY <1>1 DEF Moves
  <2>2. g.at \in {"active", "early_active", "mark", "no_vs"}
    BY <1>1, <1>4, <2>1, ClimbPlaced
  <2>3. QED BY <2>2
<1>5. CASE Succ(f) = "below" /\ (Goes(f, g, f.cur) \/ Climbs(f, g, f.cur))
  BY <1>1, <1>3, <1>4, <1>5, BelowIs, ShapeIs
<1>6. CASE Succ(f) = "end" /\ f.cur # f.on /\ (Goes(f, g, Next1(f)) \/ Climbs(f, g, Next1(f)))
  <2>1. Whole(f) /\ f.op \in {"create", "delete"} /\ f.on \in LBs /\ (f.op = "create" => f.full)
    BY <1>1, <1>6, BelowIs, WholeIs
  <2>2. QED BY <1>1, <1>3, <1>4, <1>6, <2>1, NextUp
<1>7. QED BY <1>1, <1>2, <1>5, <1>6 DEF Moves

(* The good flow of a request, by the kind of its object.                  *)
LEMMA ListenerFlow ==
  ASSUME ShapeAssumption, NEW g, g.on \in Listeners, PartGood(g)', ListenerGood(g, g.on)'
  PROVE  FlowOK(g)'
  BY ListenerTree DEF FlowOK
LEMMA PolicyFlow ==
  ASSUME ShapeAssumption, NEW g, g.on \in Policies, PartGood(g)', PolicyGood(g, g.on)'
  PROVE  FlowOK(g)'
  BY PolicyTree DEF FlowOK
LEMMA RuleFlow ==
  ASSUME ShapeAssumption, NEW g, g.on \in Rules, PartGood(g)', RuleGood(g, g.on)'
  PROVE  FlowOK(g)'
  BY RuleTree DEF FlowOK
LEMMA LbFlow ==
  ASSUME ShapeAssumption, NEW g, g.on \in LBs,
         g.op = "create" => CreateGood(g, g.on)', g.op = "update" => UpdateGood(g, g.on)',
         g.op = "delete" => DeleteGood(g, g.on)'
  PROVE  FlowOK(g)'
  BY LbTree DEF FlowOK

(* A task on the device leaves the other load balancers alone.             *)
LEMMA DeviceWorked ==
  ASSUME ShapeAssumption, NEW l \in LBs, NEW f \in Flows, NEW g \in Flows, Doing(l, f, g),
         f.at \notin {"active", "lb_row"}, f.at = "vs" => f.full,
         status' = status, revived' = revived, overlapped' = overlapped,
         Live(f, l) /\ l \in vs => l \in vs', \A m \in LBs \ {l} : m \in vs' <=> m \in vs,
         \A x \in Listeners : \/ SameListener(x)
                              \/ LbOf[x] = l /\ ListenerOK(g, x)' /\ CleanListener(g, x)',
         \A p \in Policies : \/ SamePolicy(p) /\ (ListenerOf[p] \in vports' => ListenerOf[p] \in vports)
                             \/ LbOf[ListenerOf[p]] = l /\ PolicyOK(g, p)' /\ CleanPolicy(p)',
         FlowOK(g)'
  PROVE  Worked(l, g)
<1>1. ~Ending(g)
  BY NotEnding
<1>2. /\ Shape(f) /\ Shape(g) /\ Lb(f.on) = l /\ f.step = "run" /\ g.step = "run" /\ LbGood(f, l)
      /\ g.op = f.op /\ g.on = f.on
  BY DoingIs
<1>3. LbGood(g, l)'
  <2>1. \A x \in ListenersOf(l) : SameListener(x) \/ (ListenerOK(g, x)' /\ CleanListener(g, x)')
    BY DEF ListenersOf
  <2>2. \A p \in Policies : LbOf[ListenerOf[p]] = l =>
            \/ SamePolicy(p) /\ (ListenerOf[p] \in vports' => ListenerOf[p] \in vports)
            \/ PolicyOK(g, p)' /\ CleanPolicy(p)'
    OBVIOUS
  <2>3. QED BY <1>2, <2>1, <2>2, DeviceGood
<1>4. \A m \in LBs \ {l} : Untouched(m)
  BY DEF Untouched, SameStatus, ListenersOf
<1>5. QED BY <1>1, <1>3, <1>4 DEF Worked

(* The listener that a task is about.                                      *)
LEMMA TargetListener ==
  ASSUME ShapeAssumption, NEW l \in LBs, NEW f \in Flows, NEW g \in Flows, Doing(l, f, g),
         NEW x \in Listeners, x = f.cur, f.at # "active", status' = status, revived' = revived,
         f.op = "delete" => template'[x] \in {None, template[x]} /\ (x \in vports' => x \in vports)
  PROVE  LbOf[x] = l /\ ListenerOK(g, x)' /\ CleanListener(g, x)'
<1>1. /\ Shape(f) /\ Lb(f.on) = l /\ f.step = "run" /\ LbGood(f, l) /\ g.op = f.op /\ g.on = f.on /\ f.at # "end"
  BY DoingIs
<1>2. /\ ~(Live(f, l) /\ (status[x] = "ACTIVE" \/ (status[x] = "PENDING" /\ f.on \in Under(x))))
      /\ status[x] = "PENDING" \/ f.op = "delete" \/ f.on = x
      /\ f.on = x => status[x] = "PENDING"
      /\ LbOf[x] = l /\ x \in ListenersOf(l)
  BY <1>1, QuietListener
<1>3. Live(g, l)' <=> Live(f, l)
  BY <1>1, LiveFrame
<1>4. ListenerOK(g, x)'
  BY <1>1, <1>2, <1>3 DEF ListenerOK, Under, Below, Chain, PolicyAt, ListenerAt, Lb, Objects
<1>5. CleanListener(g, x)'
  <2>1. CleanListener(f, x)
    BY <1>1, <1>2 DEF LbGood
  <2>2. Falling(g, l)' <=> Falling(f, l)
    BY <1>3 DEF Falling
  <2>3. CASE status[x] = "PENDING"
    BY <2>3 DEF CleanListener
  <2>4. CASE f.op = "delete"
    BY <1>2, <2>1, <2>2, <2>4 DEF CleanListener
  <2>5. QED BY <1>2, <2>3, <2>4
<1>6. QED BY <1>2, <1>4, <1>5

(* The tasks about a listener.                                             *)
LEMMA ListenerTask ==
  ASSUME ShapeAssumption, Inv', NEW l \in LBs, NEW f \in Flows, NEW g \in Flows, Doing(l, f, g),
         NEW x \in Listeners, x = f.cur, TlsInv(x), \A y \in Listeners : TlsInv(y),
         f.at \in {"cert", "template", "new_template", "no_template", "no_cert", "vport", "replace", "no_vport"},
         status' = status, revived' = revived, overlapped' = overlapped, vs' = vs, tls' = tls,
         scripts' = scripts, inScript' = inScript,
         \A y \in Listeners \ {x} : SameListener(y),
         \A p \in Policies : \/ SamePolicy(p) /\ (ListenerOf[p] \in vports' => ListenerOf[p] \in vports)
                             \/ LbOf[ListenerOf[p]] = l /\ PolicyOK(g, p)' /\ CleanPolicy(p)',
         f.at \notin {"template", "new_template", "no_template"} => template'[x] = template[x],
         f.at = "template" => template'[x] = IF f.on = x THEN f.cert ELSE tls[x],
         f.at = "new_template" => template'[x] \in {None, f.cert},
         f.at = "no_template" => template'[x] = None,
         f.at \in {"vport", "replace"} => x \in vports' /\ (tls[x] # None => x \in sslOn'),
         f.at = "no_vport" => x \notin vports',
         f.at \notin {"vport", "replace", "no_vport"} => (x \in vports' <=> x \in vports),
         f.at \notin {"no_template", "no_vport"} => (x \in sslOn => x \in sslOn'),
         f.at \notin {"replace", "no_vport"} => bound \subseteq bound'
  PROVE  Worked(l, g)
<1>1. /\ Shape(f) /\ Shape(g) /\ Lb(f.on) = l /\ f.step = "run" /\ LbGood(f, l) /\ g.op = f.op /\ g.on = f.on
      /\ FlowOK(f) /\ (f.on \in LBs => f.on = l) /\ Moves(f, g) /\ f.at # "end"
  BY DoingIs
<1>2. /\ f.on = x \/ (Whole(f) /\ f.on = l /\ f.op \in {"create", "delete"})
      /\ f.op = "delete" => f.at \in {"no_template", "no_cert", "no_vport"}
      /\ f.on # x /\ f.op = "create" => f.at \in {"cert", "template", "vport"}
      /\ f.on # x /\ f.op = "delete" => f.at \in {"no_template", "no_cert"}
  BY <1>1, AtListener, ShapeIs DEF Ops
<1>3. LbOf[x] = l /\ ListenerOK(g, x)' /\ CleanListener(g, x)'
  BY <1>2, TargetListener
<1>4. FlowOK(g)'
  <2>1. CASE f.on = x
    <3>1. PartGood(g)'
      BY <2>1, PartGoodStep, ListenerTree
    <3>2. ListenerGood(g, x)'
      <4>1. f.at \notin {"active", "row", "tls_row"}
        OBVIOUS
      <4>2. QED BY <2>1, <4>1, ListenerGoodStep
    <3>3. QED BY <1>1, <2>1, <3>1, <3>2, ListenerFlow
  <2>2. CASE f.on # x /\ f.op = "create"
    <3>1. f.on = l /\ Building(f, l) /\ CreateGood(f, l) /\ l \in vs'
      <4>1. f.on = l /\ f.full /\ f.on \in LBs
        BY <1>1, <1>2, <2>2, WholeIs
      <4>2. CreateGood(f, l)
        BY <1>1, <2>2, <4>1 DEF FlowOK
      <4>3. l \in vs
        BY <1>2, <2>2, <4>1, <4>2 DEF CreateGood
      <4>4. QED BY <2>2, <4>1, <4>2, <4>3 DEF Building
    <3>2. \A y \in ListenersOf(l) : /\ y # f.cur => template'[y] = template[y]
                                    /\ y \in vports => y \in vports'
                                    /\ y \in sslOn => y \in sslOn'
      BY <1>2, <2>2 DEF SameListener, ListenersOf
    <3>3. f.cur \notin Policies
      BY ListenerTree
    <3>4. CreateGood(g, l)'
      BY <1>1, <1>2, <2>2, <3>1, <3>2, <3>3, CreateDevice
    <3>5. QED BY <1>1, <2>2, <3>1, <3>4, LbFlow DEF Building
  <2>3. CASE f.on # x /\ f.op = "delete"
    <3>1. f.on = l /\ f.at \in {"no_template", "no_cert"}
      BY <1>2, <2>3
    <3>2. \A y \in Listeners : TlsInv(y)'
      BY DEF Inv
    <3>3. DeleteGood(g, l)'
      BY <2>3, <3>1, <3>2, DeleteGoodStep
    <3>4. QED BY <1>1, <2>3, <3>1, <3>3, LbFlow
  <2>4. QED BY <1>2, <2>1, <2>2, <2>3
<1>5. f.at \notin {"active", "lb_row", "vs"}
  OBVIOUS
<1>6. \A y \in Listeners : \/ SameListener(y)
                           \/ LbOf[y] = l /\ ListenerOK(g, y)' /\ CleanListener(g, y)'
  BY <1>3
<1>7. QED BY <1>4, <1>5, <1>6, DeviceWorked

-----------------------------------------------------------------------------
(* The tasks about certificates, templates and ports.                      *)
(* The slot s is at work for the load balancer l.                          *)
Works(s, l, f, g) == f = flow[s] /\ g = flow'[s] /\ Doing(l, f, g) /\ Inv /\ Inv'

LEMMA WorksIs ==
  ASSUME ShapeAssumption, NEW s \in Slots, NEW l \in LBs, NEW f \in Flows, NEW g \in Flows, Works(s, l, f, g)
  PROVE  /\ f = flow[s] /\ g = flow'[s] /\ Doing(l, f, g) /\ Typed /\ Typed' /\ Inv /\ Inv'
         /\ \A y \in Listeners : TlsInv(y)
         /\ Target(s) = f.cur /\ \A x : CertFor(s, x) = IF f.on = x THEN f.cert ELSE tls[x]
  BY InvIs DEF Works, Target, CertFor, Inv, Typed, TypeOK

LEMMA PutCertTask ==
  ASSUME ShapeAssumption, NEW s \in Slots, NEW l \in LBs, NEW f \in Flows, NEW g \in Flows, Works(s, l, f, g), PutCert(s)
  PROVE  Worked(l, g)
<1>1. f.at = "cert" /\ f.cur \in Listeners
  BY WorksIs, DoingIs, Places DEF PutCert, At
<1>2. status' = status /\ revived' = revived /\ overlapped' = overlapped /\ vs' = vs /\ tls' = tls /\ template' = template
      /\ scripts' = scripts /\ inScript' = inScript /\ vports' = vports /\ sslOn' = sslOn /\ bound' = bound
      /\ bare' = bare /\ unbound' = unbound
  BY DEF PutCert, port, hist
<1>3. (\A y \in Listeners : SameListener(y)) /\ (\A p \in Policies : SamePolicy(p) /\ (ListenerOf[p] \in vports' => ListenerOf[p] \in vports))
  BY <1>2 DEF SameListener, SamePolicy
<1>4. QED BY <1>1, <1>2, <1>3, WorksIs, ListenerTask

LEMMA PutTemplateTask ==
  ASSUME ShapeAssumption, NEW s \in Slots, NEW l \in LBs, NEW f \in Flows, NEW g \in Flows, Works(s, l, f, g), PutTemplate(s)
  PROVE  Worked(l, g)
<1>1. f.at = "template" /\ f.cur \in Listeners
  BY WorksIs, DoingIs, Places DEF PutTemplate, At
<1>2. status' = status /\ revived' = revived /\ overlapped' = overlapped /\ vs' = vs /\ tls' = tls
      /\ scripts' = scripts /\ inScript' = inScript /\ vports' = vports /\ sslOn' = sslOn /\ bound' = bound
      /\ bare' = bare /\ unbound' = unbound /\ template' = [template EXCEPT ![Target(s)] = CertFor(s, Target(s))]
  BY DEF PutTemplate, port, hist
<1>6. Target(s) = f.cur /\ CertFor(s, f.cur) = IF f.on = f.cur THEN f.cert ELSE tls[f.cur]
  BY WorksIs
<1>3. template'[f.cur] = (IF f.on = f.cur THEN f.cert ELSE tls[f.cur]) /\ \A y \in Listeners \ {f.cur} : template'[y] = template[y]
  BY <1>1, <1>2, <1>6, WorksIs DEF Typed
<1>4. (\A y \in Listeners \ {f.cur} : SameListener(y)) /\ (\A p \in Policies : SamePolicy(p) /\ (ListenerOf[p] \in vports' => ListenerOf[p] \in vports))
  BY <1>2, <1>3 DEF SameListener, SamePolicy
<1>5. QED BY <1>1, <1>2, <1>3, <1>4, WorksIs, ListenerTask

LEMMA UpdateTemplateTask ==
  ASSUME ShapeAssumption, NEW s \in Slots, NEW l \in LBs, NEW f \in Flows, NEW g \in Flows, Works(s, l, f, g), UpdateTemplate(s)
  PROVE  Worked(l, g)
<1>1. f.at = "new_template" /\ f.cur \in Listeners /\ f.on = f.cur
  BY WorksIs, DoingIs, Places, AtListener, ShapeIs DEF UpdateTemplate, At, Ops
<1>2. status' = status /\ revived' = revived /\ overlapped' = overlapped /\ vs' = vs /\ tls' = tls
      /\ scripts' = scripts /\ inScript' = inScript /\ vports' = vports /\ sslOn' = sslOn /\ bound' = bound
      /\ bare' = bare /\ unbound' = unbound
  BY DEF UpdateTemplate, port
<1>3. template'[f.cur] \in {None, f.cert} /\ \A y \in Listeners \ {f.cur} : template'[y] = template[y]
  <2>1. (template[f.cur] = None /\ template' = template) \/ template' = [template EXCEPT ![f.cur] = f.cert]
    BY <1>1, WorksIs DEF UpdateTemplate
  <2>2. QED BY <1>1, <2>1, WorksIs DEF Typed
<1>4. (\A y \in Listeners \ {f.cur} : SameListener(y)) /\ (\A p \in Policies : SamePolicy(p) /\ (ListenerOf[p] \in vports' => ListenerOf[p] \in vports))
  BY <1>2, <1>3 DEF SameListener, SamePolicy
<1>5. QED BY <1>1, <1>2, <1>3, <1>4, WorksIs, ListenerTask

LEMMA DeleteTemplateTask ==
  ASSUME ShapeAssumption, NEW s \in Slots, NEW l \in LBs, NEW f \in Flows, NEW g \in Flows, Works(s, l, f, g), DeleteTemplate(s)
  PROVE  Worked(l, g)
<1>1. f.at = "no_template" /\ f.cur \in Listeners
  BY WorksIs, DoingIs, Places DEF DeleteTemplate, At
<1>2. status' = status /\ revived' = revived /\ overlapped' = overlapped /\ vs' = vs /\ tls' = tls
      /\ template' = [template EXCEPT ![f.cur] = None] /\ sslOn' = sslOn \ {f.cur}
      /\ scripts' = scripts /\ inScript' = inScript /\ vports' = vports /\ bound' = bound
      /\ bare' = bare /\ unbound' = unbound
  BY WorksIs DEF DeleteTemplate, hist
<1>3. template'[f.cur] = None /\ \A y \in Listeners \ {f.cur} : template'[y] = template[y]
  BY <1>1, <1>2, WorksIs DEF Typed
<1>4. (\A y \in Listeners \ {f.cur} : SameListener(y)) /\ (\A p \in Policies : SamePolicy(p) /\ (ListenerOf[p] \in vports' => ListenerOf[p] \in vports))
  BY <1>2, <1>3 DEF SameListener, SamePolicy
<1>5. QED BY <1>1, <1>2, <1>3, <1>4, WorksIs, ListenerTask

LEMMA DeleteCertTask ==
  ASSUME ShapeAssumption, NEW s \in Slots, NEW l \in LBs, NEW f \in Flows, NEW g \in Flows, Works(s, l, f, g), DeleteCert(s)
  PROVE  Worked(l, g)
<1>1. f.at = "no_cert" /\ f.cur \in Listeners
  BY WorksIs, DoingIs, Places DEF DeleteCert, At
<1>2. status' = status /\ revived' = revived /\ overlapped' = overlapped /\ vs' = vs /\ tls' = tls /\ template' = template
      /\ scripts' = scripts /\ inScript' = inScript /\ vports' = vports /\ sslOn' = sslOn /\ bound' = bound
      /\ bare' = bare /\ unbound' = unbound
  BY DEF DeleteCert, port, hist
<1>3. (\A y \in Listeners : SameListener(y)) /\ (\A p \in Policies : SamePolicy(p) /\ (ListenerOf[p] \in vports' => ListenerOf[p] \in vports))
  BY <1>2 DEF SameListener, SamePolicy
<1>4. QED BY <1>1, <1>2, <1>3, WorksIs, ListenerTask

(* What a new port listens for has no policies yet, or none that is ACTIVE.*)
LEMMA CreatePortTask ==
  ASSUME ShapeAssumption, NEW s \in Slots, NEW l \in LBs, NEW f \in Flows, NEW g \in Flows, Works(s, l, f, g), CreatePort(s)
  PROVE  Worked(l, g)
<1>1. f.at = "vport" /\ f.cur \in Listeners
  BY WorksIs, DoingIs, Places DEF CreatePort, At
<1> DEFINE x == f.cur
<1>2. status' = status /\ revived' = revived /\ overlapped' = overlapped /\ vs' = vs /\ tls' = tls /\ template' = template
      /\ scripts' = scripts /\ inScript' = inScript /\ bound' = bound /\ bare' = bare /\ unbound' = unbound
      /\ vports' = vports \cup {x} /\ (tls[x] # None => sslOn' = sslOn \cup {x}) /\ (tls[x] = None => sslOn' = sslOn)
  <2>1. Target(s) = x
    BY WorksIs
  <2>2. QED BY <2>1 DEF CreatePort, files, hist
<1>3. \A y \in Listeners \ {x} : SameListener(y)
  BY <1>2 DEF SameListener
<1>4. /\ Shape(f) /\ Lb(f.on) = l /\ LbGood(f, l) /\ g.op = f.op /\ g.on = f.on /\ FlowOK(f) /\ f.step = "run"
      /\ f.on \in LBs => f.on = l
  BY WorksIs, DoingIs
<1>5. ASSUME NEW p \in Policies, ListenerOf[p] = x
      PROVE  LbOf[ListenerOf[p]] = l /\ PolicyOK(g, p)' /\ CleanPolicy(p)'
  <2>1. LbOf[x] = l /\ p \in Under(x) /\ Up(p) = x /\ p \in Parts
    BY <1>1, <1>4, <1>5, ShapeIs, ListenerTree, PolicyTree DEF Under, Below
  <2>2. CleanPolicy(p) /\ SamePolicy(p)
    BY <1>2, <1>4, <1>5, <2>1 DEF LbGood, SamePolicy
  <2>3. CleanPolicy(p)'
    BY <1>2, <2>2 DEF CleanPolicy, RulesOf
  <2>4. f.op = "create"
    BY <1>1, <1>4, AtListener, ShapeIs DEF Ops
  <2>5. status[p] = "NEW" \/ (status[p] = "PENDING" /\ f.on = l)
    <3>1. CASE f.on = x
      BY <1>1, <1>4, <2>1, <2>4, <3>1 DEF FlowOK, ListenerGood
    <3>2. CASE f.on # x
      <4>1. Whole(f) /\ f.on = l /\ f.full /\ Nested(f) /\ f.on \in LBs
        BY <1>1, <1>4, <2>4, <3>2, AtListener, WholeIs
      <4>2. p \in f.rest
        BY <1>1, <2>1, <4>1 DEF Nested
      <4>3. p \in Under(l)
        BY <1>5, <2>1, BelowLb
      <4>4. CreateGood(f, l)
        BY <1>4, <2>4, <4>1 DEF FlowOK
      <4>5. QED BY <4>1, <4>2, <4>3, <4>4 DEF CreateGood
    <3>3. QED BY <3>1, <3>2
  <2>6. l \notin RulesOf(p)
    BY RuleTree DEF RulesOf
  <2>7. PolicyOK(g, p)'
    BY <1>2, <1>4, <2>5, <2>6 DEF PolicyOK, RulesOf
  <2>8. QED BY <1>5, <2>1, <2>3, <2>7
<1>6. ASSUME NEW p \in Policies, ListenerOf[p] # x
      PROVE  SamePolicy(p) /\ (ListenerOf[p] \in vports' => ListenerOf[p] \in vports)
  BY <1>2, <1>6 DEF SamePolicy
<1>7. x \in vports' /\ (tls[x] # None => x \in sslOn') /\ (x \in sslOn => x \in sslOn') /\ bound \subseteq bound'
      /\ template'[x] = template[x]
  BY <1>2
<1>8. QED BY <1>1, <1>2, <1>3, <1>5, <1>6, <1>7, WorksIs, ListenerTask

(* The policies of a port that is replaced lose it, which is remembered.   *)
LEMMA ReplacePortTask ==
  ASSUME ShapeAssumption, NEW s \in Slots, NEW l \in LBs, NEW f \in Flows, NEW g \in Flows, Works(s, l, f, g), ReplacePort(s)
  PROVE  Worked(l, g)
<1>1. f.at = "replace" /\ f.cur \in Listeners
  BY WorksIs, DoingIs, Places DEF ReplacePort, At
<1> DEFINE x == f.cur
<1>2. status' = status /\ revived' = revived /\ overlapped' = overlapped /\ vs' = vs /\ tls' = tls /\ template' = template
      /\ scripts' = scripts /\ inScript' = inScript /\ vports' = vports /\ x \in vports
      /\ bound' = bound \ PoliciesOf(x) /\ unbound' = unbound \cup (bound \cap PoliciesOf(x))
      /\ (tls[x] # None => sslOn' = sslOn \cup {x}) /\ (tls[x] = None => sslOn' = sslOn) /\ bare' = bare \ {x}
  <2>1. Target(s) = x
    BY WorksIs
  <2>2. QED BY <2>1 DEF ReplacePort, files
<1>3. \A y \in Listeners \ {x} : SameListener(y)
  BY <1>2 DEF SameListener
<1>4. /\ Shape(f) /\ Lb(f.on) = l /\ LbGood(f, l) /\ g.op = f.op /\ g.on = f.on
  BY WorksIs, DoingIs
<1>5. ASSUME NEW p \in Policies, ListenerOf[p] = x
      PROVE  LbOf[ListenerOf[p]] = l /\ PolicyOK(g, p)' /\ CleanPolicy(p)'
  <2>1. LbOf[x] = l
    BY <1>1, <1>4, ShapeIs, ListenerTree
  <2>2. CleanPolicy(p) /\ PolicyOK(f, p)
    BY <1>4, <1>5, <2>1 DEF LbGood
  <2>3. CleanPolicy(p)'
    BY <1>2, <2>2 DEF CleanPolicy, RulesOf
  <2>4. Live(g, l)' <=> Live(f, l)
    BY <1>2, <1>4, LiveFrame
  <2>5. p \in bound \cup unbound => p \in bound' \cup unbound'
    BY <1>2, <1>5 DEF PoliciesOf
  <2>6. Listed(p)' <=> Listed(p)
    BY <1>2 DEF Listed, RulesOf
  <2>7. PolicyOK(g, p)'
    BY <1>2, <1>4, <1>5, <2>1, <2>2, <2>4, <2>5, <2>6 DEF PolicyOK, RulesOf
  <2>8. QED BY <1>5, <2>1, <2>3, <2>7
<1>6. ASSUME NEW p \in Policies, ListenerOf[p] # x
      PROVE  SamePolicy(p) /\ (ListenerOf[p] \in vports' => ListenerOf[p] \in vports)
  BY <1>2, <1>6 DEF SamePolicy, PoliciesOf
<1>7. x \in vports' /\ (tls[x] # None => x \in sslOn') /\ (x \in sslOn => x \in sslOn') /\ template'[x] = template[x]
  BY <1>2
<1>8. QED BY <1>1, <1>2, <1>3, <1>5, <1>6, <1>7, WorksIs, ListenerTask

LEMMA DeletePortTask ==
  ASSUME ShapeAssumption, NEW s \in Slots, NEW l \in LBs, NEW f \in Flows, NEW g \in Flows, Works(s, l, f, g), DeletePort(s)
  PROVE  Worked(l, g)
<1>1. f.at = "no_vport" /\ f.cur \in Listeners
  BY WorksIs, DoingIs, Places DEF DeletePort, At
<1> DEFINE x == f.cur
<1>2. status' = status /\ revived' = revived /\ overlapped' = overlapped /\ vs' = vs /\ tls' = tls /\ template' = template
      /\ scripts' = scripts /\ inScript' = inScript /\ bare' = bare /\ unbound' = unbound
      /\ vports' = vports \ {x} /\ sslOn' = sslOn \ {x} /\ bound' = bound \ PoliciesOf(x)
  BY WorksIs DEF DeletePort, files, hist
<1>3. \A y \in Listeners \ {x} : SameListener(y)
  BY <1>2 DEF SameListener
<1>4. Shape(f) /\ Lb(f.on) = l /\ LbGood(f, l)
  BY WorksIs, DoingIs
<1>5. ASSUME NEW p \in Policies, ListenerOf[p] = x
      PROVE  LbOf[ListenerOf[p]] = l /\ PolicyOK(g, p)' /\ CleanPolicy(p)'
  <2>1. LbOf[x] = l
    BY <1>1, <1>4, ShapeIs, ListenerTree
  <2>2. CleanPolicy(p)
    BY <1>4, <1>5, <2>1 DEF LbGood
  <2>3. CleanPolicy(p)'
    BY <1>2, <2>2 DEF CleanPolicy, RulesOf
  <2>4. PolicyOK(g, p)'
    BY <1>2, <1>5 DEF PolicyOK
  <2>5. QED BY <1>5, <2>1, <2>3, <2>4
<1>6. ASSUME NEW p \in Policies, ListenerOf[p] # x
      PROVE  SamePolicy(p) /\ (ListenerOf[p] \in vports' => ListenerOf[p] \in vports)
  BY <1>2, <1>6 DEF SamePolicy, PoliciesOf
<1>7. x \notin vports' /\ template'[x] = template[x]
  BY <1>2
<1>8. QED BY <1>1, <1>2, <1>3, <1>5, <1>6, <1>7, WorksIs, ListenerTask

-----------------------------------------------------------------------------
(* The tasks about policies and rules.                                     *)
LEMMA PolicyOfTask ==
  ASSUME ShapeAssumption, NEW l \in LBs, NEW f \in Flows, NEW g \in Flows, Doing(l, f, g), f.cur \in Policies \cup Rules,
         NEW p, p = PolicyAt(f.cur)
  PROVE  /\ p \in Policies /\ LbOf[ListenerOf[p]] = l /\ (f.cur \in Policies => p = f.cur)
         /\ f.cur \in Rules => f.cur \in RulesOf(p)
         /\ f.at \in {"script", "bind", "script_without"} /\ f.op # "delete" => status[p] = "PENDING"
         /\ f.cur \in Rules /\ f.on = f.cur /\ f.at # "active" => status[p] = "PENDING" /\ status[f.cur] = "PENDING"
         /\ f.op = "delete" /\ f.cur \in Rules => f.on = f.cur
         /\ p \in Chain(f.cur)
<1>1. Shape(f) /\ Lb(f.on) = l /\ LbGood(f, l) /\ f.step = "run" /\ Lb(f.cur) = l /\ f.cur \in Objects
  BY DoingIs, ShapeIs
<1>2. /\ p \in Policies /\ LbOf[ListenerOf[p]] = l /\ (f.cur \in Policies => p = f.cur)
      /\ f.cur \in Rules => f.cur \in RulesOf(p)
      /\ p \in Chain(f.cur) /\ p # l
  BY <1>1, PolicyTree, RuleTree DEF RulesOf
<1>3. ASSUME f.on = f.cur, f.at # "active"
      PROVE  status[p] = "PENDING" /\ status[f.cur] = "PENDING"
  <2>1. f.on \notin LBs
    BY <1>3, PolicyTree, RuleTree
  <2>2. status[f.on] = "PENDING" /\ \A y \in Chain(f.on) \ {f.on} : status[y] = "PENDING"
    BY <1>1, <1>3, <2>1, StatusAt DEF OwnStatus
  <2>3. QED BY <1>2, <1>3, <2>2
<1>4. f.on = f.cur \/ Whole(f)
  BY <1>1, AtPolicy, AtRule
<1>5. ASSUME Whole(f), f.op # "delete" PROVE status[p] = "PENDING"
  <2>1. f.op = "create"
    BY <1>1, <1>5, ShapeIs, WholeIs DEF Ops
  <2>2. QED BY <1>1, <1>2, <1>5, <2>1, StatusAt
<1>6. f.op = "delete" /\ f.cur \in Rules => f.on = f.cur
  BY <1>1, AtRule
<1>7. QED BY <1>2, <1>3, <1>4, <1>5, <1>6

LEMMA PolicyTask ==
  ASSUME ShapeAssumption, Inv', NEW l \in LBs, NEW f \in Flows, NEW g \in Flows, Doing(l, f, g),
         f.cur \in Policies \cup Rules, NEW p, p = PolicyAt(f.cur),
         f.at \in {"script", "script_without", "bind", "unbind", "no_script"},
         status' = status, revived' = revived, overlapped' = overlapped, vs' = vs, tls' = tls, template' = template,
         vports' = vports,
         \A x \in Listeners : SameListener(x) \/ (LbOf[x] = l /\ ListenerOK(g, x)' /\ CleanListener(g, x)'),
         \A q \in Policies \ {p} : SamePolicy(q),
         PolicyOK(g, p)', CleanPolicy(p)',
         f.at = "script" => p \in scripts' /\ Rows(RulesOf(p)) \subseteq inScript' /\ scripts \subseteq scripts'
                            /\ bound \subseteq bound' /\ sslOn' = sslOn,
         f.at = "bind" => scripts' = scripts /\ inScript' = inScript /\ p \in bound' /\ bound \subseteq bound' /\ sslOn' = sslOn,
         f.at = "no_script" => p \notin scripts',
         f.at = "script_without" => f.cur \notin inScript'
  PROVE  Worked(l, g)
<1>1. /\ Shape(f) /\ Shape(g) /\ Lb(f.on) = l /\ f.step = "run" /\ LbGood(f, l) /\ g.op = f.op /\ g.on = f.on
      /\ FlowOK(f) /\ (f.on \in LBs => f.on = l) /\ Moves(f, g) /\ f.at # "end" /\ f.op \in Ops
  BY DoingIs, ShapeIs
<1>2. /\ p \in Policies /\ LbOf[ListenerOf[p]] = l /\ (f.cur \in Policies => p = f.cur)
      /\ f.cur \in Rules => f.cur \in RulesOf(p)
      /\ f.cur \in Rules /\ f.on = f.cur => status[f.cur] = "PENDING"
  BY PolicyOfTask
<1>3. f.on = f.cur \/ (Whole(f) /\ f.on = l /\ (f.op = "create" \/ (f.op = "delete" /\ f.at \in {"unbind", "no_script"})))
  <2>1. CASE f.cur \in Policies
    BY <1>1, <2>1, AtPolicy DEF Ops, Whole
  <2>2. CASE f.cur \in Rules
    BY <1>1, <2>2, AtRule DEF Ops, Whole
  <2>3. QED BY <2>1, <2>2
<1>4. FlowOK(g)'
  <2>1. CASE f.on = f.cur /\ f.cur \in Policies
    <3>1. PartGood(g)'
      BY <2>1, PartGoodStep, PolicyTree
    <3>2. \A r \in RulesOf(p) : f.at = "script" /\ status[r] = "ACTIVE" => r \in inScript'
      BY DEF Rows, HasRow
    <3>3. PolicyGood(g, p)'
      BY <1>2, <2>1, <3>2, PolicyGoodStep
    <3>4. QED BY <1>1, <1>2, <2>1, <3>1, <3>3, PolicyFlow
  <2>2. CASE f.on = f.cur /\ f.cur \in Rules
    <3>1. PartGood(g)'
      BY <2>2, PartGoodStep, RuleTree
    <3>2. f.at = "script" => f.cur \in inScript'
      BY <1>2, <2>2 DEF Rows, HasRow
    <3>3. RuleGood(g, f.cur)'
      BY <2>2, <3>2, RuleGoodStep
    <3>4. QED BY <1>1, <2>2, <3>1, <3>3, RuleFlow
  <2>3. CASE f.on # f.cur /\ f.op = "create"
    <3>1. f.on = l /\ f.full /\ f.on \in LBs /\ Building(f, l)
      BY <1>1, <1>3, <2>3, WholeIs DEF Building
    <3>2. f.at \in {"script", "bind"}
      BY <1>1, <2>3, AtPolicy, AtRule
    <3>3. CreateGood(f, l) /\ l \in vs'
      BY <1>1, <2>3, <3>1, <3>2 DEF FlowOK, CreateGood
    <3>4. RulesOf(p) \subseteq inScript' \/ f.at = "bind"
      <4>1. \A r \in RulesOf(p) : r \in Under(l)
        BY <1>2, BelowLb DEF RulesOf
      <4>2. \A r \in RulesOf(p) : r \in Rows(RulesOf(p))
        BY <3>1, <3>3, <4>1 DEF CreateGood, Rows, HasRow
      <4>3. QED BY <3>2, <4>2
    <3>5. \A q \in Policies : LbOf[ListenerOf[q]] = l /\ RulesOf(q) \subseteq inScript => RulesOf(q) \subseteq inScript'
      BY <3>4 DEF SamePolicy
    <3>6. f.cur \notin Listeners
      BY PolicyTree, RuleTree
    <3>7. \A x \in ListenersOf(l) : /\ x # f.cur => template'[x] = template[x]
                                    /\ x \in vports => x \in vports'
                                    /\ x \in sslOn => x \in sslOn'
      BY <3>2
    <3>8. \A x \in Listeners : TlsInv(x)
      <4>1. \A x \in Listeners : TlsInv(x)'
        BY DEF Inv
      <4>2. QED BY <4>1 DEF TlsInv
    <3>9. CreateGood(g, l)'
      BY <1>1, <1>2, <3>1, <3>2, <3>3, <3>4, <3>5, <3>6, <3>7, <3>8, CreateDevice
    <3>10. QED BY <1>1, <2>3, <3>1, <3>9, LbFlow
  <2>4. CASE f.on # f.cur /\ f.op = "delete"
    <3>1. f.on = l /\ f.at \in {"unbind", "no_script"} /\ f.cur \notin Listeners
      BY <1>3, <2>4, PolicyTree, RuleTree
    <3>2. \A y \in Listeners : TlsInv(y)'
      BY DEF Inv
    <3>3. DeleteGood(g, l)'
      BY <2>4, <3>1, <3>2, DeleteGoodStep
    <3>4. QED BY <1>1, <2>4, <3>1, <3>3, LbFlow
  <2>5. QED BY <1>3, <2>1, <2>2, <2>3, <2>4
<1>5. f.at \notin {"active", "lb_row", "vs"}
  OBVIOUS
<1>6. \A q \in Policies : \/ SamePolicy(q) /\ (ListenerOf[q] \in vports' => ListenerOf[q] \in vports)
                          \/ LbOf[ListenerOf[q]] = l /\ PolicyOK(g, q)' /\ CleanPolicy(q)'
  BY <1>2
<1>7. QED BY <1>4, <1>5, <1>6, DeviceWorked

LEMMA ImportTask ==
  ASSUME ShapeAssumption, NEW s \in Slots, NEW l \in LBs, NEW f \in Flows, NEW g \in Flows, Works(s, l, f, g),
         f.cur \in Policies \cup Rules, NEW p, p = PolicyAt(f.cur), NEW R, Import(s, R),
         \/ f.at = "script" /\ R = Rows(RulesOf(p)) /\ f.op # "delete"
         \/ f.at = "script_without" /\ R = Rows(RulesOf(p)) \ {f.cur} /\ f.op = "delete" /\ f.cur \in Rules
  PROVE  Worked(l, g)
<1>1. status' = status /\ revived' = revived /\ overlapped' = overlapped /\ vs' = vs /\ tls' = tls /\ template' = template
      /\ vports' = vports /\ sslOn' = sslOn /\ bound' = bound /\ bare' = bare /\ unbound' = unbound
      /\ scripts' = scripts \cup {p} /\ inScript' = (inScript \ RulesOf(p)) \cup R
  BY WorksIs DEF Import, port, hist
<1>2. /\ Shape(f) /\ Lb(f.on) = l /\ LbGood(f, l) /\ g.op = f.op /\ g.on = f.on
  BY WorksIs, DoingIs
<1>3. /\ p \in Policies /\ LbOf[ListenerOf[p]] = l /\ status[p] = "PENDING"
      /\ f.cur \in Rules /\ f.op = "delete" => status[f.cur] = "PENDING"
  BY WorksIs, PolicyOfTask
<1>4. \A x \in Listeners : SameListener(x)
  BY <1>1 DEF SameListener
<1>5. \A q \in Policies \ {p} : SamePolicy(q)
  BY <1>1 DEF SamePolicy, RulesOf, Rows
<1>6. PolicyOK(f, p) /\ (Live(g, l)' <=> Live(f, l))
  BY <1>1, <1>2, <1>3, LiveFrame DEF LbGood
<1>7. Listed(p)' /\ CleanPolicy(p)'
  BY <1>1, <1>3 DEF Listed, CleanPolicy, RulesOf, Rows, HasRow
<1>8. PolicyOK(g, p)'
  BY <1>1, <1>2, <1>3, <1>6, <1>7 DEF PolicyOK, RulesOf
<1>9. f.at = "script" => Rows(RulesOf(p)) \subseteq inScript' /\ p \in scripts' /\ scripts \subseteq scripts'
  BY <1>1
<1>10. f.at = "script_without" => f.cur \notin inScript'
  <2>1. f.cur \in Rules => f.cur \in RulesOf(p)
    BY WorksIs, PolicyOfTask
  <2>2. QED BY <1>1, <2>1
<1>11. f.at \in {"script", "script_without"} /\ bound \subseteq bound'
  BY <1>1
<1>12. QED BY <1>1, <1>4, <1>5, <1>7, <1>8, <1>9, <1>10, <1>11, WorksIs, PolicyTask

LEMMA ScriptTask ==
  ASSUME ShapeAssumption, NEW s \in Slots, NEW l \in LBs, NEW f \in Flows, NEW g \in Flows, Works(s, l, f, g),
         PutScript(s) \/ PutScriptWithout(s)
  PROVE  Worked(l, g)
<1>1. Shape(f) /\ Target(s) = f.cur /\ f = flow[s] /\ f.op \in Ops
  BY WorksIs, DoingIs, ShapeIs
<1>2. CASE PutScript(s)
  <2>1. f.at = "script"
    BY <1>1, <1>2 DEF PutScript, At
  <2>2. f.cur \in Policies \cup Rules
    BY <1>1, <2>1, Places
  <2>3. f.op # "delete"
    <3>1. CASE f.cur \in Policies
      BY <1>1, <2>1, <3>1, AtPolicy
    <3>2. CASE f.cur \in Rules
      BY <1>1, <2>1, <3>2, AtRule
    <3>3. QED BY <2>2, <3>1, <3>2
  <2>4. Import(s, Rows(RulesOf(PolicyAt(f.cur))))
    BY <1>1, <1>2 DEF PutScript
  <2>5. QED BY <2>1, <2>2, <2>3, <2>4, ImportTask
<1>3. CASE PutScriptWithout(s)
  <2>1. f.at = "script_without"
    BY <1>1, <1>3 DEF PutScriptWithout, At
  <2>2. f.cur \in Rules /\ f.op = "delete"
    BY <1>1, <2>1, Places
  <2>3. Import(s, Rows(RulesOf(PolicyAt(f.cur))) \ {f.cur})
    BY <1>1, <1>3 DEF PutScriptWithout
  <2>4. QED BY <2>1, <2>2, <2>3, ImportTask
<1>4. QED BY <1>2, <1>3

LEMMA BindTask ==
  ASSUME ShapeAssumption, NEW s \in Slots, NEW l \in LBs, NEW f \in Flows, NEW g \in Flows, Works(s, l, f, g), Bind(s)
  PROVE  Worked(l, g)
<1>1. f.at = "bind" /\ f.cur \in Policies \cup Rules /\ Target(s) = f.cur
  BY WorksIs, DoingIs, Places DEF Bind, At
<1> DEFINE p == PolicyAt(f.cur)
<1>2. status' = status /\ revived' = revived /\ overlapped' = overlapped /\ vs' = vs /\ tls' = tls /\ template' = template
      /\ vports' = vports /\ sslOn' = sslOn /\ bare' = bare /\ scripts' = scripts /\ inScript' = inScript
      /\ bound' = bound \cup {p} /\ unbound' = unbound \ {p}
  BY <1>1 DEF Bind, files
<1>3. Shape(f) /\ Lb(f.on) = l /\ LbGood(f, l) /\ g.op = f.op /\ g.on = f.on
  BY WorksIs, DoingIs
<1>4. p \in Policies /\ LbOf[ListenerOf[p]] = l
  BY <1>1, WorksIs, PolicyOfTask
<1>5. (\A x \in Listeners : SameListener(x)) /\ (\A q \in Policies \ {p} : SamePolicy(q))
  BY <1>2 DEF SameListener, SamePolicy
<1>6. PolicyOK(f, p) /\ CleanPolicy(p) /\ (Live(g, l)' <=> Live(f, l))
  BY <1>2, <1>3, <1>4, LiveFrame DEF LbGood
<1>7. CleanPolicy(p)' /\ (Listed(p)' <=> Listed(p))
  BY <1>2, <1>6 DEF CleanPolicy, Listed, RulesOf
<1>8. PolicyOK(g, p)'
  BY <1>2, <1>3, <1>4, <1>6, <1>7 DEF PolicyOK, RulesOf
<1>9. p \in bound' /\ bound \subseteq bound'
  BY <1>2
<1>10. QED BY <1>1, <1>2, <1>5, <1>7, <1>8, <1>9, WorksIs, PolicyTask

(* Off its port, a policy leaves the port bare of its TLS template.        *)
LEMMA UnbindTask ==
  ASSUME ShapeAssumption, NEW s \in Slots, NEW l \in LBs, NEW f \in Flows, NEW g \in Flows, Works(s, l, f, g), Unbind(s)
  PROVE  Worked(l, g)
<1>1. f.at = "unbind" /\ f.cur \in Policies /\ f.op = "delete" /\ Target(s) = f.cur
  BY WorksIs, DoingIs, Places DEF Unbind, At
<1> DEFINE p == f.cur
<1> DEFINE x == ListenerOf[p]
<1>2. status' = status /\ revived' = revived /\ overlapped' = overlapped /\ vs' = vs /\ tls' = tls /\ template' = template
      /\ vports' = vports /\ scripts' = scripts /\ inScript' = inScript /\ unbound' = unbound
      /\ bound' = bound \ {p} /\ sslOn' = sslOn \ {x} /\ bare' = bare \cup {x} /\ x \in vports
  BY <1>1 DEF Unbind, files
<1>3. Shape(f) /\ Lb(f.on) = l /\ LbGood(f, l) /\ g.op = f.op /\ g.on = f.on /\ f.step = "run"
  BY WorksIs, DoingIs
<1>4. p \in Policies /\ LbOf[x] = l /\ x \in Listeners /\ p = PolicyAt(f.cur) /\ x \in ListenersOf(l)
  BY <1>1, WorksIs, PolicyOfTask, PolicyTree DEF ListenersOf
<1>5. \A y \in Listeners \ {x} : SameListener(y)
  BY <1>2 DEF SameListener
<1>6. \A q \in Policies \ {p} : SamePolicy(q)
  BY <1>2 DEF SamePolicy
<1>7. Live(g, l)' <=> Live(f, l)
  BY <1>2, <1>3, LiveFrame
<1>8. ListenerOK(g, x)' /\ CleanListener(g, x)'
  <2>1. CleanListener(f, x)
    BY <1>3, <1>4 DEF LbGood
  <2>2. Served(x)'
    BY <1>2 DEF Served
  <2>3. CleanListener(g, x)'
    BY <1>2, <1>4, <1>7, <2>1 DEF CleanListener, Falling
  <2>4. QED BY <2>2, <2>3 DEF ListenerOK
<1>9. ~(Live(f, l) /\ (status[p] = "ACTIVE" \/ (status[p] \in {"PENDING", "ERROR"} /\ f.on \in RulesOf(p)))) /\ CleanPolicy(p)
  BY <1>1, <1>3, <1>4, QuietPolicy DEF LbGood
<1>10. PolicyOK(g, p)' /\ CleanPolicy(p)'
  BY <1>2, <1>3, <1>4, <1>7, <1>9 DEF PolicyOK, CleanPolicy, RulesOf
<1>11. QED BY <1>1, <1>2, <1>4, <1>5, <1>6, <1>8, <1>10, WorksIs, PolicyTask

LEMMA DeleteScriptTask ==
  ASSUME ShapeAssumption, NEW s \in Slots, NEW l \in LBs, NEW f \in Flows, NEW g \in Flows, Works(s, l, f, g), DeleteScript(s)
  PROVE  Worked(l, g)
<1>1. f.at = "no_script" /\ f.cur \in Policies /\ f.op = "delete" /\ Target(s) = f.cur
  BY WorksIs, DoingIs, Places DEF DeleteScript, At
<1> DEFINE p == f.cur
<1>2. status' = status /\ revived' = revived /\ overlapped' = overlapped /\ vs' = vs /\ tls' = tls /\ template' = template
      /\ vports' = vports /\ sslOn' = sslOn /\ bare' = bare /\ unbound' = unbound
      /\ bound' = bound \ {p} /\ scripts' = scripts \ {p} /\ inScript' = inScript \ RulesOf(p)
  BY <1>1 DEF DeleteScript, hist
<1>3. Shape(f) /\ Lb(f.on) = l /\ LbGood(f, l) /\ g.op = f.op /\ g.on = f.on /\ f.step = "run"
  BY WorksIs, DoingIs
<1>4. p \in Policies /\ LbOf[ListenerOf[p]] = l /\ p = PolicyAt(f.cur)
  BY <1>1, WorksIs, PolicyOfTask, PolicyTree
<1>5. (\A y \in Listeners : SameListener(y)) /\ (\A q \in Policies \ {p} : SamePolicy(q))
  BY <1>2 DEF SameListener, SamePolicy, RulesOf
<1>6. ~(Live(f, l) /\ (status[p] = "ACTIVE" \/ (status[p] \in {"PENDING", "ERROR"} /\ f.on \in RulesOf(p)))) /\ CleanPolicy(p)
  BY <1>1, <1>3, <1>4, QuietPolicy DEF LbGood
<1>7. Live(g, l)' <=> Live(f, l)
  BY <1>2, <1>3, LiveFrame
<1>8. PolicyOK(g, p)' /\ CleanPolicy(p)'
  BY <1>2, <1>3, <1>4, <1>6, <1>7 DEF PolicyOK, CleanPolicy, RulesOf
<1>9. QED BY <1>1, <1>2, <1>4, <1>5, <1>8, WorksIs, PolicyTask

-----------------------------------------------------------------------------
(* The tasks about virtual servers.                                        *)
LEMMA LbGoodAlike ==
  ASSUME ShapeAssumption, NEW l \in LBs, NEW f \in Flows, NEW g \in Flows, Shape(f), Shape(g),
         g.op = f.op /\ g.on = f.on /\ g.cert = f.cert /\ g.full = f.full /\ g.rest = f.rest /\ g.cur = f.cur /\ g.at = f.at,
         g.read = f.read \/ f.at # "write_ports", f.step # "revert", g.step # "revert", LbGood(f, l)
  PROVE  LbGood(g, l)
<1>1. f # Idle /\ g # Idle
  BY ShapeIs
<1>2. LbStatus(g, l) /\ (Live(g, l) <=> Live(f, l)) /\ (Creates(g, l) <=> Creates(f, l))
  BY <1>1 DEF LbGood, LbStatus, Live, Creates, Deletes
<1>3. ASSUME NEW x \in ListenersOf(l) PROVE ListenerOK(g, x) /\ CleanListener(g, x)
  <2>1. LbOf[x] = l /\ ListenerOK(f, x) /\ CleanListener(f, x)
    BY BelowLb DEF LbGood
  <2>2. QED BY <1>2, <2>1 DEF ListenerOK, CleanListener, Falling
<1>4. ASSUME NEW p \in Policies, LbOf[ListenerOf[p]] = l PROVE PolicyOK(g, p) /\ CleanPolicy(p)
  <2>1. PolicyOK(f, p) /\ CleanPolicy(p)
    BY <1>4 DEF LbGood
  <2>2. QED BY <1>2, <1>4, <2>1 DEF PolicyOK
<1>5. ASSUME NEW o \in Under(l) PROVE Calm(g, o)
  <2>1. Calm(f, o) /\ Lb(o) = l
    BY BelowLb DEF LbGood
  <2>2. QED BY <1>1, <1>2, <2>1 DEF Calm
<1>6. FlowOK(g)
  <2>1. FlowOK(f)
    BY <1>1 DEF LbGood
  <2>2. f.on \notin LBs => PartGood(g)
    BY <2>1 DEF FlowOK, PartGood, OwnStatus
  <2>3. f.on \in Listeners => ListenerGood(g, f.on)
    BY <2>1 DEF FlowOK, ListenerGood
  <2>4. f.on \in Policies => PolicyGood(g, f.on)
    BY <2>1 DEF FlowOK, PolicyGood
  <2>5. f.on \in Rules => RuleGood(g, f.on)
    BY <2>1 DEF FlowOK, RuleGood
  <2>6. f.on \in LBs /\ f.op = "create" => CreateGood(g, f.on)
    <3>1. \A y, L : Passed(g, y, L) <=> Passed(f, y, L)
      BY DEF Passed
    <3>2. QED BY <2>1, <3>1 DEF FlowOK, CreateGood
  <2>7. f.on \in LBs /\ f.op = "update" => UpdateGood(g, f.on)
    BY <2>1 DEF FlowOK, UpdateGood
  <2>8. f.on \in LBs /\ f.op = "delete" => DeleteGood(g, f.on)
    BY <2>1 DEF FlowOK, DeleteGood
  <2>9. QED BY <2>2, <2>3, <2>4, <2>5, <2>6, <2>7, <2>8 DEF FlowOK
<1>7. QED BY <1>2, <1>3, <1>4, <1>5, <1>6 DEF LbGood

LEMMA CreateVsTask ==
  ASSUME ShapeAssumption, NEW s \in Slots, NEW l \in LBs, NEW f \in Flows, NEW g \in Flows, Works(s, l, f, g), CreateVs(s)
  PROVE  Worked(l, g)
<1>1. f.at = "vs" /\ f.cur \in LBs /\ Target(s) = f.cur /\ Shape(f)
  BY WorksIs, DoingIs, Places DEF CreateVs, At
<1>2. f.cur = f.on /\ f.on = l /\ f.op = "create" /\ l \notin Listeners /\ l \notin Policies /\ l \notin Rules
  BY <1>1, WorksIs, DoingIs, AtLb, ShapeIs, LbTree DEF Ops
<1>3. status' = status /\ revived' = revived /\ overlapped' = overlapped /\ tls' = tls /\ template' = template
      /\ vports' = vports /\ sslOn' = sslOn /\ bound' = bound /\ bare' = bare /\ unbound' = unbound /\ scripts' = scripts
      /\ inScript' = inScript /\ vs' = vs \cup {l}
  BY <1>1, <1>2 DEF CreateVs, files, port, hist
<1>4. (\A y \in Listeners : SameListener(y)) /\ (\A p \in Policies : SamePolicy(p) /\ (ListenerOf[p] \in vports' => ListenerOf[p] \in vports))
  BY <1>3 DEF SameListener, SamePolicy
<1>5. /\ LbGood(f, l) /\ g.op = f.op /\ g.on = f.on /\ FlowOK(f) /\ Moves(f, g) /\ f.step = "run" /\ g.step = "run"
      /\ \A y \in Listeners : TlsInv(y)
  BY WorksIs, DoingIs
<1>6. CreateGood(f, l)
  BY <1>1, <1>2, <1>5 DEF FlowOK
<1>7. CASE f.full
  <2>1. CreateGood(g, l)'
    <3>1. Building(f, l)
      BY <1>1, <1>2, <1>7 DEF Building
    <3>2. \A p \in Policies : LbOf[ListenerOf[p]] = l /\ RulesOf(p) \subseteq inScript => RulesOf(p) \subseteq inScript'
      BY <1>3
    <3>3. QED BY <1>1, <1>2, <1>3, <1>5, <1>6, <3>1, <3>2, CreateDevice
  <2>2. FlowOK(g)'
    BY <1>1, <1>2, <1>5, <2>1, LbFlow
  <2>3. Live(f, l) /\ l \in vs => l \in vs'
    BY <1>3
  <2>4. \A m \in LBs \ {l} : m \in vs' <=> m \in vs
    BY <1>3
  <2>5. QED BY <1>1, <1>3, <1>4, <1>7, <2>2, <2>3, <2>4, WorksIs, DeviceWorked
<1>8. CASE ~f.full
  <2>1. Ending(g)
    <3>1. Succ(f) = "end"
      BY <1>1, <1>2, <1>8, SuccLb
    <3>2. g.at = "end"
      BY <1>2, <1>5, <3>1 DEF Moves, Stays
    <3>3. QED BY <1>5, <3>2 DEF Ending
  <2>2. Ended(g)'
    BY <1>1, <1>2, <1>5, LbTree DEF Ended
  <2>3. \A o \in Under(l) : status'[o] = "NEW" /\ status[o] = "NEW"
    BY <1>3, <1>6, <1>8 DEF CreateGood
  <2>4. ASSUME NEW x \in ListenersOf(l) PROVE ListenerOK(Idle, x)' /\ CleanListener(Idle, x)'
    <3>1. status'[x] = "NEW" /\ status[x] = "NEW" /\ CleanListener(f, x)
      BY <1>5, <2>3, BelowLb DEF LbGood
    <3>2. QED BY <1>3, <3>1 DEF ListenerOK, CleanListener
  <2>5. ASSUME NEW p \in Policies, LbOf[ListenerOf[p]] = l PROVE PolicyOK(Idle, p)' /\ CleanPolicy(p)'
    <3>1. status'[p] = "NEW" /\ CleanPolicy(p)
      BY <1>5, <2>3, <2>5, BelowLb DEF LbGood
    <3>2. QED BY <1>3, <3>1 DEF PolicyOK, CleanPolicy, RulesOf
  <2>6. \A o \in Under(l) : Calm(Idle, o)'
    BY <2>3 DEF Calm
  <2>7. LbGood(Idle, l)'
    BY <1>3, <2>4, <2>5, <2>6 DEF LbGood, LbStatus, ListenersOf, Under, Below, Chain, PolicyAt, ListenerAt, Lb, Objects, Idle
  <2>8. \A m \in LBs \ {l} : Untouched(m)
    BY <1>3, <1>4 DEF Untouched, SameStatus, ListenersOf
  <2>9. QED BY <1>3, <2>1, <2>2, <2>7, <2>8 DEF Worked
<1>9. QED BY <1>7, <1>8

LEMMA DeleteVsTask ==
  ASSUME ShapeAssumption, NEW s \in Slots, NEW l \in LBs, NEW f \in Flows, NEW g \in Flows, Works(s, l, f, g), DeleteVs(s)
  PROVE  Worked(l, g)
<1>1. f.at = "no_vs" /\ f.cur \in LBs /\ Target(s) = f.cur /\ Shape(f) /\ Lb(f.on) = l
  BY WorksIs, DoingIs, Places DEF DeleteVs, At
<1>2. f.cur = f.on /\ f.on = l /\ f.op = "delete" /\ l \notin Listeners /\ l \notin Policies /\ l \notin Rules
  BY <1>1, WorksIs, DoingIs, AtLb, ShapeIs, LbTree DEF Ops
<1>3. status' = status /\ revived' = revived /\ overlapped' = overlapped /\ tls' = tls /\ template' = template
      /\ bare' = bare /\ unbound' = unbound /\ scripts' = scripts /\ inScript' = inScript
      /\ vs' = vs \ {l} /\ vports' = vports \ ListenersOf(l) /\ sslOn' = sslOn \ ListenersOf(l)
      /\ bound' = {p \in bound : LbOf[ListenerOf[p]] # l}
  BY <1>1, <1>2 DEF DeleteVs, DropVs, files, hist
<1>4. LbGood(f, l) /\ g.op = f.op /\ g.on = f.on /\ f.step = "run"
  BY WorksIs, DoingIs
<1>5. ~Live(f, l) /\ ~Live(g, l)'
  <2>1. ~Live(f, l)
    BY <1>1, <1>2, <1>4, StatusAt
  <2>2. QED BY <1>3, <1>4, <2>1, LiveFrame
<1>6. ASSUME NEW x \in Listeners
      PROVE  SameListener(x) \/ (LbOf[x] = l /\ ListenerOK(g, x)' /\ CleanListener(g, x)')
  <2>1. CASE LbOf[x] # l
    BY <1>3, <2>1 DEF SameListener, ListenersOf
  <2>2. CASE LbOf[x] = l
    <3>1. CleanListener(f, x)
      BY <1>4, <2>2 DEF LbGood, ListenersOf
    <3>2. CleanListener(g, x)'
      BY <1>3, <1>5, <2>2, <3>1 DEF CleanListener, Falling
    <3>3. QED BY <1>5, <2>2, <3>2 DEF ListenerOK
  <2>3. QED BY <2>1, <2>2
<1>7. ASSUME NEW p \in Policies
      PROVE  \/ SamePolicy(p) /\ (ListenerOf[p] \in vports' => ListenerOf[p] \in vports)
             \/ LbOf[ListenerOf[p]] = l /\ PolicyOK(g, p)' /\ CleanPolicy(p)'
  <2>1. CASE LbOf[ListenerOf[p]] # l
    BY <1>3, <2>1 DEF SamePolicy
  <2>2. CASE LbOf[ListenerOf[p]] = l
    <3>1. CleanPolicy(p)
      BY <1>4, <2>2 DEF LbGood
    <3>2. CleanPolicy(p)'
      BY <1>3, <3>1 DEF CleanPolicy, RulesOf
    <3>3. QED BY <1>5, <2>2, <3>2 DEF PolicyOK
  <2>3. QED BY <2>1, <2>2
<1>8. FlowOK(g)'
  <2>1. \A y \in Listeners : TlsInv(y)'
    BY WorksIs DEF Inv
  <2>2. ListenersOf(l) \cap vports' = {} /\ f.cur \notin Listeners
    BY <1>2, <1>3
  <2>3. DeleteGood(g, l)'
    BY <1>1, <1>2, <2>1, <2>2, WorksIs, DeleteGoodStep
  <2>4. QED BY <1>1, <1>2, <1>4, <2>3, LbFlow
<1>9. QED BY <1>1, <1>3, <1>5, <1>6, <1>7, <1>8, WorksIs, DeviceWorked

(* Where neither the device nor a status changes.                          *)
LEMMA QuietTask ==
  ASSUME ShapeAssumption, NEW l \in LBs, NEW f \in Flows, NEW g \in Flows, Doing(l, f, g),
         f.at \in {"read_ports", "write_ports"}, f.op = "update", f.on \in LBs,
         status' = status, revived' = revived, overlapped' = overlapped, vs' = vs, tls' = tls, template' = template,
         vports' = vports, sslOn' = sslOn, bound' = bound, bare' = bare, unbound' = unbound,
         scripts' = scripts, inScript' = inScript, UpdateGood(g, l)'
  PROVE  Worked(l, g)
<1>1. (\A y \in Listeners : SameListener(y)) /\ (\A p \in Policies : SamePolicy(p) /\ (ListenerOf[p] \in vports' => ListenerOf[p] \in vports))
  BY DEF SameListener, SamePolicy
<1>2. g.op = f.op /\ g.on = f.on /\ f.on = l
  BY DoingIs
<1>3. FlowOK(g)'
  BY <1>2, LbFlow
<1>4. f.at \notin {"active", "lb_row", "vs"}
  OBVIOUS
<1>5. QED BY <1>1, <1>3, <1>4, DeviceWorked

(* The update of a load balancer reads its ports, and writes them as they  *)
(* still are: its flow is alone at work.                                   *)
LEMMA ReadTask ==
  ASSUME ShapeAssumption, Inv, Inv', NEW s \in Slots, NEW l \in LBs, NEW f \in Flows, NEW g \in Flows,
         f = flow[s], g = flow'[s], Lb(f.on) = l, LbGood(f, l), ReadPorts(s)
  PROVE  Worked(l, g) /\ g.on = f.on /\ Shape(g) /\ f.step = "run"
<1>1. PICK d \in Flows : /\ d = [flow[s] EXCEPT !.read = vports \cap ListenersOf(Target(s))] /\ Shape(d)
                         /\ Moves(d, flow'[s]) /\ Shape(flow'[s])
  BY ReadStep
<1>2. Shape(f) /\ f.at = "read_ports" /\ f.step = "run"
  BY ReadStep DEF ReadPorts, At
<1>3. f.cur = f.on /\ f.on = l /\ f.op = "update" /\ f.on \in LBs /\ Target(s) = l
  BY <1>2, Places, AtLb, ShapeIs, LbTree DEF Ops, Target
<1>4. /\ d.op = f.op /\ d.on = f.on /\ d.cert = f.cert /\ d.full = f.full /\ d.rest = f.rest /\ d.cur = f.cur /\ d.at = f.at
      /\ d.step = f.step /\ d.read = vports \cap ListenersOf(l)
  <2>1. PICK n : n = vports \cap ListenersOf(Target(s))
    OBVIOUS
  <2>2. d = [f EXCEPT !.read = n]
    BY <1>1, <2>1
  <2>3. /\ d.op = f.op /\ d.on = f.on /\ d.cert = f.cert /\ d.full = f.full /\ d.rest = f.rest /\ d.cur = f.cur
        /\ d.at = f.at /\ d.step = f.step /\ d.read = n
    BY <2>2 DEF Flows
  <2>4. QED BY <1>3, <2>1, <2>3
<1>5. LbGood(d, l)
  BY <1>1, <1>2, <1>4, LbGoodAlike
<1>6. Doing(l, d, g)
  BY <1>1, <1>2, <1>4, <1>5 DEF Doing
<1>7. status' = status /\ revived' = revived /\ overlapped' = overlapped /\ vs' = vs /\ tls' = tls /\ template' = template
      /\ vports' = vports /\ sslOn' = sslOn /\ bound' = bound /\ bare' = bare /\ unbound' = unbound
      /\ scripts' = scripts /\ inScript' = inScript
  BY DEF ReadPorts, device, port, files, hist
<1>8. g.read = vports \cap ListenersOf(l) /\ g.on = f.on
  BY <1>4, <1>6, DoingIs
<1>9. UpdateGood(g, l)'
  BY <1>7, <1>8 DEF UpdateGood, ListenersOf
<1>10. d.at = "read_ports" /\ d.op = "update" /\ d.on \in LBs
  BY <1>2, <1>3, <1>4
<1>11. Worked(l, g)
  BY <1>1, <1>6, <1>7, <1>9, <1>10, QuietTask
<1>12. QED BY <1>1, <1>2, <1>8, <1>11

LEMMA WritePortsTask ==
  ASSUME ShapeAssumption, NEW s \in Slots, NEW l \in LBs, NEW f \in Flows, NEW g \in Flows, Works(s, l, f, g), WritePorts(s)
  PROVE  Worked(l, g)
<1>1. f.at = "write_ports" /\ Target(s) = f.cur /\ Shape(f) /\ f = flow[s] /\ f.cur \in LBs /\ Lb(f.on) = l /\ FlowOK(f) /\ Moves(f, g)
      /\ g.op = f.op /\ g.on = f.on
  BY WorksIs, DoingIs, Places DEF WritePorts, At
<1>2. f.cur = f.on /\ f.on = l /\ f.op = "update" /\ f.on \in LBs
  BY <1>1, AtLb, ShapeIs, LbTree DEF Ops
<1>3. UpdateGood(f, l)
  BY <1>2, <1>1 DEF FlowOK
<1>4. (vports \cap ListenersOf(l)) \ f.read = {}
  BY <1>1, <1>3 DEF UpdateGood
<1>5. status' = status /\ revived' = revived /\ overlapped' = overlapped /\ vs' = vs /\ tls' = tls /\ template' = template
      /\ bare' = bare /\ unbound' = unbound /\ scripts' = scripts /\ inScript' = inScript
      /\ vports' = vports \ {} /\ sslOn' = sslOn \ {} /\ bound' = {p \in bound : ListenerOf[p] \notin {}}
  BY <1>1, <1>2, <1>4 DEF WritePorts, files, hist
<1>6. vports' = vports /\ sslOn' = sslOn /\ bound' = bound
  BY <1>5
<1>7. g.at = "active"
  <2>1. Succ(f) = "active"
    BY <1>1, <1>2, SuccLb
  <2>2. QED BY <1>1, <2>1 DEF Moves, Stays
<1>8. UpdateGood(g, l)'
  BY <1>7 DEF UpdateGood
<1>9. QED BY <1>1, <1>2, <1>5, <1>6, <1>8, WorksIs, QuietTask

-----------------------------------------------------------------------------
(* The tasks that write a status: in a creation with what is below.        *)
LEMMA AboveTree ==
  ASSUME ShapeAssumption, NEW o \in Objects, NEW y \in Chain(o), y # o
  PROVE  o \notin Chain(y) /\ y \notin Below(o) /\ o \in Under(y) /\ y \in Objects
<1>1. CASE o \in LBs
  BY <1>1, LbTree
<1>2. CASE o \in Listeners
  BY <1>2, LbTree, ListenerTree DEF Below, Under
<1>3. CASE o \in Policies
  BY <1>3, LbTree, ListenerTree, PolicyTree DEF Below, Under
<1>4. CASE o \in Rules
  BY <1>4, LbTree, ListenerTree, PolicyTree, RuleTree DEF Below, Under
<1>5. QED BY <1>1, <1>2, <1>3, <1>4, Kinds

LEMMA UpdateTlsTask ==
  ASSUME ShapeAssumption, NEW s \in Slots, NEW l \in LBs, NEW f \in Flows, NEW g \in Flows, Works(s, l, f, g), UpdateTls(s)
  PROVE  Worked(l, g)
<1>1. f.at = "tls_row" /\ f.cur \in Listeners /\ Target(s) = f.cur /\ Shape(f) /\ g.op = f.op /\ g.on = f.on /\ f = flow[s]
  BY WorksIs, DoingIs, Places DEF UpdateTls, At
<1> DEFINE x == f.cur
<1>2. status' = status /\ revived' = revived /\ overlapped' = overlapped /\ vs' = vs /\ template' = template
      /\ vports' = vports /\ sslOn' = sslOn /\ bound' = bound /\ bare' = bare /\ unbound' = unbound
      /\ scripts' = scripts /\ inScript' = inScript /\ tls' = [tls EXCEPT ![x] = f.cert]
  BY <1>1 DEF UpdateTls, device, port, files, hist
<1>3. tls'[x] = f.cert /\ \A y \in Listeners \ {x} : tls'[y] = tls[y]
  BY <1>1, <1>2, WorksIs DEF Typed
<1>4. f.on = x /\ f.op = "update"
  BY <1>1, AtListener, ShapeIs DEF Ops
<1>5. \A y \in Listeners \ {x} : SameListener(y)
  BY <1>2, <1>3 DEF SameListener
<1>6. \A p \in Policies : SamePolicy(p) /\ (ListenerOf[p] \in vports' => ListenerOf[p] \in vports)
  BY <1>2 DEF SamePolicy
<1>7. LbOf[x] = l /\ ListenerOK(g, x)' /\ CleanListener(g, x)'
  BY <1>1, <1>2, <1>4, WorksIs, TargetListener
<1>8. FlowOK(g)'
  <2>1. PartGood(g)'
    BY <1>1, <1>2, <1>4, WorksIs, PartGoodStep, ListenerTree
  <2>2. ListenerGood(g, x)'
    <3>1. TlsInv(x) /\ (x \in vports => x \in vports') /\ (x \in sslOn => x \in sslOn') /\ template'[x] = template[x]
      BY <1>1, <1>2, WorksIs
    <3>2. QED BY <1>1, <1>2, <1>3, <1>4, <3>1, WorksIs, ListenerGoodStep
  <2>3. QED BY <1>1, <1>4, <2>1, <2>2, ListenerFlow
<1>9. \A y \in Listeners : SameListener(y) \/ (LbOf[y] = l /\ ListenerOK(g, y)' /\ CleanListener(g, y)')
  BY <1>5, <1>7
<1>10. QED BY <1>1, <1>2, <1>6, <1>8, <1>9, WorksIs, DeviceWorked

(* The device is left alone.                                               *)
Still == /\ vs' = vs /\ tls' = tls /\ template' = template /\ vports' = vports /\ sslOn' = sslOn /\ bound' = bound
         /\ bare' = bare /\ unbound' = unbound /\ scripts' = scripts /\ inScript' = inScript
         /\ revived' = revived /\ overlapped' = overlapped

LEMMA StillIs ==
  ASSUME NEW s \in Slots, MarkOne(s) \/ MarkEarly(s) \/ MarkActive(s) \/ DeleteRow(s) \/ DeleteLbRow(s)
  PROVE  Still
  BY DEF MarkOne, MarkEarly, MarkActive, DeleteRow, DeleteLbRow, Still, device, port, files, hist

LEMMA StillUntouched ==
  ASSUME ShapeAssumption, NEW l \in LBs, Still, \A o \in Objects : Lb(o) # l => status'[o] = status[o]
  PROVE  \A m \in LBs \ {l} : Untouched(m)
<1>1. ASSUME NEW m \in LBs \ {l} PROVE Untouched(m)
  <2>1. \A o \in Below(m) : Lb(o) = m /\ o \in Objects
    BY BelowTree, LbTree
  <2>2. \A o \in Below(m) : SameStatus(o)
    BY <2>1 DEF SameStatus, Still
  <2>3. QED BY <2>2 DEF Untouched, Still, SameListener, SamePolicy
<1>2. QED BY <1>1

(* What is marked is one object below, at its last task.                   *)
LEMMA CreateMarked ==
  ASSUME ShapeAssumption, NEW l \in LBs, NEW f \in Flows, NEW g \in Flows, Doing(l, f, g), Building(f, l), Inv,
         f.at \in {"mark", "early_active"}, Still,
         status'[l] \in {status[l], "ACTIVE"}, status'[f.cur] = "ACTIVE",
         \A o \in Objects : o # l /\ o # f.cur => status'[o] = status[o]
  PROVE  Worked(l, g)
<1>1. /\ Shape(f) /\ Shape(g) /\ Lb(f.on) = l /\ f.step = "run" /\ g.step = "run" /\ LbGood(f, l) /\ g.op = f.op /\ g.on = f.on
      /\ FlowOK(f) /\ Moves(f, g) /\ f # Idle /\ f.on = l /\ f.op = "create" /\ f.full /\ g.full = f.full /\ f.cur \in Objects
      /\ f.at # "end"
  <2>1. /\ Shape(f) /\ Shape(g) /\ Lb(f.on) = l /\ f.step = "run" /\ g.step = "run" /\ LbGood(f, l) /\ g.op = f.op /\ g.on = f.on
        /\ FlowOK(f) /\ Moves(f, g) /\ f # Idle /\ g.full = f.full /\ f.at # "end"
    BY DoingIs
  <2>2. f.cur \in Objects
    BY <2>1, ShapeIs
  <2>3. f.on = l /\ f.op = "create" /\ f.full
    BY DEF Building
  <2>4. QED BY <2>1, <2>2, <2>3
<1>2. CreateGood(f, l)
  BY <1>1 DEF FlowOK
<1>3. /\ f.cur \notin f.rest /\ f.cur \notin g.rest /\ f.cur \notin Chain(g.cur) /\ f.cur # l
      /\ g.rest \cup Chain(g.cur) \subseteq f.rest \cup Chain(f.cur)
  BY <1>1, CreateMoves
<1>4. g.cur # f.cur
  BY <1>1, <1>3, ShapeIs, ChainTree
<1>5. f.cur \in Under(l) /\ f.cur \in Parts
  <2>1. Whole(f)
    BY <1>1, <1>3, Kinds, ShapeIs DEF Whole, Parts
  <2>2. QED BY <1>1, <2>1, WholeIs DEF Whole
<1>6. \A y \in Under(l) : status[y] \in IF y \in f.rest \cup Chain(f.cur) THEN {"PENDING"} ELSE {"PENDING", "ACTIVE"}
  BY <1>1, <1>2 DEF CreateGood
<1>7. \A y \in Under(l) : /\ status'[y] \in IF y \in g.rest \cup Chain(g.cur) THEN {"PENDING"} ELSE {"PENDING", "ACTIVE"}
                          /\ status'[y] = "ACTIVE" => y \notin f.rest /\ (y # f.cur => y \notin Chain(f.cur))
  <2>1. ASSUME NEW y \in Under(l)
        PROVE  /\ status'[y] \in IF y \in g.rest \cup Chain(g.cur) THEN {"PENDING"} ELSE {"PENDING", "ACTIVE"}
               /\ status'[y] = "ACTIVE" => y \notin f.rest /\ (y # f.cur => y \notin Chain(f.cur))
    <3>1. y \in Objects /\ y # l
      BY BelowLb
    <3>2. CASE y = f.cur
      BY <1>3, <3>2
    <3>3. CASE y # f.cur
      BY <1>3, <1>6, <3>1, <3>3
    <3>4. QED BY <3>2, <3>3
  <2>2. QED BY <2>1
<1>8. status[l] \in {"PENDING", "ACTIVE"} /\ status'[l] \in {"PENDING", "ACTIVE"}
  BY <1>1 DEF LbGood, LbStatus, Creates
<1>9. ASSUME NEW x \in ListenersOf(l)
      PROVE  /\ ListenerOK(g, x)' /\ CleanListener(g, x)'
             /\ ~Passed(g, x, {"cert", "template"}) => template[x] = None
             /\ Passed(g, x, {"cert", "template"}) => template[x] = tls[x]
             /\ Passed(g, x, {"cert", "template", "vport"}) => x \in vports /\ (tls[x] # None => x \in sslOn)
  <2>1. x \in Under(l) /\ x \in Listeners /\ x \in Parts /\ LbOf[x] = l
    BY BelowLb, ListenerTree
  <2>2. /\ ~Passed(f, x, {"cert", "template"}) => template[x] = None
        /\ Passed(f, x, {"cert", "template"}) => template[x] = tls[x]
        /\ Passed(f, x, {"cert", "template", "vport"}) => x \in vports /\ (tls[x] # None => x \in sslOn)
    BY <1>1, <1>2 DEF CreateGood
  <2>3. status'[x] = "ACTIVE" => Passed(f, x, {"cert", "template"}) /\ Passed(f, x, {"cert", "template", "vport"})
    BY <1>3, <1>7, <2>1 DEF Passed
  <2>4. status'[x] = "ACTIVE" => Served(x)'
    BY <2>2, <2>3 DEF Served, Still
  <2>5. l \notin Under(x)
    BY <2>1, ListenerTree, BelowTree DEF Under
  <2>6. ListenerOK(g, x)'
    BY <1>1, <2>4, <2>5 DEF ListenerOK, Under, Below, Chain, PolicyAt, ListenerAt, Lb, Objects
  <2>7. CleanListener(g, x)'
    BY <1>7, <2>1 DEF CleanListener
  <2>8. TlsOf[x] = None => tls[x] = None /\ template[x] = None
    BY <2>1 DEF Inv, TlsInv
  <2>9. First(f, x) = IF TlsOf[x] = None THEN "vport" ELSE "cert"
    BY <1>1, <2>1, FirstIs
  <2>10. CASE x = f.cur
    <3>1. Passed(f, x, {"cert", "template"}) /\ Passed(f, x, {"cert", "template", "vport"}) /\ Passed(g, x, {"cert", "template"})
      BY <1>3, <1>4, <2>10 DEF Passed
    <3>2. QED BY <2>2, <2>6, <2>7, <3>1
  <2>11. CASE x # f.cur
    <3>1. ASSUME NEW L \in SUBSET {"cert", "template", "vport", "script", "bind"}
          PROVE  /\ Passed(f, x, L) => Passed(g, x, L)
                 /\ Passed(g, x, L) => Passed(f, x, L) \/ First(f, x) \notin L
      BY <1>1, <2>1, <2>11, PassedMove
    <3>2. {"cert", "template"} \in SUBSET {"cert", "template", "vport", "script", "bind"}
          /\ {"cert", "template", "vport"} \in SUBSET {"cert", "template", "vport", "script", "bind"}
      OBVIOUS
    <3>3. /\ Passed(f, x, {"cert", "template"}) => Passed(g, x, {"cert", "template"})
          /\ Passed(g, x, {"cert", "template"}) => Passed(f, x, {"cert", "template"}) \/ TlsOf[x] = None
          /\ Passed(g, x, {"cert", "template", "vport"}) => Passed(f, x, {"cert", "template", "vport"})
      BY <2>9, <3>1, <3>2
    <3>4. QED BY <2>2, <2>6, <2>7, <2>8, <3>3
  <2>12. QED BY <2>10, <2>11
<1>10. ASSUME NEW p \in Policies, LbOf[ListenerOf[p]] = l
       PROVE  /\ PolicyOK(g, p)' /\ CleanPolicy(p)'
              /\ Passed(g, p, {"script"}) => p \in scripts /\ RulesOf(p) \subseteq inScript
              /\ Passed(g, p, {"script", "bind"}) => p \in bound
  <2>1. p \in Under(l) /\ p \in Parts /\ (\A r \in RulesOf(p) : r \in Under(l) /\ r \in Rules)
    BY <1>10, BelowLb, PolicyTree DEF RulesOf
  <2>2. /\ Passed(f, p, {"script"}) => p \in scripts /\ RulesOf(p) \subseteq inScript
        /\ Passed(f, p, {"script", "bind"}) => p \in bound
    BY <1>1, <1>2, <1>10 DEF CreateGood
  <2>3. status'[p] = "ACTIVE" => Passed(f, p, {"script"}) /\ Passed(f, p, {"script", "bind"})
    BY <1>3, <1>7, <2>1 DEF Passed
  <2>4. status'[p] = "ACTIVE" => p \in bound' /\ Listed(p)'
    BY <2>2, <2>3 DEF Listed, Still, RulesOf
  <2>5. l \notin RulesOf(p)
    BY LbTree DEF RulesOf
  <2>6. PolicyOK(g, p)'
    BY <1>1, <2>4, <2>5 DEF PolicyOK, RulesOf
  <2>7. status'[p] # "GONE" /\ \A r \in RulesOf(p) : status'[r] # "GONE"
    BY <1>7, <2>1
  <2>8. CleanPolicy(p)'
    BY <2>7 DEF CleanPolicy, RulesOf
  <2>9. First(f, p) = "script"
    BY <1>1, <2>1, FirstIs
  <2>10. CASE p = f.cur
    <3>1. Passed(f, p, {"script"}) /\ Passed(f, p, {"script", "bind"})
      BY <1>3, <2>10 DEF Passed
    <3>2. QED BY <2>2, <2>6, <2>8, <3>1
  <2>11. CASE p # f.cur
    <3>1. ASSUME NEW L \in SUBSET {"cert", "template", "vport", "script", "bind"}
          PROVE  Passed(g, p, L) => Passed(f, p, L) \/ First(f, p) \notin L
      BY <1>1, <2>1, <2>11, PassedMove
    <3>2. {"script"} \in SUBSET {"cert", "template", "vport", "script", "bind"}
          /\ {"script", "bind"} \in SUBSET {"cert", "template", "vport", "script", "bind"}
      OBVIOUS
    <3>3. /\ Passed(g, p, {"script"}) => Passed(f, p, {"script"})
          /\ Passed(g, p, {"script", "bind"}) => Passed(f, p, {"script", "bind"})
      BY <2>9, <3>1, <3>2
    <3>4. QED BY <2>2, <2>6, <2>8, <3>3
  <2>12. QED BY <2>10, <2>11
<1>11. l \in vs /\ Creates(g, l)
  BY <1>1, <1>2 DEF CreateGood, Creates
<1>12. (\A y \in Under(l) : status[y] \in IF y \in g.rest \cup Chain(g.cur) THEN {"PENDING"} ELSE {"PENDING", "ACTIVE"})'
  BY <1>7 DEF Under, Below, Chain, PolicyAt, ListenerAt, Lb, Objects
<1>13. CreateGood(g, l)'
  BY <1>1, <1>9, <1>10, <1>11, <1>12 DEF CreateGood, ListenersOf, Passed, Still, RulesOf
<1>14. FlowOK(g)'
  BY <1>1, <1>13, LbFlow
<1>15. LbStatus(g, l)'
  BY <1>1, <1>8, <1>11 DEF LbStatus, Creates
<1>16. \A o \in Under(l) : Lb(o) = l
  BY BelowLb
<1>17. (\A o \in Under(l) : Calm(g, o))'
  BY <1>11, <1>16 DEF Calm, Creates, Under, Below, Chain, PolicyAt, ListenerAt, Lb, Objects
<1>18. LbGood(g, l)'
  BY <1>9, <1>10, <1>11, <1>14, <1>15, <1>17 DEF LbGood, ListenersOf, Still
<1>19. ~Ending(g)
  BY <1>1, NotEnding
<1>20. \A m \in LBs \ {l} : Untouched(m)
  <2>1. \A o \in Objects : Lb(o) # l => status'[o] = status[o]
    BY <1>5, LbTree, BelowLb
  <2>2. QED BY <2>1, StillUntouched
<1>21. \A o \in Below(l) : status'[o] = "ERROR" => status[o] = "ERROR"
  BY <1>7, <1>8, UnderTree
<1>22. QED BY <1>8, <1>18, <1>19, <1>20, <1>21 DEF Worked, Still

LEMMA MarkOneTask ==
  ASSUME ShapeAssumption, NEW s \in Slots, NEW l \in LBs, NEW f \in Flows, NEW g \in Flows, Works(s, l, f, g), MarkOne(s)
  PROVE  Worked(l, g)
<1>1. f.at = "mark" /\ Target(s) = f.cur /\ Shape(f) /\ Lb(f.on) = l /\ LbGood(f, l) /\ f.step = "run"
      /\ Doing(l, f, g) /\ Inv /\ status \in [Objects -> Statuses]
  BY WorksIs, DoingIs DEF MarkOne, At, Typed
<1>2. f.cur \in Policies \cup Rules /\ f.cur \in Objects /\ f.op \in Ops
  BY <1>1, Places, ShapeIs
<1>3. Whole(f) /\ f.op = "create" /\ f.on # f.cur
  <2>1. CASE f.cur \in Policies
    BY <1>1, <1>2, <2>1, AtPolicy DEF Ops
  <2>2. CASE f.cur \in Rules
    BY <1>1, <1>2, <2>2, AtRule DEF Ops
  <2>3. QED BY <1>2, <2>1, <2>2
<1>4. Building(f, l) /\ f.cur # l
  BY <1>1, <1>2, <1>3, WholeIs, LbTree DEF Building
<1>5. status[f.cur] = "PENDING"
  BY <1>1, <1>2, <1>3, <1>4, StatusAt, ChainTree
<1>6. status' = Activated({f.cur}) /\ Still
  BY <1>1, StillIs DEF MarkOne
<1>7. status'[f.cur] = "ACTIVE" /\ \A o \in Objects : o # f.cur => status'[o] = status[o]
  BY <1>1, <1>2, <1>5, <1>6, ActivatedIs
<1>8. status'[l] \in {status[l], "ACTIVE"}
  BY <1>4, <1>7, LbTree
<1>9. QED BY <1>1, <1>4, <1>6, <1>7, <1>8, CreateMarked

(* The creation of a load balancer alone marks it before it is there.      *)
LEMMA MarkEarlyTask ==
  ASSUME ShapeAssumption, NEW s \in Slots, NEW l \in LBs, NEW f \in Flows, NEW g \in Flows, Works(s, l, f, g), MarkEarly(s)
  PROVE  Worked(l, g)
<1>1. f.at = "early_active" /\ Target(s) = f.cur /\ Shape(f) /\ Lb(f.on) = l /\ LbGood(f, l) /\ f.step = "run" /\ Moves(f, g)
      /\ Doing(l, f, g) /\ Inv /\ status \in [Objects -> Statuses] /\ FlowOK(f) /\ g.op = f.op /\ g.on = f.on /\ g.full = f.full
      /\ g.step = "run" /\ f # Idle
  BY WorksIs, DoingIs DEF MarkEarly, At, Typed
<1>2. f.cur \in LBs \cup Listeners /\ f.cur \in Objects /\ f.op \in Ops
  BY <1>1, Places, ShapeIs
<1>3. status' = Activated(Chain(f.cur)) /\ Still
  BY <1>1, StillIs DEF MarkEarly
<1>4. /\ \A o \in Objects : status'[o] \in {status[o], "ACTIVE"} /\ (o \notin Chain(f.cur) => status'[o] = status[o])
      /\ \A o \in Objects : o \in Chain(f.cur) /\ status[o] = "PENDING" => status'[o] = "ACTIVE"
  BY <1>1, <1>3, ActivatedIs
<1>5. CASE f.cur \in Listeners
  <2>1. Whole(f) /\ f.op = "create" /\ f.on # f.cur
    BY <1>1, <1>2, <1>5, AtListener DEF Ops
  <2>2. Building(f, l) /\ f.cur # l /\ Chain(f.cur) = {f.cur, l}
    BY <1>1, <1>5, <2>1, AtListener, WholeIs, LbTree, ListenerTree DEF Building
  <2>3. status[f.cur] = "PENDING"
    BY <1>1, <2>1, <2>2, StatusAt
  <2>4. status'[f.cur] = "ACTIVE" /\ \A o \in Objects : o # f.cur /\ o # l => status'[o] = status[o]
    BY <1>2, <1>4, <2>2, <2>3
  <2>5. status'[l] \in {status[l], "ACTIVE"}
    <3>1. l \in Objects
      BY LbTree
    <3>2. QED BY <1>4, <3>1
  <2>6. Doing(l, f, g) /\ Inv /\ f.at = "early_active"
    BY <1>1
  <2>7. Still /\ Building(f, l)
    BY <1>3, <2>2
  <2>8. QED BY <2>4, <2>5, <2>6, <2>7, CreateMarked
<1>6. CASE f.cur \in LBs
  <2>1. f.cur = f.on /\ f.on = l /\ f.op = "create" /\ ~f.full /\ Chain(l) = {l} /\ l \in Objects
    BY <1>1, <1>2, <1>6, AtLb, LbTree DEF Ops
  <2>2. g.at = "vs"
    BY <1>1, <1>6, <2>1, SuccLb DEF Moves, Stays
  <2>3. status[l] \in {"PENDING", "ACTIVE"} /\ status'[l] \in {"PENDING", "ACTIVE"}
    BY <1>1, <1>4, <2>1 DEF LbGood, LbStatus, Creates
  <2>4. \A y \in Under(l) : status[y] = "NEW" /\ status'[y] = "NEW"
    <3>1. \A y \in Under(l) : status[y] = "NEW"
      BY <1>1, <2>1 DEF FlowOK, CreateGood
    <3>2. QED BY <1>4, <2>1, <3>1, BelowLb
  <2>5. \A x \in ListenersOf(l) : ListenerOK(g, x)' /\ CleanListener(g, x)'
    <3>1. ASSUME NEW x \in ListenersOf(l) PROVE ListenerOK(g, x)' /\ CleanListener(g, x)'
      <4>1. status[x] = "NEW" /\ status'[x] = "NEW" /\ CleanListener(f, x)
        BY <1>1, <2>4, BelowLb DEF LbGood
      <4>2. QED BY <1>3, <4>1 DEF ListenerOK, CleanListener, Still
    <3>2. QED BY <3>1
  <2>6. ASSUME NEW p \in Policies, LbOf[ListenerOf[p]] = l PROVE PolicyOK(g, p)' /\ CleanPolicy(p)'
    <3>1. status'[p] = "NEW" /\ \A r \in RulesOf(p) : status'[r] = "NEW"
      BY <2>4, <2>6, BelowLb DEF RulesOf
    <3>2. QED BY <3>1 DEF PolicyOK, CleanPolicy, RulesOf
  <2>7. \A o \in Under(l) : status'[o] # "PENDING"
    BY <2>4
  <2>8. CreateGood(g, l)'
    BY <1>1, <2>1, <2>4 DEF CreateGood, Under, Below, Chain, PolicyAt, ListenerAt, Lb, Objects
  <2>9. FlowOK(g)'
    BY <1>1, <2>1, <2>8, LbFlow
  <2>10. LbStatus(g, l)' /\ Creates(g, l)
    BY <1>1, <2>1, <2>3 DEF LbStatus, Creates
  <2>11. \A o \in Under(l) : Calm(g, o)'
    BY <2>7 DEF Calm
  <2>12. LbGood(g, l)'
    BY <2>5, <2>6, <2>9, <2>10, <2>11 DEF LbGood, ListenersOf, Under, Below, Chain, PolicyAt, ListenerAt, Lb, Objects
  <2>13. ~Ending(g)
    BY <2>2 DEF Ending
  <2>14. \A m \in LBs \ {l} : Untouched(m)
    <3>1. \A o \in Objects : Lb(o) # l => status'[o] = status[o]
      <4>1. Lb(l) = l
        BY LbTree
      <4>2. QED BY <1>4, <2>1, <4>1
    <3>2. QED BY <1>3, <3>1, StillUntouched
  <2>15. \A o \in Below(l) : status'[o] = "ERROR" => status[o] = "ERROR"
    BY <1>4, BelowTree, <2>1
  <2>16. QED BY <1>3, <2>3, <2>12, <2>13, <2>14, <2>15 DEF Worked, Still
<1>7. QED BY <1>2, <1>5, <1>6

(* The last task that a request for a part does: what is above the object  *)
(* is ACTIVE again, and so is the object, unless it is gone.               *)
LEMMA MarkPartTask ==
  ASSUME ShapeAssumption, NEW s \in Slots, NEW l \in LBs, NEW f \in Flows, NEW g \in Flows, Works(s, l, f, g), MarkActive(s),
         f.on \notin LBs
  PROVE  Worked(l, g)
<1>1. /\ f.at = "active" /\ Target(s) = f.cur /\ Shape(f) /\ Lb(f.on) = l /\ LbGood(f, l) /\ f.step = "run" /\ Moves(f, g)
      /\ Inv /\ Typed /\ FlowOK(f) /\ g.op = f.op /\ g.on = f.on /\ g.step = "run" /\ f # Idle /\ f.cur = f.on /\ f = flow[s]
      /\ g.at = Succ(f) /\ f.at # "end"
  BY WorksIs, DoingIs DEF MarkActive, At
<1>2. f.on \in Objects /\ f.op \in Ops /\ f.on # None
  BY <1>1, ShapeIs DEF ShapeAssumption
<1>3. status' = Activated(Chain(f.on)) /\ Still
  <2>1. status' = Activated(Chain(f.on) \cup {})
    BY <1>1 DEF MarkActive
  <2>2. Chain(f.on) \cup {} = Chain(f.on)
    OBVIOUS
  <2>3. QED BY <2>1, <2>2, StillIs
<1>4. /\ \A y \in Chain(f.on) \ {f.on} : status[y] = "PENDING"
      /\ status[f.on] = OwnStatus(f) /\ f.on # l /\ l \in Chain(f.on) /\ Live(f, l) /\ l \in vs /\ status[l] = "PENDING"
  BY <1>1, StatusAt
<1>5. /\ \A o \in Objects : o \notin Chain(f.on) => status'[o] = status[o]
      /\ \A o \in Objects : status'[o] \in {status[o], "ACTIVE"}
      /\ \A o \in Objects : o \in Chain(f.on) /\ status[o] = "PENDING" => status'[o] = "ACTIVE"
      /\ \A o \in Objects : status[o] \in {"NEW", "GONE"} => status'[o] = status[o]
  BY <1>1, <1>3, ActivatedIs DEF Typed
<1>6. Chain(f.on) \subseteq Objects /\ \A y \in Chain(f.on) : Lb(y) = l
  BY <1>1, <1>2, ChainTree
<1>7. status'[l] = "ACTIVE" /\ l \in Objects
  BY <1>4, <1>5, <1>6
<1>8. f.op # "delete" => status[f.on] = "PENDING"
  BY <1>4 DEF OwnStatus
<1>9. f.op = "delete" => status'[f.on] = "GONE"
  BY <1>1, <1>2, <1>4, <1>5 DEF OwnStatus
<1>10. ASSUME NEW x \in ListenersOf(l) PROVE ListenerOK(Idle, x)' /\ CleanListener(Idle, x)'
  <2>1. x \in Listeners /\ LbOf[x] = l /\ x \in Objects /\ ListenerOK(f, x) /\ CleanListener(f, x)
    BY <1>1, <1>10, BelowLb, ListenerTree DEF LbGood
  <2>2. ASSUME status'[x] = "ACTIVE", x \notin revived PROVE Served(x)
    <3>1. CASE status[x] = "ACTIVE"
      BY <1>4, <2>1, <2>2, <3>1 DEF ListenerOK
    <3>2. CASE status[x] # "ACTIVE" /\ x # f.on
      <4>1. x \in Chain(f.on)
        BY <1>5, <2>1, <2>2, <3>2
      <4>2. status[x] = "PENDING" /\ f.on \in Under(x)
        BY <1>2, <1>4, <3>2, <4>1, AboveTree
      <4>3. QED BY <1>4, <2>1, <2>2, <4>2 DEF ListenerOK
    <3>3. CASE x = f.on
      <4>1. f.op \in {"create", "update"}
        BY <1>2, <1>9, <2>2, <3>3 DEF Ops
      <4>2. ListenerGood(f, x)
        BY <1>1, <2>1, <3>3 DEF FlowOK
      <4>3. CASE f.op = "create"
        BY <1>1, <4>2, <4>3 DEF ListenerGood, Served
      <4>4. CASE f.op = "update"
        <5>1. template[x] \in {None, tls[x]} /\ x \in vports /\ (tls[x] # None => x \in sslOn)
          BY <1>1, <4>2, <4>4 DEF ListenerGood
        <5>2. x \in sslOn => template[x] # None
          BY <1>1 DEF Typed
        <5>3. QED BY <5>1, <5>2 DEF Served
      <4>5. QED BY <4>1, <4>3, <4>4
    <3>4. QED BY <3>1, <3>2, <3>3
  <2>3. Served(x)' <=> Served(x)
    BY <1>3 DEF Served, Still
  <2>4. None \notin Under(x)
    BY DEF ShapeAssumption, Under, Below
  <2>5. ListenerOK(Idle, x)'
    BY <1>3, <2>2, <2>3, <2>4 DEF ListenerOK, Still, Under, Below, Chain, PolicyAt, ListenerAt, Lb, Objects, Idle
  <2>6. CleanListener(Idle, x)'
    <3>1. ~Falling(f, l)
      BY <1>4 DEF Falling
    <3>2. status'[x] = "GONE" => status[x] = "GONE"
      BY <1>5, <2>1
    <3>3. status'[x] = "NEW" => status[x] = "NEW"
      BY <1>5, <2>1
    <3>4. QED BY <1>3, <2>1, <3>1, <3>2, <3>3 DEF CleanListener, Still
  <2>7. QED BY <2>5, <2>6
<1>11. ASSUME NEW p \in Policies, LbOf[ListenerOf[p]] = l PROVE PolicyOK(Idle, p)' /\ CleanPolicy(p)'
  <2>1. p \in Objects /\ ListenerOf[p] \in Objects /\ PolicyOK(f, p) /\ CleanPolicy(p) /\ (\A r \in RulesOf(p) : r \in Objects /\ r \in Rules /\ PolicyOf[r] = p)
    BY <1>1, <1>11, PolicyTree, ListenerTree, RuleTree DEF LbGood, RulesOf
  <2>2. \A r \in RulesOf(p) : r \in Chain(f.on) => r = f.on
    <3>1. ASSUME NEW r \in RulesOf(p), r \in Chain(f.on), r # f.on PROVE FALSE
      <4>1. f.on \in Under(r) /\ Below(r) = {r}
        BY <1>2, <2>1, <3>1, AboveTree, BelowTree
      <4>2. QED BY <3>1, <4>1 DEF Under
    <3>2. QED BY <3>1
  <2>3. ASSUME status'[p] = "ACTIVE", p \notin revived, ListenerOf[p] \in vports
        PROVE  p \in bound \cup unbound /\ \A r \in RulesOf(p) : status'[r] = "ACTIVE" => r \in inScript
    <3>1. CASE f.on \in RulesOf(p)
      <4>1. f.on \in Rules /\ p \in Chain(f.on) /\ p # f.on
        BY <2>1, <3>1, RuleTree
      <4>2. status[p] = "PENDING"
        BY <1>4, <4>1
      <4>3. p \in bound \cup unbound /\ Listed(p)
        BY <1>4, <1>11, <2>1, <2>3, <3>1, <4>2 DEF PolicyOK
      <4>4. f.op # "delete" => f.on \in inScript
        BY <1>1, <4>1 DEF FlowOK, RuleGood
      <4>5. QED BY <1>5, <1>9, <2>1, <2>2, <4>3, <4>4 DEF Listed
    <3>2. CASE f.on = p
      <4>1. f.op # "delete"
        BY <1>9, <2>3, <3>2
      <4>2. PolicyGood(f, p)
        BY <1>1, <3>2 DEF FlowOK
      <4>3. Listed(p) /\ p \in bound
        BY <1>1, <4>1, <4>2 DEF PolicyGood
      <4>4. \A r \in RulesOf(p) : r # f.on
        BY <2>1, <3>2, RuleTree
      <4>5. QED BY <1>5, <2>1, <2>2, <4>3, <4>4 DEF Listed
    <3>3. CASE f.on # p /\ f.on \notin RulesOf(p)
      <4>1. p \notin Chain(f.on)
        <5>1. ASSUME p \in Chain(f.on) PROVE FALSE
          <6>1. CASE f.on \in Listeners
            BY <5>1, <6>1, ListenerTree, PolicyTree
          <6>2. CASE f.on \in Policies
            BY <3>3, <5>1, <6>2, PolicyTree, ListenerTree, LbTree
          <6>3. CASE f.on \in Rules
            BY <3>3, <5>1, <6>3, RuleTree, PolicyTree, ListenerTree, LbTree DEF RulesOf
          <6>4. QED BY <1>2, <6>1, <6>2, <6>3, Kinds
        <5>2. QED BY <5>1
      <4>2. status[p] = "ACTIVE"
        BY <1>5, <2>1, <2>3, <4>1
      <4>3. p \in bound \cup unbound /\ Listed(p)
        BY <1>4, <1>11, <2>1, <2>3, <4>2 DEF PolicyOK
      <4>4. \A r \in RulesOf(p) : status'[r] = status[r]
        BY <1>5, <2>1, <2>2, <3>3
      <4>5. QED BY <4>3, <4>4 DEF Listed
    <3>4. QED BY <3>1, <3>2, <3>3
  <2>4. None \notin RulesOf(p)
    BY RuleTree DEF ShapeAssumption, RulesOf, Objects
  <2>5. PolicyOK(Idle, p)'
    BY <1>3, <2>3, <2>4 DEF PolicyOK, Listed, Still, RulesOf, Idle
  <2>6. CleanPolicy(p)'
    <3>1. \A o \in Objects : status'[o] = "GONE" <=> status[o] = "GONE"
      BY <1>5
    <3>2. QED BY <1>3, <2>1, <3>1 DEF CleanPolicy, Still, RulesOf
  <2>7. QED BY <2>5, <2>6
<1>12. ASSUME NEW o \in Under(l) PROVE status'[o] # "PENDING"
  <2>1. Calm(f, o) /\ o \in Objects /\ Lb(o) = l
    BY <1>1, <1>12, BelowLb DEF LbGood
  <2>2. CASE o \in Chain(f.on)
    BY <1>4, <1>5, <1>8, <1>9, <2>1, <2>2
  <2>3. CASE o \notin Chain(f.on)
    BY <1>1, <1>4, <1>5, <2>1, <2>3, LbTree DEF Calm, Creates
  <2>4. QED BY <2>2, <2>3
<1>13. LbGood(Idle, l)'
  <2>1. \A o \in Under(l) : Calm(Idle, o)'
    BY <1>12 DEF Calm
  <2>2. QED BY <1>3, <1>4, <1>10, <1>11, <2>1 DEF LbGood, LbStatus, Still, ListenersOf, Under, Below, Chain, PolicyAt, ListenerAt, Lb, Objects, Idle
<1>14. Ending(g) /\ Ended(g)'
  <2>1. g.at = "end"
    <3>1. CASE f.on \in Listeners
      BY <1>1, <3>1, SuccListener
    <3>2. CASE f.on \in Policies
      BY <1>1, <3>2, SuccPolicy
    <3>3. CASE f.on \in Rules
      BY <1>1, <3>3, SuccRule
    <3>4. QED BY <1>2, <3>1, <3>2, <3>3, Kinds
  <2>2. f.on \in Rules => status'[PolicyOf[f.on]] = "ACTIVE"
    <3>1. f.on \in Rules => PolicyOf[f.on] \in Chain(f.on) /\ PolicyOf[f.on] # f.on /\ PolicyOf[f.on] \in Objects
      BY RuleTree, PolicyTree
    <3>2. QED BY <1>4, <1>5, <3>1
  <2>3. (Lb(g.on) = l)'
    BY <1>1 DEF Lb, ListenerAt, PolicyAt
  <2>4. QED BY <1>1, <1>7, <2>1, <2>2, <2>3 DEF Ending, Ended, Lb, ListenerAt, PolicyAt
<1>15. \A m \in LBs \ {l} : Untouched(m)
  BY <1>3, <1>5, <1>6, StillUntouched
<1>16. \A o \in Below(l) : status'[o] = "ERROR" => status[o] = "ERROR"
  BY <1>5, <1>7, BelowTree
<1>17. QED BY <1>3, <1>4, <1>13, <1>14, <1>15, <1>16 DEF Worked, Still

(* The update of a load balancer changes nothing below it; its creation    *)
(* has by now done the part of every object below.                         *)
LEMMA MarkLbTask ==
  ASSUME ShapeAssumption, NEW s \in Slots, NEW l \in LBs, NEW f \in Flows, NEW g \in Flows, Works(s, l, f, g), MarkActive(s),
         f.on \in LBs
  PROVE  Worked(l, g)
<1>1. /\ f.at = "active" /\ Target(s) = f.cur /\ Shape(f) /\ Lb(f.on) = l /\ LbGood(f, l) /\ f.step = "run" /\ Moves(f, g)
      /\ Inv /\ Typed /\ FlowOK(f) /\ g.op = f.op /\ g.on = f.on /\ g.step = "run" /\ f # Idle /\ f = flow[s]
      /\ f.at # "end" /\ f.on = l /\ f.op \in Ops
  BY WorksIs, DoingIs, ShapeIs DEF MarkActive, At
<1>2. f.cur = l /\ f.cur \in LBs
  BY <1>1, Places
<1>3. f.op = "update" \/ (f.op = "create" /\ f.full)
  BY <1>1, <1>2, AtLb DEF Ops
<1>4. Still /\ l \in Objects /\ Chain(l) = {l} /\ l \in Below(l)
  BY StillIs, LbTree, BelowLb
<1>5. \E S \in SUBSET Below(l) : /\ l \in S /\ status' = Activated(S)
                                 /\ f.op = "create" => S = Below(l)
                                 /\ f.op = "update" => S = {l}
  <2>1. CASE f.op = "update"
    <3>1. status' = Activated({l} \cup {})
      BY <1>1, <1>2, <1>4, <2>1 DEF MarkActive
    <3>2. {l} \cup {} = {l}
      OBVIOUS
    <3>3. status' = Activated({l}) /\ {l} \in SUBSET Below(l)
      BY <1>4, <3>1, <3>2
    <3>4. QED BY <2>1, <3>3
  <2>2. CASE f.op = "create"
    <3>1. status' = Activated({l} \cup Below(l))
      BY <1>1, <1>2, <1>4, <2>2 DEF MarkActive
    <3>2. {l} \cup Below(l) = Below(l)
      BY <1>4
    <3>3. QED BY <1>4, <2>2, <3>1, <3>2
  <2>3. QED BY <1>3, <2>1, <2>2
<1>6. PICK S \in SUBSET Below(l) : /\ l \in S /\ status' = Activated(S)
                                   /\ f.op = "create" => S = Below(l)
                                   /\ f.op = "update" => S = {l}
  BY <1>5
<1>7. /\ \A o \in Objects : o \notin S => status'[o] = status[o]
      /\ \A o \in Objects : status'[o] \in {status[o], "ACTIVE"}
      /\ \A o \in Objects : o \in S /\ status[o] = "PENDING" => status'[o] = "ACTIVE"
      /\ \A o \in Objects : status[o] \in {"NEW", "GONE"} => status'[o] = status[o]
  BY <1>1, <1>6, ActivatedIs DEF Typed
<1>8. /\ status[l] \in {"PENDING", "ACTIVE"} /\ status'[l] = "ACTIVE" /\ Live(f, l)
  <2>1. status[l] \in {"PENDING", "ACTIVE"}
    BY <1>1, <1>3 DEF LbGood, LbStatus
  <2>2. status'[l] = "ACTIVE"
    BY <1>4, <1>6, <1>7, <2>1
  <2>3. Live(f, l)
    BY <1>3, <2>1 DEF Live, HasRow, Deletes
  <2>4. QED BY <2>1, <2>2, <2>3
<1>9. f.op = "create" => /\ CreateGood(f, l) /\ f.rest = {}
                         /\ \A y \in Under(l) : status[y] \in {"PENDING", "ACTIVE"} /\ status'[y] = "ACTIVE"
  <2>1. CASE f.op = "create"
    <3>1. CreateGood(f, l)
      BY <1>1, <2>1 DEF FlowOK
    <3>2. f.rest = {}
      BY <1>1, <1>3, <2>1 DEF Shape, Nested
    <3>3. \A y \in Under(l) : status[y] \in {"PENDING", "ACTIVE"}
      BY <1>3, <2>1, <3>1 DEF CreateGood
    <3>4. \A y \in Under(l) : y \in Below(l) /\ y \in Objects
      BY BelowLb
    <3>5. QED BY <1>6, <1>7, <2>1, <3>1, <3>2, <3>3, <3>4
  <2>2. QED BY <2>1
<1>10. f.op = "update" => \A y \in Under(l) : status'[y] = status[y]
  BY <1>6, <1>7, BelowLb
<1>11. l \in vs
  BY <1>1, <1>3, <1>8, <1>9 DEF LbGood, Creates, CreateGood
<1>13. ASSUME NEW x \in ListenersOf(l) PROVE ListenerOK(Idle, x)' /\ CleanListener(Idle, x)'
  <2>1. x \in Listeners /\ LbOf[x] = l /\ x \in Under(l) /\ x # l /\ ListenerOK(f, x) /\ CleanListener(f, x)
    BY <1>1, <1>13, BelowLb, ListenerTree, LbTree DEF LbGood
  <2>2. ASSUME status'[x] = "ACTIVE", x \notin revived PROVE Served(x)
    <3>1. CASE f.op = "update"
      BY <1>8, <1>10, <2>1, <2>2, <3>1 DEF ListenerOK
    <3>2. CASE f.op = "create"
      <4>1. Passed(f, x, {"cert", "template"}) /\ Passed(f, x, {"cert", "template", "vport"})
        BY <1>2, <1>9, <2>1, <3>2 DEF Passed
      <4>2. QED BY <1>3, <1>9, <3>2, <4>1 DEF CreateGood, Served
    <3>3. QED BY <1>3, <3>1, <3>2
  <2>3. Served(x)' <=> Served(x)
    BY <1>4 DEF Served, Still
  <2>4. None \notin Under(x)
    BY DEF ShapeAssumption, Under, Below
  <2>5. ListenerOK(Idle, x)'
    BY <1>4, <2>2, <2>3, <2>4 DEF ListenerOK, Still, Under, Below, Chain, PolicyAt, ListenerAt, Lb, Objects, Idle
  <2>6. CleanListener(Idle, x)'
    <3>1. ~Falling(f, l)
      BY <1>8 DEF Falling
    <3>2. status'[x] \in {"GONE", "NEW"} => status[x] = status'[x]
      BY <1>3, <1>9, <1>10, <2>1
    <3>3. QED BY <1>4, <2>1, <3>1, <3>2 DEF CleanListener, Still
  <2>7. QED BY <2>5, <2>6
<1>14. ASSUME NEW p \in Policies, LbOf[ListenerOf[p]] = l PROVE PolicyOK(Idle, p)' /\ CleanPolicy(p)'
  <2>1. p \in Under(l) /\ PolicyOK(f, p) /\ CleanPolicy(p) /\ (\A r \in RulesOf(p) : r \in Under(l) /\ r \in Rules) /\ p # l
        /\ ListenerOf[p] \in Under(l)
    BY <1>1, <1>14, BelowLb, LbTree, PolicyTree DEF LbGood, RulesOf
  <2>2. ASSUME status'[p] = "ACTIVE", p \notin revived, ListenerOf[p] \in vports
        PROVE  p \in bound \cup unbound /\ \A r \in RulesOf(p) : status'[r] = "ACTIVE" => r \in inScript
    <3>1. CASE f.op = "update"
      BY <1>8, <1>10, <1>14, <2>1, <2>2, <3>1 DEF PolicyOK, Listed
    <3>2. CASE f.op = "create"
      <4>1. Passed(f, p, {"script"}) /\ Passed(f, p, {"script", "bind"})
        BY <1>2, <1>9, <2>1, <3>2 DEF Passed
      <4>2. QED BY <1>3, <1>9, <1>14, <3>2, <4>1 DEF CreateGood
    <3>3. QED BY <1>3, <3>1, <3>2
  <2>3. None \notin RulesOf(p)
    BY RuleTree DEF ShapeAssumption, RulesOf, Objects
  <2>4. PolicyOK(Idle, p)'
    BY <1>4, <2>2, <2>3 DEF PolicyOK, Listed, Still, RulesOf, Idle
  <2>5. CleanPolicy(p)'
    <3>1. \A o \in Under(l) : status'[o] = "GONE" <=> status[o] = "GONE"
      BY <1>3, <1>9, <1>10
    <3>2. QED BY <1>4, <2>1, <3>1 DEF CleanPolicy, Still, RulesOf
  <2>6. QED BY <2>4, <2>5
<1>15. ASSUME NEW o \in Under(l) PROVE Calm(Idle, o)'
  <2>1. Calm(f, o) /\ Lb(o) = l /\ o # l
    BY <1>1, <1>15, BelowLb DEF LbGood
  <2>2. status'[o] # "PENDING"
    BY <1>1, <1>3, <1>4, <1>8, <1>9, <1>10, <2>1 DEF Calm, Creates
  <2>3. QED BY <2>2 DEF Calm
<1>16. LbGood(Idle, l)'
  BY <1>4, <1>11, <1>13, <1>14, <1>15 DEF LbGood, LbStatus, Still, ListenersOf, Under, Below, Chain, PolicyAt, ListenerAt, Lb, Objects, Idle
<1>17. Ending(g) /\ Ended(g)'
  <2>1. g.at = "end"
    <3>1. Succ(f) = "end"
      BY <1>1, <1>2, <1>3, SuccLb
    <3>2. QED BY <1>1, <1>2, <3>1 DEF Moves, Stays
  <2>2. QED BY <1>1, <1>3, <2>1, LbTree DEF Ending, Ended
<1>18. \A m \in LBs \ {l} : Untouched(m)
  <2>1. \A o \in Objects : Lb(o) # l => status'[o] = status[o]
    BY <1>4, <1>6, <1>7, BelowTree, LbTree
  <2>2. QED BY <1>4, <2>1, StillUntouched
<1>19. \A o \in Below(l) : status'[o] = "ERROR" => status[o] = "ERROR"
  BY <1>4, <1>7, BelowTree
<1>20. QED BY <1>4, <1>8, <1>16, <1>17, <1>18, <1>19 DEF Worked, Still

(* The rows of an object and of what is below it go, once nothing of the   *)
(* object is on the device.                                                *)
LEMMA DeletePartRow ==
  ASSUME ShapeAssumption, NEW s \in Slots, NEW l \in LBs, NEW f \in Flows, NEW g \in Flows, Works(s, l, f, g), DeleteRow(s),
         f.on \notin LBs
  PROVE  Worked(l, g)
<1>1. /\ f.at = "row" /\ Target(s) = f.cur /\ Shape(f) /\ Lb(f.on) = l /\ LbGood(f, l) /\ f.step = "run" /\ Moves(f, g)
      /\ Inv /\ Typed /\ FlowOK(f) /\ g.op = f.op /\ g.on = f.on /\ g.step = "run" /\ f # Idle /\ f.cur = f.on
      /\ g.at = Succ(f) /\ f.at # "end" /\ g # Idle /\ g.cur = g.on
  BY WorksIs, DoingIs, ShapeIs DEF DeleteRow, At
<1>2. f.on \in Objects /\ f.op \in Ops /\ (f.on \in Listeners \/ f.on \in Policies \/ f.on \in Rules)
  BY <1>1, ShapeIs, Kinds
<1>3. f.op = "delete" /\ g.at = "active"
  <2>1. CASE f.on \in Listeners
    BY <1>1, <1>2, <2>1, AtListener, SuccListener DEF Ops
  <2>2. CASE f.on \in Policies
    BY <1>1, <1>2, <2>2, AtPolicy, SuccPolicy DEF Ops
  <2>3. CASE f.on \in Rules
    BY <1>1, <1>2, <2>3, AtRule, SuccRule DEF Ops
  <2>4. QED BY <1>2, <2>1, <2>2, <2>3
<1>4. Still /\ \A o \in Objects : status'[o] = IF o \in Below(f.on) THEN "GONE" ELSE status[o]
  BY <1>1, StillIs DEF DeleteRow
<1>5. /\ \A y \in Chain(f.on) \ {f.on} : status[y] = "PENDING" /\ y \notin Below(f.on) /\ y \in Objects
      /\ status[f.on] = "PENDING" /\ f.on # l /\ l \in Chain(f.on) /\ Live(f, l) /\ l \in vs /\ status[l] = "PENDING"
  BY <1>1, <1>2, StatusAt, AboveTree DEF OwnStatus
<1>6. status'[l] = "PENDING" /\ (Live(g, l)' <=> Live(f, l))
  BY <1>1, <1>4, <1>5, LiveFrame
<1>7. f.on \in Below(f.on) /\ \A o \in Below(f.on) : Lb(o) = l /\ o \in Objects
  BY <1>1, <1>2, BelowTree
<1>8. ASSUME NEW x \in ListenersOf(l) PROVE ListenerOK(g, x)' /\ CleanListener(g, x)'
  <2>1. x \in Listeners /\ LbOf[x] = l /\ x \in Objects /\ ListenerOK(f, x) /\ CleanListener(f, x)
    BY <1>1, <1>8, BelowLb, ListenerTree DEF LbGood
  <2>2. CASE x \in Below(f.on)
    <3>1. x = f.on /\ f.on \in Listeners
      BY <1>1, <1>2, <1>5, <2>1, <2>2, ListenerTree DEF Below
    <3>2. status'[x] = "GONE"
      BY <1>4, <2>1, <2>2
    <3>3. template[x] = None /\ x \notin vports
      BY <1>1, <1>3, <3>1 DEF FlowOK, ListenerGood
    <3>4. QED BY <1>4, <3>2, <3>3 DEF ListenerOK, CleanListener, Still
  <2>3. CASE x \notin Below(f.on)
    <3>1. SameListener(x) /\ SameStatus(x)
      BY <1>4, <2>1, <2>3 DEF SameListener, SameStatus, Still
    <3>2. QED BY <1>1, <1>5, <1>6, <2>1, <3>1, ListenerFrame
  <2>4. QED BY <2>2, <2>3
<1>9. ASSUME NEW p \in Policies, LbOf[ListenerOf[p]] = l PROVE PolicyOK(g, p)' /\ CleanPolicy(p)'
  <2>1. /\ p \in Objects /\ ListenerOf[p] \in Objects /\ PolicyOK(f, p) /\ CleanPolicy(p)
        /\ \A r \in RulesOf(p) : r \in Objects /\ Chain(r) = {r} \cup Chain(p) /\ r \in Rules /\ PolicyOf[r] = p
        /\ Chain(p) = {p} \cup Chain(ListenerOf[p])
    <3>1. p \in Objects /\ ListenerOf[p] \in Objects /\ Chain(p) = {p} \cup Chain(ListenerOf[p])
      BY PolicyTree, ListenerTree, PartTree
    <3>2. \A r \in RulesOf(p) : r \in Objects /\ Chain(r) = {r} \cup Chain(p) /\ r \in Rules /\ PolicyOf[r] = p
      BY RuleTree, PartTree DEF RulesOf
    <3>3. QED BY <1>1, <1>9, <3>1, <3>2 DEF LbGood
  <2>2. CASE ListenerOf[p] \in Below(f.on)
    <3>1. status'[ListenerOf[p]] = "GONE" /\ status'[p] = "GONE"
      BY <1>4, <2>1, <2>2 DEF Below
    <3>2. QED BY <3>1 DEF PolicyOK, CleanPolicy
  <2>3. CASE ListenerOf[p] \notin Below(f.on) /\ p \in Below(f.on)
    <3>1. f.on = p
      BY <2>1, <2>3 DEF Below
    <3>2. status'[p] = "GONE"
      BY <1>4, <2>1, <2>3
    <3>3. p \notin scripts
      BY <1>1, <1>3, <3>1 DEF FlowOK, PolicyGood
    <3>4. \A r \in RulesOf(p) : r \notin inScript
      BY <1>1, <2>1, <3>3 DEF Typed
    <3>5. QED BY <1>4, <3>2, <3>3, <3>4 DEF PolicyOK, CleanPolicy, Still, RulesOf
  <2>4. CASE p \notin Below(f.on)
    <3>1. status'[p] = status[p] /\ status'[ListenerOf[p]] = status[ListenerOf[p]]
      <4>1. ListenerOf[p] \notin Below(f.on)
        BY <2>1, <2>4 DEF Below
      <4>2. QED BY <1>4, <2>1, <2>4, <4>1
    <3>2. \A r \in RulesOf(p) : r \in Below(f.on) => r = f.on
      BY <2>1, <2>4 DEF Below
    <3>3. \A r \in RulesOf(p) : status'[r] = status[r] \/ (r = f.on /\ r \notin inScript /\ status'[r] = "GONE")
      <4>1. f.on \in Rules => f.on \notin inScript
        BY <1>1, <1>3 DEF FlowOK, RuleGood
      <4>2. QED BY <1>4, <2>1, <3>2, <4>1
    <3>4. Listed(p) => Listed(p)'
      BY <1>4, <3>3 DEF Listed, RulesOf, Still
    <3>5. PolicyOK(g, p)'
      BY <1>1, <1>4, <1>6, <1>9, <2>1, <3>1, <3>4 DEF PolicyOK, Still, RulesOf
    <3>6. CleanPolicy(p)'
      BY <1>4, <2>1, <3>1, <3>3 DEF CleanPolicy, Still, RulesOf
    <3>7. QED BY <3>5, <3>6
  <2>5. QED BY <2>2, <2>3, <2>4
<1>10. ASSUME NEW o \in Under(l) PROVE Calm(g, o)'
  <2>1. Calm(f, o) /\ o \in Objects /\ Lb(o) = l
    BY <1>1, <1>10, BelowLb DEF LbGood
  <2>2. status'[o] = "PENDING" => status[o] = "PENDING"
    BY <1>4, <2>1
  <2>3. (Lb(o) = l)'
    BY <2>1 DEF Lb, ListenerAt, PolicyAt
  <2>4. QED BY <1>1, <1>6, <2>1, <2>2, <2>3 DEF Calm, Creates, Chain, PolicyAt, ListenerAt, Lb
<1>11. FlowOK(g)'
  <2>1. PartGood(g)'
    <3>1. \A y \in Chain(f.on) \ {f.on} : status'[y] = "PENDING"
      BY <1>4, <1>5
    <3>2. status'[f.on] = "GONE"
      BY <1>2, <1>4, <1>7
    <3>3. QED BY <1>1, <1>3, <3>1, <3>2 DEF PartGood, OwnStatus, Chain, PolicyAt, ListenerAt, Lb
  <2>2. f.on \in Listeners => ListenerGood(g, f.on)'
    BY <1>1, <1>3 DEF ListenerGood
  <2>3. f.on \in Policies => PolicyGood(g, f.on)'
    BY <1>1, <1>3 DEF PolicyGood
  <2>4. f.on \in Rules => RuleGood(g, f.on)'
    BY <1>1, <1>3 DEF RuleGood
  <2>5. QED BY <1>1, <1>2, <2>1, <2>2, <2>3, <2>4, ListenerFlow, PolicyFlow, RuleFlow
<1>12. LbStatus(g, l)'
  BY <1>1, <1>3, <1>6 DEF LbStatus, Creates
<1>13. LbGood(g, l)'
  <2>1. \A o \in Under(l) : Calm(g, o)'
    BY <1>10
  <2>2. QED BY <1>4, <1>5, <1>8, <1>9, <1>11, <1>12, <2>1 DEF LbGood, Still, ListenersOf, Under, Below, Chain, PolicyAt, ListenerAt, Lb, Objects
<1>14. ~Ending(g)
  BY <1>3 DEF Ending
<1>15. \A m \in LBs \ {l} : Untouched(m)
  <2>1. \A o \in Objects : Lb(o) # l => status'[o] = status[o]
    BY <1>4, <1>7
  <2>2. QED BY <1>4, <2>1, StillUntouched
<1>16. \A o \in Below(l) : status'[o] = "ERROR" => status[o] = "ERROR"
  BY <1>4, BelowTree, LbTree
<1>17. QED BY <1>4, <1>5, <1>13, <1>14, <1>15, <1>16 DEF Worked, Still

(* In a cascading deletion the load balancer stays behind.                 *)
LEMMA DeleteWholeRow ==
  ASSUME ShapeAssumption, NEW s \in Slots, NEW l \in LBs, NEW f \in Flows, NEW g \in Flows, Works(s, l, f, g), DeleteRow(s),
         f.on \in LBs
  PROVE  Worked(l, g)
<1>1. /\ f.at = "row" /\ Target(s) = f.cur /\ Shape(f) /\ Lb(f.on) = l /\ LbGood(f, l) /\ f.step = "run" /\ Moves(f, g)
      /\ Inv /\ Inv' /\ FlowOK(f) /\ g.op = f.op /\ g.on = f.on /\ g.step = "run" /\ f.on = l /\ f.at # "end" /\ Doing(l, f, g)
  BY WorksIs, DoingIs DEF DeleteRow, At
<1>2. f.cur \in Listeners /\ f.op = "delete" /\ f.on # f.cur /\ f.cur \in Objects
  <2>1. f.cur \in Parts /\ Whole(f) /\ f.cur \in Objects /\ f.op \in Ops /\ f.on # f.cur
    BY <1>1, Places, ShapeIs, WholeIs DEF Whole
  <2>2. f.cur \in Listeners
    BY <1>1, <2>1, AtPolicy, AtRule DEF Parts, Ops
  <2>3. QED BY <1>1, <2>1, <2>2, AtListener DEF Ops
<1> DEFINE x == f.cur
<1>3. LbOf[x] = l /\ Chain(x) = {x, l} /\ x # l
  BY <1>1, <1>2, ShapeIs, ListenerTree, LbTree
<1>4. Still /\ \A o \in Objects : status'[o] = IF o \in Below(x) THEN "GONE" ELSE status[o]
  BY <1>1, StillIs DEF DeleteRow
<1>5. x \in Below(x) /\ l \notin Below(x) /\ (\A o \in Below(x) : Lb(o) = l /\ o \in Objects) /\ l \in Objects
  <2>1. x \in Objects /\ Lb(x) = l /\ x \notin LBs /\ l \in Objects
    BY <1>2, <1>3, ListenerTree, LbTree
  <2>2. x \in Below(x) /\ Below(x) \subseteq Objects /\ (\A o \in Below(x) : Lb(o) = Lb(x)) /\ Below(x) \cap LBs = {}
    BY <2>1, BelowTree
  <2>3. QED BY <2>1, <2>2
<1>6. status[l] = "PENDING" /\ status'[l] = "PENDING" /\ ~Live(f, l) /\ ~Live(g, l)'
  <2>1. status[l] = "PENDING" /\ ~Live(f, l)
    BY <1>1, <1>2, StatusAt
  <2>2. status'[l] = status[l]
    BY <1>4, <1>5
  <2>3. QED BY <1>1, <2>1, <2>2, LiveFrame
<1>7. Falling(g, l)'
  BY <1>6 DEF Falling
<1>8. ASSUME NEW y \in ListenersOf(l) PROVE ListenerOK(g, y)' /\ CleanListener(g, y)'
  <2>1. y \in Listeners /\ LbOf[y] = l /\ y \in Objects /\ CleanListener(f, y)
    BY <1>1, <1>8, BelowLb, ListenerTree DEF LbGood
  <2>2. ListenerOK(g, y)'
    BY <1>6, <2>1 DEF ListenerOK
  <2>3. CASE y = x
    <3>1. template[x] = None
      BY <1>1, <1>2 DEF FlowOK, DeleteGood
    <3>2. QED BY <1>4, <1>7, <2>1, <2>2, <2>3, <3>1 DEF CleanListener, Still
  <2>4. CASE y # x
    <3>1. y \notin Below(x)
      BY <1>2, <1>3, <2>1, <2>4, ListenerTree DEF Below
    <3>2. status'[y] = status[y]
      BY <1>4, <2>1, <3>1
    <3>3. QED BY <1>4, <1>7, <2>1, <2>2, <3>2 DEF CleanListener, Still
  <2>5. QED BY <2>3, <2>4
<1>9. ASSUME NEW p \in Policies, LbOf[ListenerOf[p]] = l PROVE PolicyOK(g, p)' /\ CleanPolicy(p)'
  <2>1. /\ p \in Objects /\ ListenerOf[p] \in Objects /\ CleanPolicy(p)
        /\ \A r \in RulesOf(p) : r \in Objects /\ Chain(r) = {r} \cup Chain(p) /\ r # x
        /\ Chain(p) = {p} \cup Chain(ListenerOf[p]) /\ p # x
    <3>1. p \in Objects /\ ListenerOf[p] \in Objects /\ Chain(p) = {p} \cup Chain(ListenerOf[p]) /\ p # x
      BY <1>2, PolicyTree, ListenerTree, PartTree
    <3>2. \A r \in RulesOf(p) : r \in Objects /\ Chain(r) = {r} \cup Chain(p) /\ r # x
      BY <1>2, RuleTree, PartTree, ListenerTree DEF RulesOf
    <3>3. QED BY <1>1, <1>9, <3>1, <3>2 DEF LbGood
  <2>2. PolicyOK(g, p)'
    BY <1>6, <1>9 DEF PolicyOK
  <2>3. CASE ListenerOf[p] \in Below(x)
    <3>1. status'[ListenerOf[p]] = "GONE"
      BY <1>4, <2>1, <2>3
    <3>2. QED BY <2>2, <3>1 DEF CleanPolicy
  <2>4. CASE ListenerOf[p] \notin Below(x)
    <3>1. p \notin Below(x) /\ \A r \in RulesOf(p) : r \notin Below(x)
      BY <2>1, <2>4 DEF Below
    <3>2. status'[ListenerOf[p]] = status[ListenerOf[p]] /\ status'[p] = status[p] /\ \A r \in RulesOf(p) : status'[r] = status[r]
      BY <1>4, <2>1, <2>4, <3>1
    <3>3. QED BY <1>4, <2>1, <2>2, <3>2 DEF CleanPolicy, Still, RulesOf
  <2>5. QED BY <2>3, <2>4
<1>10. \A o \in Under(l) : Calm(g, o)'
  <2>1. \A o \in Under(l) : (Lb(o) = l)'
    BY BelowLb DEF Lb, ListenerAt, PolicyAt
  <2>2. QED BY <1>6, <2>1 DEF Calm
<1>11. FlowOK(g)'
  <2>1. \A y \in Listeners : TlsInv(y)'
    BY <1>1 DEF Inv
  <2>2. DeleteGood(g, l)'
    BY <1>1, <1>2, <1>4, <2>1, DeleteGoodStep DEF Still
  <2>3. QED BY <1>1, <1>2, <2>2, LbFlow
<1>12. LbStatus(g, l)'
  BY <1>1, <1>2, <1>6 DEF LbStatus, Creates
<1>13. LbGood(g, l)'
  BY <1>4, <1>6, <1>8, <1>9, <1>10, <1>11, <1>12 DEF LbGood, Still, ListenersOf, Under, Below, Chain, PolicyAt, ListenerAt, Lb, Objects
<1>14. ~Ending(g)
  BY <1>1, NotEnding
<1>15. \A m \in LBs \ {l} : Untouched(m)
  <2>1. \A o \in Objects : Lb(o) # l => status'[o] = status[o]
    BY <1>4, <1>5
  <2>2. QED BY <1>4, <2>1, StillUntouched
<1>16. \A o \in Below(l) : status'[o] = "ERROR" => status[o] = "ERROR"
  BY <1>4, BelowTree, LbTree
<1>17. QED BY <1>4, <1>6, <1>13, <1>14, <1>15, <1>16 DEF Worked, Still

LEMMA DeleteLbRowTask ==
  ASSUME ShapeAssumption, NEW s \in Slots, NEW l \in LBs, NEW f \in Flows, NEW g \in Flows, Works(s, l, f, g), DeleteLbRow(s)
  PROVE  Worked(l, g)
<1>1. /\ f.at = "lb_row" /\ Target(s) = f.cur /\ Shape(f) /\ Lb(f.on) = l /\ LbGood(f, l) /\ f.step = "run" /\ Moves(f, g)
      /\ Inv /\ Typed /\ FlowOK(f) /\ g.op = f.op /\ g.on = f.on /\ g.step = "run" /\ f.at # "end"
  BY WorksIs, DoingIs DEF DeleteLbRow, At
<1>2. f.cur \in LBs /\ f.cur = f.on /\ f.on = l /\ f.op = "delete"
  BY <1>1, Places, AtLb, ShapeIs, LbTree DEF Ops
<1>3. Still /\ l \in Objects
  BY StillIs, LbTree
<1>4. status'[l] = "GONE" /\ \A o \in Objects : o # l => status'[o] = status[o]
  BY <1>1, <1>2, <1>3 DEF DeleteLbRow, Typed
<1>5. ListenersOf(l) \cap vports = {}
  BY <1>1, <1>2 DEF FlowOK, DeleteGood
<1>6. ~Live(Idle, l)'
  BY <1>4 DEF Live, HasRow
<1>7. ASSUME NEW x \in ListenersOf(l) PROVE ListenerOK(Idle, x)' /\ CleanListener(Idle, x)'
  <2>1. LbOf[x] = l /\ x \in Objects /\ x # l /\ CleanListener(f, x)
    BY <1>1, <1>7, BelowLb, ListenerTree, LbTree DEF LbGood
  <2>2. QED BY <1>3, <1>4, <1>5, <1>6, <1>7, <2>1 DEF ListenerOK, CleanListener, Still
<1>8. ASSUME NEW p \in Policies, LbOf[ListenerOf[p]] = l PROVE PolicyOK(Idle, p)' /\ CleanPolicy(p)'
  <2>1. CleanPolicy(p) /\ p \in Objects /\ p # l /\ ListenerOf[p] \in Objects /\ ListenerOf[p] # l
        /\ \A r \in RulesOf(p) : r \in Objects /\ r # l
    BY <1>1, <1>8, PolicyTree, ListenerTree, RuleTree, LbTree DEF LbGood, RulesOf
  <2>2. QED BY <1>3, <1>4, <1>6, <1>8, <2>1 DEF PolicyOK, CleanPolicy, Still, RulesOf
<1>9. \A o \in Under(l) : Calm(Idle, o)'
  <2>1. \A o \in Under(l) : (Lb(o) = l)'
    BY BelowLb DEF Lb, ListenerAt, PolicyAt
  <2>2. QED BY <1>6, <2>1 DEF Calm
<1>10. LbGood(Idle, l)'
  BY <1>6, <1>7, <1>8, <1>9 DEF LbGood, LbStatus, ListenersOf, Under, Below, Chain, PolicyAt, ListenerAt, Lb, Objects, Idle
<1>11. Ending(g) /\ Ended(g)'
  <2>1. g.at = "end"
    <3>1. Succ(f) = "end"
      BY <1>1, <1>2, SuccLb
    <3>2. QED BY <1>1, <1>2, <3>1 DEF Moves, Stays
  <2>2. QED BY <1>1, <1>2, <1>4, <2>1, LbTree DEF Ending, Ended
<1>12. \A m \in LBs \ {l} : Untouched(m)
  <2>1. \A o \in Objects : Lb(o) # l => status'[o] = status[o]
    <3>1. Lb(l) = l
      BY LbTree
    <3>2. QED BY <1>4, <3>1
  <2>2. QED BY <1>3, <2>1, StillUntouched
<1>13. \A o \in Below(l) : status'[o] = "ERROR" => status[o] = "ERROR"
  BY <1>4, BelowTree, LbTree
<1>14. QED BY <1>3, <1>4, <1>10, <1>11, <1>12, <1>13 DEF Worked, Still

(* Whatever task the flow at work does.                                    *)
LEMMA TaskWorked ==
  ASSUME ShapeAssumption, NEW s \in Slots, NEW l \in LBs, NEW f \in Flows, NEW g \in Flows, Works(s, l, f, g), Tasked(s)
  PROVE  Worked(l, g)
<1>1. CASE PutCert(s) \/ PutTemplate(s) \/ UpdateTemplate(s) \/ DeleteTemplate(s) \/ DeleteCert(s)
  BY <1>1, PutCertTask, PutTemplateTask, UpdateTemplateTask, DeleteTemplateTask, DeleteCertTask
<1>2. CASE CreatePort(s) \/ ReplacePort(s) \/ DeletePort(s)
  BY <1>2, CreatePortTask, ReplacePortTask, DeletePortTask
<1>3. CASE PutScript(s) \/ PutScriptWithout(s) \/ Bind(s) \/ Unbind(s) \/ DeleteScript(s)
  BY <1>3, ScriptTask, BindTask, UnbindTask, DeleteScriptTask
<1>4. CASE CreateVs(s) \/ DeleteVs(s) \/ WritePorts(s)
  BY <1>4, CreateVsTask, DeleteVsTask, WritePortsTask
<1>5. CASE MarkOne(s) \/ MarkEarly(s) \/ MarkActive(s)
  BY <1>5, MarkOneTask, MarkEarlyTask, MarkPartTask, MarkLbTask
<1>6. CASE UpdateTls(s) \/ DeleteRow(s) \/ DeleteLbRow(s)
  BY <1>6, UpdateTlsTask, DeletePartRow, DeleteWholeRow, DeleteLbRowTask
<1>7. QED BY <1>1, <1>2, <1>3, <1>4, <1>5, <1>6 DEF Tasked

-----------------------------------------------------------------------------
(* A step is local to the load balancer of its flow.                       *)
LEMMA DeviceLocal ==
  ASSUME ShapeAssumption, NEW l \in LBs, status' = status, revived' = revived,
         \A m \in LBs \ {l} : m \in vs' <=> m \in vs,
         \A x \in Listeners : LbOf[x] # l => SameListener(x),
         \A p \in Policies : LbOf[ListenerOf[p]] # l => SamePolicy(p)
  PROVE  \A m \in LBs \ {l} : Untouched(m)
<1>1. TAKE m \in LBs \ {l}
<1>2. \A o \in Below(m) : SameStatus(o)
  BY DEF SameStatus
<1>3. \A x \in ListenersOf(m) : SameListener(x)
  BY DEF ListenersOf
<1>4. \A p \in Policies : LbOf[ListenerOf[p]] = m => SamePolicy(p)
  OBVIOUS
<1>5. QED BY <1>2, <1>3, <1>4 DEF Untouched

LEMMA ListenerLocal ==
  ASSUME ShapeAssumption, Inv, NEW s \in Slots, NEW l \in LBs, NEW x \in Listeners, x = Target(s), LbOf[x] = l,
         \/ PutCert(s) \/ PutTemplate(s) \/ UpdateTemplate(s) \/ DeleteTemplate(s) \/ DeleteCert(s)
         \/ CreatePort(s) \/ ReplacePort(s) \/ DeletePort(s)
  PROVE  \A m \in LBs \ {l} : Untouched(m)
<1>1. Typed
  BY InvIs
<1>2. /\ status' = status /\ revived' = revived /\ vs' = vs /\ tls' = tls /\ scripts' = scripts /\ inScript' = inScript
      /\ \A y \in Listeners \ {x} : template'[y] = template[y]
      /\ \A y \in Listeners \ {x} : (y \in vports' <=> y \in vports) /\ (y \in sslOn' <=> y \in sslOn)
                                    /\ (y \in bare' <=> y \in bare)
      /\ \A p \in Policies : ListenerOf[p] # x => (p \in bound' <=> p \in bound) /\ (p \in unbound' <=> p \in unbound)
  <2>1. CASE PutCert(s) \/ DeleteCert(s)
    BY <2>1 DEF PutCert, DeleteCert, port, hist
  <2>2. CASE PutTemplate(s) \/ DeleteTemplate(s)
    BY <1>1, <2>2 DEF PutTemplate, DeleteTemplate, port, hist, Typed
  <2>3. CASE UpdateTemplate(s)
    <3>1. template' = template \/ template' = [template EXCEPT ![x] = CertFor(s, x)]
      BY <2>3 DEF UpdateTemplate
    <3>2. QED BY <1>1, <2>3, <3>1 DEF UpdateTemplate, port, Typed
  <2>4. CASE CreatePort(s)
    <3>1. bound' = bound /\ unbound' = unbound /\ bare' = bare /\ template' = template
      BY <2>4 DEF CreatePort, files, hist
    <3>2. vports' = vports \cup {x} /\ sslOn' \in {sslOn, sslOn \cup {x}}
      BY <2>4 DEF CreatePort
    <3>3. QED BY <2>4, <3>1, <3>2 DEF CreatePort, files, hist
  <2>5. CASE ReplacePort(s)
    <3>1. vports' = vports /\ template' = template
      BY <2>5 DEF ReplacePort, files
    <3>2. /\ bound' = bound \ PoliciesOf(x) /\ sslOn' \in {sslOn, sslOn \cup {x}} /\ bare' = bare \ {x}
          /\ unbound' = unbound \cup (bound \cap PoliciesOf(x))
      BY <2>5 DEF ReplacePort
    <3>3. QED BY <2>5, <3>1, <3>2 DEF ReplacePort, files, PoliciesOf
  <2>6. CASE DeletePort(s)
    BY <2>6 DEF DeletePort, files, hist, PoliciesOf
  <2>7. QED BY <2>1, <2>2, <2>3, <2>4, <2>5, <2>6
<1>3. \A y \in Listeners : LbOf[y] # l => SameListener(y)
  BY <1>2 DEF SameListener
<1>4. \A p \in Policies : LbOf[ListenerOf[p]] # l => SamePolicy(p)
  BY <1>2 DEF SamePolicy
<1>5. QED BY <1>2, <1>3, <1>4, DeviceLocal

LEMMA PolicyLocal ==
  ASSUME ShapeAssumption, Inv, NEW s \in Slots, NEW l \in LBs, NEW p \in Policies, p = PolicyAt(Target(s)),
         LbOf[ListenerOf[p]] = l,
         PutScript(s) \/ PutScriptWithout(s) \/ Bind(s) \/ ((Unbind(s) \/ DeleteScript(s)) /\ Target(s) = p)
  PROVE  \A m \in LBs \ {l} : Untouched(m)
<1>1. /\ status' = status /\ revived' = revived /\ vs' = vs /\ tls' = tls /\ template' = template /\ vports' = vports
      /\ \A y \in Listeners : LbOf[y] # l => (y \in sslOn' <=> y \in sslOn) /\ (y \in bare' <=> y \in bare)
      /\ \A q \in Policies \ {p} : (q \in bound' <=> q \in bound) /\ (q \in unbound' <=> q \in unbound)
                                   /\ (q \in scripts' <=> q \in scripts)
      /\ \A q \in Policies \ {p} : \A r \in RulesOf(q) : r \in inScript' <=> r \in inScript
  <2>1. CASE PutScript(s) \/ PutScriptWithout(s)
    <3>1. PICK R : R \subseteq RulesOf(p) /\ Import(s, R)
      BY <2>1 DEF PutScript, PutScriptWithout, Rows
    <3>2. scripts' = scripts \cup {p} /\ inScript' = (inScript \ RulesOf(p)) \cup R
      BY <3>1 DEF Import
    <3>3. QED BY <3>1, <3>2 DEF Import, port, hist, RulesOf
  <2>2. CASE Bind(s)
    BY <2>2 DEF Bind, files, RulesOf
  <2>3. CASE Unbind(s) /\ Target(s) = p
    BY <2>3, PolicyTree DEF Unbind, files, RulesOf
  <2>4. CASE DeleteScript(s) /\ Target(s) = p
    BY <2>4 DEF DeleteScript, hist, RulesOf
  <2>5. QED BY <2>1, <2>2, <2>3, <2>4
<1>2. \A y \in Listeners : LbOf[y] # l => SameListener(y)
  BY <1>1 DEF SameListener
<1>3. \A q \in Policies : LbOf[ListenerOf[q]] # l => SamePolicy(q)
  BY <1>1 DEF SamePolicy
<1>4. QED BY <1>1, <1>2, <1>3, DeviceLocal

LEMMA VsLocal ==
  ASSUME ShapeAssumption, Inv, NEW s \in Slots, NEW l \in LBs, l = Target(s),
         CreateVs(s) \/ DeleteVs(s) \/ ReadPorts(s) \/ WritePorts(s)
  PROVE  \A m \in LBs \ {l} : Untouched(m)
<1>1. /\ status' = status /\ revived' = revived /\ tls' = tls /\ template' = template /\ bare' = bare /\ unbound' = unbound
      /\ scripts' = scripts /\ inScript' = inScript
      /\ \A m \in LBs \ {l} : m \in vs' <=> m \in vs
      /\ \A y \in Listeners : LbOf[y] # l => (y \in sslOn' <=> y \in sslOn) /\ (y \in vports' <=> y \in vports)
      /\ \A q \in Policies : LbOf[ListenerOf[q]] # l => (q \in bound' <=> q \in bound)
  <2>1. CASE CreateVs(s)
    BY <2>1 DEF CreateVs, port, files, hist
  <2>2. CASE DeleteVs(s)
    BY <2>2 DEF DeleteVs, DropVs, files, hist, ListenersOf
  <2>3. CASE ReadPorts(s)
    BY <2>3 DEF ReadPorts, device, port, files, hist
  <2>4. CASE WritePorts(s)
    BY <2>4 DEF WritePorts, files, hist, ListenersOf
  <2>5. QED BY <2>1, <2>2, <2>3, <2>4
<1>2. \A y \in Listeners : LbOf[y] # l => SameListener(y)
  BY <1>1 DEF SameListener
<1>3. \A q \in Policies : LbOf[ListenerOf[q]] # l => SamePolicy(q)
  BY <1>1 DEF SamePolicy, RulesOf
<1>4. QED BY <1>1, <1>2, <1>3, DeviceLocal

LEMMA StatusLocal ==
  ASSUME ShapeAssumption, Inv, NEW s \in Slots, NEW l \in LBs, Target(s) \in Objects, Lb(Target(s)) = l,
         MarkOne(s) \/ MarkEarly(s) \/ MarkActive(s) \/ DeleteRow(s) \/ DeleteLbRow(s)
  PROVE  \A m \in LBs \ {l} : Untouched(m)
<1>1. Still /\ Typed
  BY StillIs, InvIs
<1>2. \A o \in Chain(Target(s)) \cup Below(Target(s)) : Lb(o) = l
  BY ChainTree, BelowTree
<1>3. \A o \in Objects : Lb(o) # l => status'[o] = status[o]
  <2>1. CASE MarkOne(s) \/ MarkEarly(s) \/ MarkActive(s)
    <3>1. PICK S : status' = Activated(S) /\ S \subseteq Chain(Target(s)) \cup Below(Target(s))
      <4>1. Target(s) \in Chain(Target(s))
        BY ChainTree
      <4>2. QED BY <2>1, <4>1 DEF MarkOne, MarkEarly, MarkActive
    <3>2. QED BY <1>1, <1>2, <3>1, ActivatedIs DEF Typed
  <2>2. CASE DeleteRow(s)
    BY <1>2, <2>2 DEF DeleteRow
  <2>3. CASE DeleteLbRow(s)
    BY <1>1, <2>3 DEF DeleteLbRow, Typed
  <2>4. QED BY <2>1, <2>2, <2>3
<1>4. QED BY <1>1, <1>3, StillUntouched

LEMMA TlsLocal ==
  ASSUME ShapeAssumption, Inv, NEW s \in Slots, NEW l \in LBs, NEW x \in Listeners, x = Target(s), LbOf[x] = l,
         UpdateTls(s)
  PROVE  \A m \in LBs \ {l} : Untouched(m)
<1>1. Typed
  BY InvIs
<1>2. \A y \in Listeners : LbOf[y] # l => SameListener(y)
  BY <1>1 DEF SameListener, UpdateTls, device, port, files, hist, Typed
<1>3. \A q \in Policies : SamePolicy(q)
  BY DEF SamePolicy, UpdateTls, device, port, files, hist
<1>4. status' = status /\ revived' = revived /\ vs' = vs
  BY DEF UpdateTls, device, hist
<1>5. QED BY <1>2, <1>3, <1>4, DeviceLocal

(* The rows that a task makes or deletes.                                  *)
LEMMA TaskLocal ==
  ASSUME ShapeAssumption, Inv, NEW s \in Slots, Tasked(s) \/ ReadPorts(s), NEW l \in LBs, l = Lb(flow[s].on)
  PROVE  (\A m \in LBs \ {l} : Untouched(m)) /\ overlapped' = overlapped
<1>1. PICK f \in Flows : f = flow[s] /\ Shape(f) /\ Target(s) = f.cur
  BY TaskStep, ReadStep DEF Target
<1>2. f.cur \in Objects /\ Lb(f.cur) = l
  BY <1>1, ShapeIs
<1>3. /\ f.cur \in Listeners => LbOf[f.cur] = l
      /\ f.cur \in LBs => f.cur = l
      /\ f.cur \in Policies \cup Rules => PolicyAt(f.cur) \in Policies /\ LbOf[ListenerOf[PolicyAt(f.cur)]] = l
      /\ f.cur \in Policies => PolicyAt(f.cur) = f.cur
  BY <1>2, ListenerTree, LbTree, PolicyTree, RuleTree
<1>4. CASE \/ PutCert(s) \/ PutTemplate(s) \/ UpdateTemplate(s) \/ DeleteTemplate(s) \/ DeleteCert(s)
           \/ CreatePort(s) \/ ReplacePort(s) \/ DeletePort(s)
  <2>1. f.cur \in Listeners
    <3>1. f.at \in {"cert", "template", "new_template", "no_template", "no_cert", "vport", "replace", "no_vport"}
      BY <1>1, <1>4 DEF PutCert, PutTemplate, UpdateTemplate, DeleteTemplate, DeleteCert, CreatePort, ReplacePort, DeletePort, At
    <3>2. QED BY <1>1, <3>1, Places
  <2>2. overlapped' = overlapped
    BY <1>4 DEF PutCert, PutTemplate, UpdateTemplate, DeleteTemplate, DeleteCert, CreatePort, ReplacePort, DeletePort, hist
  <2>3. QED BY <1>1, <1>3, <1>4, <2>1, <2>2, ListenerLocal
<1>5. CASE PutScript(s) \/ PutScriptWithout(s) \/ Bind(s) \/ Unbind(s) \/ DeleteScript(s)
  <2>1. f.cur \in Policies \cup Rules /\ (Unbind(s) \/ DeleteScript(s) => f.cur \in Policies)
    <3>1. f.at \in {"script", "script_without", "bind", "unbind", "no_script"}
          /\ (Unbind(s) \/ DeleteScript(s) => f.at \in {"unbind", "no_script"})
      BY <1>1, <1>5 DEF PutScript, PutScriptWithout, Bind, Unbind, DeleteScript, At
    <3>2. QED BY <1>1, <3>1, Places
  <2>2. overlapped' = overlapped
    BY <1>5 DEF PutScript, PutScriptWithout, Import, Bind, Unbind, DeleteScript, hist
  <2>3. QED BY <1>1, <1>3, <1>5, <2>1, <2>2, PolicyLocal
<1>6. CASE CreateVs(s) \/ DeleteVs(s) \/ ReadPorts(s) \/ WritePorts(s)
  <2>1. f.cur \in LBs
    <3>1. f.at \in {"vs", "no_vs", "read_ports", "write_ports"}
      BY <1>1, <1>6 DEF CreateVs, DeleteVs, ReadPorts, WritePorts, At
    <3>2. QED BY <1>1, <3>1, Places
  <2>2. overlapped' = overlapped
    BY <1>6 DEF CreateVs, DeleteVs, ReadPorts, WritePorts, hist
  <2>3. QED BY <1>1, <1>3, <1>6, <2>1, <2>2, VsLocal
<1>7. CASE MarkOne(s) \/ MarkEarly(s) \/ MarkActive(s) \/ DeleteRow(s) \/ DeleteLbRow(s)
  BY <1>1, <1>2, <1>7, StatusLocal, StillIs DEF Still
<1>8. CASE UpdateTls(s)
  <2>1. f.cur \in Listeners
    BY <1>1, <1>8, Places DEF UpdateTls, At
  <2>2. QED BY <1>1, <1>3, <1>8, <2>1, TlsLocal DEF UpdateTls, hist
<1>9. QED BY <1>4, <1>5, <1>6, <1>7, <1>8 DEF Tasked

LEMMA TasksKeep ==
  ASSUME ShapeAssumption, Inv, NEW s \in Slots, Tasked(s) \/ ReadPorts(s), \A l \in LBs : LbOK(l)
  PROVE  \A l \in LBs : LbOK(l)'
<1>1. PICK f \in Flows, g \in Flows : /\ f = flow[s] /\ g = flow'[s] /\ Shape(f) /\ Shape(g) /\ g.on = f.on
                                      /\ f.step = "run" /\ f.at # "end" /\ g.step = "run" /\ Only(s) /\ Inv'
                                      /\ Tasked(s) => Moves(f, g)
  <2>1. CASE Tasked(s)
    BY <2>1, TaskStep DEF Moves, Same
  <2>2. CASE ReadPorts(s)
    <3>1. Inv'
      BY <2>2, NextIs, InvNext
    <3>2. PICK f \in Flows, e \in Flows, g \in Flows : f = flow[s] /\ g = flow'[s] /\ Shape(f) /\ Shape(g) /\ Moves(e, g) /\ Only(s)
                                       /\ e = [f EXCEPT !.read = vports \cap ListenersOf(Target(s))]
      BY <2>2, ReadStep
    <3>3. f.step = "run" /\ f.at = "read_ports"
      BY <2>2, <3>2 DEF ReadPorts, At
    <3>4. e.on = f.on /\ e.step = f.step
      BY <3>2 DEF Flows
    <3>5. g.on = f.on /\ g.step = "run"
      BY <3>2, <3>3, <3>4 DEF Moves, Same
    <3>6. Tasked(s) => Moves(f, g)
      BY <3>2, TaskStep
    <3>7. QED BY <3>1, <3>2, <3>3, <3>5, <3>6
  <2>3. QED BY <2>1, <2>2
<1> DEFINE l == Lb(f.on)
<1>2. l \in LBs
  BY <1>1, ShapeIs
<1>3. (\A m \in LBs \ {l} : Untouched(m)) /\ overlapped' = overlapped
  BY <1>1, <1>2, TaskLocal
<1> HIDE DEF l
<1>4. \A m \in LBs : Settled(m)' <=> Settled(m)
  BY <1>3 DEF Settled
<1>5. ASSUME NEW m \in LBs \ {l} PROVE LbOK(m)'
  <2>1. s \notin On(m) /\ s \notin On(m)'
    <3>1. Lb(f.on) # m /\ Lb(g.on) # m
      BY <1>1, <1>5 DEF l
    <3>2. QED BY <1>1, <3>1 DEF On, Lb, ListenerAt, PolicyAt
  <2>2. LbOK(m) /\ Untouched(m) /\ (Settled(m)' => Settled(m))
    BY <1>3, <1>4
  <2>3. QED BY <1>1, <2>1, <2>2, OtherLb
<1>6. ASSUME Settled(l)' PROVE LbOK(l)'
  <2>1. Settled(l) /\ LbOK(l) /\ ~Ending(f) /\ Lb(f.on) = l /\ f.step # "idle"
    BY <1>1, <1>2, <1>4, <1>6 DEF Ending, l
  <2>2. LbGood(f, l)
    BY <1>1, <1>2, <2>1, AtTask
  <2>3. Worked(l, g)
    <3>1. CASE Tasked(s)
      <4>1. Doing(l, f, g)
        BY <1>1, <1>2, <2>1, <2>2, <3>1 DEF Doing
      <4>2. Works(s, l, f, g)
        BY <1>1, <4>1 DEF Works
      <4>3. QED BY <1>2, <3>1, <4>2, TaskWorked
    <3>2. CASE ReadPorts(s)
      BY <1>1, <1>2, <2>1, <2>2, <3>2, ReadTask
    <3>3. QED BY <3>1, <3>2
  <2>4. /\ IF Ending(g) THEN LbGood(Idle, l)' /\ Ended(g)' ELSE LbGood(g, l)'
        /\ status[l] = "GONE" => status'[l] = "GONE"
        /\ \A o \in Below(l) : status'[o] = "ERROR" => status[o] = "ERROR"
    BY <2>3 DEF Worked
  <2>5. QED BY <1>1, <1>2, <2>1, <2>4, WorkStep
<1>7. LbOK(l)'
  BY <1>6 DEF LbOK
<1>8. QED BY <1>5, <1>7

-----------------------------------------------------------------------------
(* Which objects have rows.                                                *)
LEMMA RowedFrame ==
  ASSUME ShapeAssumption, FlowInv, \A o \in Objects : Rowed(o), NEW s \in Slots, Only(s),
         \A o \in Objects : status'[o] = "NEW" => status[o] = "NEW",
         \A o \in Parts : status'[Up(o)] = "NEW" /\ status[o] = "NEW" => status'[o] = "NEW",
         \A o \in Policies \cup Rules : status'[Up(o)] = "GONE" => status'[o] \in {"NEW", "GONE"},
         flow'[s].step # "idle" => status'[flow'[s].on] # "NEW"
  PROVE  \A o \in Objects : Rowed(o)'
<1>1. TAKE o \in Objects
<1>2. o \notin LBs /\ status'[Up(o)] = "NEW" => status'[o] = "NEW"
  <2>1. SUFFICES ASSUME o \notin LBs, status'[Up(o)] = "NEW" PROVE status'[o] = "NEW"
    OBVIOUS
  <2>2. o \in Parts
    BY <2>1 DEF Objects, Parts
  <2>3. Up(o) \in Objects
    BY <2>2, PartTree
  <2>4. status[o] = "NEW"
    BY <2>1, <2>3 DEF Rowed
  <2>5. QED BY <2>1, <2>2, <2>4
<1>3. \A t \in Slots : flow'[t].step # "idle" /\ flow'[t].on = o => status'[o] # "NEW"
  <2>1. TAKE t \in Slots
  <2>2. CASE t = s
    BY <2>2
  <2>3. CASE t # s
    <3>1. flow'[t] = flow[t]
      BY <2>3 DEF Only
    <3>2. QED BY <3>1 DEF Rowed
  <2>4. QED BY <2>2, <2>3
<1>4. QED BY <1>2, <1>3 DEF Rowed, Up

LEMMA SameRows ==
  ASSUME ShapeAssumption, FlowInv, \A o \in Objects : Rowed(o), NEW s \in Slots, Only(s),
         \A o \in Objects : status'[o] = "NEW" <=> status[o] = "NEW",
         \A o \in Parts : status'[o] = "GONE" <=> status[o] = "GONE",
         flow'[s].step # "idle" => flow[s].step # "idle" /\ flow[s].on \in Objects /\ flow'[s].on = flow[s].on
  PROVE  \A o \in Objects : Rowed(o)'
<1>1. \A o \in Parts : status'[Up(o)] = "NEW" /\ status[o] = "NEW" => status'[o] = "NEW"
  BY PartTree
<1>2. \A o \in Policies \cup Rules : status'[Up(o)] = "GONE" => status'[o] \in {"NEW", "GONE"}
  <2>1. TAKE o \in Policies \cup Rules
  <2>2. o \in Objects /\ o \in Parts /\ Up(o) \in Parts
    BY PolicyTree, RuleTree, ListenerTree
  <2>3. QED BY <2>2 DEF Rowed
<1>3. flow'[s].step # "idle" => status'[flow'[s].on] # "NEW"
  BY DEF Rowed
<1>4. QED BY <1>1, <1>3, <1>2, RowedFrame

LEMMA TaskRows ==
  ASSUME ShapeAssumption, Inv, NEW s \in Slots, Tasked(s) \/ ReadPorts(s), \A o \in Objects : Rowed(o)
  PROVE  \A o \in Objects : Rowed(o)'
<1>1. PICK f \in Flows : f = flow[s] /\ Shape(f) /\ Only(s) /\ Target(s) = f.cur /\ flow'[s].on = f.on /\ f.step # "idle"
                         /\ f.on \in Objects
  <2>1. CASE Tasked(s)
    BY <2>1, TaskStep, ShapeIs DEF Target, Moves, Same
  <2>2. CASE ReadPorts(s)
    <3>2. PICK f \in Flows, e \in Flows, g \in Flows : f = flow[s] /\ g = flow'[s] /\ Shape(f) /\ Shape(g) /\ Moves(e, g) /\ Only(s)
                                       /\ e = [f EXCEPT !.read = vports \cap ListenersOf(Target(s))]
      BY <2>2, ReadStep
    <3>3. e.on = f.on /\ f.on \in Objects /\ f.step # "idle"
      BY <3>2, ShapeIs DEF Flows
    <3>4. QED BY <3>2, <3>3 DEF Moves, Same, Target
  <2>3. QED BY <2>1, <2>2
<1>2. Typed /\ FlowInv
  BY InvIs
<1>3. CASE DeleteRow(s)
  <2>1. f.at = "row" /\ \A o \in Objects : status'[o] = IF o \in Below(f.cur) THEN "GONE" ELSE status[o]
    BY <1>1, <1>3 DEF DeleteRow, At
  <2>2. f.cur \in Parts /\ f.cur \in Objects /\ f.on \in Chain(f.cur) /\ f.on \in Objects
    BY <1>1, <2>1, Places, ShapeIs
  <2>3. status[f.on] # "NEW"
    BY <1>1, <2>2 DEF Rowed
  <2>4. status[Up(f.cur)] # "NEW"
    <3>1. CASE f.on = f.cur
      BY <2>2, <2>3, <3>1, PartTree DEF Rowed
    <3>2. CASE f.on # f.cur
      <4>1. f.cur \in Listeners /\ f.on = Up(f.cur)
        <5>1. f.on \in LBs
          BY <1>1, <3>2, ShapeIs
        <5>2. f.cur \notin Policies /\ f.cur \notin Rules
          BY <1>1, <2>1, <3>2, AtPolicy, AtRule, ShapeIs DEF Ops
        <5>3. f.cur \in Listeners
          BY <2>2, <5>2 DEF Parts
        <5>4. QED BY <2>2, <3>2, <5>3, ListenerTree
      <4>2. QED BY <2>3, <4>1
    <3>3. QED BY <3>1, <3>2
  <2>5. \A o \in Parts : status'[Up(o)] = "NEW" /\ status[o] = "NEW" => status'[o] = "NEW"
    <3>1. SUFFICES ASSUME NEW o \in Parts, status'[Up(o)] = "NEW", status[o] = "NEW" PROVE status'[o] = "NEW"
      OBVIOUS
    <3>2. o \in Objects /\ Up(o) \in Objects /\ Chain(o) = {o} \cup Chain(Up(o))
      BY PartTree
    <3>3. Up(o) \notin Below(f.cur) /\ status[Up(o)] = "NEW"
      BY <2>1, <3>1, <3>2
    <3>4. o \notin Below(f.cur)
      BY <2>4, <3>2, <3>3 DEF Below
    <3>5. QED BY <2>1, <3>1, <3>2, <3>4
  <2>6. \A o \in Policies \cup Rules : status'[Up(o)] = "GONE" => status'[o] \in {"NEW", "GONE"}
    <3>1. SUFFICES ASSUME NEW o \in Policies \cup Rules, status'[Up(o)] = "GONE" PROVE status'[o] \in {"NEW", "GONE"}
      OBVIOUS
    <3>2. o \in Parts /\ o \in Objects /\ Up(o) \in Objects /\ Chain(o) = {o} \cup Chain(Up(o))
      BY PartTree DEF Parts
    <3>3. CASE Up(o) \in Below(f.cur)
      <4>1. o \in Below(f.cur)
        BY <3>2, <3>3 DEF Below
      <4>2. QED BY <2>1, <3>2, <4>1
    <3>4. CASE Up(o) \notin Below(f.cur)
      BY <2>1, <3>1, <3>2, <3>4 DEF Rowed
    <3>5. QED BY <3>3, <3>4
  <2>7. \A o \in Objects : status'[o] = "NEW" => status[o] = "NEW"
    BY <2>1
  <2>8. flow'[s].step # "idle" => status'[flow'[s].on] # "NEW"
    BY <1>1, <2>2, <2>3, <2>7
  <2>9. QED BY <1>1, <1>2, <2>5, <2>6, <2>7, <2>8, RowedFrame
<1>4. CASE ~DeleteRow(s)
  <2>1. /\ \A o \in Objects : status'[o] = "NEW" <=> status[o] = "NEW"
        /\ \A o \in Parts : status'[o] = "GONE" <=> status[o] = "GONE"
    <3>1. CASE DeleteLbRow(s)
      <4>1. f.cur \in LBs /\ f.on = f.cur
        BY <1>1, <3>1, Places, ShapeIs DEF DeleteLbRow, At
      <4>2. status[f.cur] # "NEW" /\ f.cur \notin Parts /\ f.cur \in Objects
        BY <1>1, <4>1, LbTree DEF Rowed
      <4>3. \A o \in Objects : status'[o] = IF o = f.cur THEN "GONE" ELSE status[o]
        BY <1>1, <1>2, <3>1 DEF DeleteLbRow, Typed
      <4>4. QED BY <4>2, <4>3, PartTree
    <3>2. CASE MarkOne(s) \/ MarkEarly(s) \/ MarkActive(s)
      <4>1. PICK S : status' = Activated(S)
        BY <3>2 DEF MarkOne, MarkEarly, MarkActive
      <4>2. \A o \in Objects : status'[o] \in {status[o], "ACTIVE"} /\ (status[o] \in {"NEW", "GONE"} => status'[o] = status[o])
        BY <1>2, <4>1, ActivatedIs DEF Typed
      <4>3. QED BY <4>2, PartTree
    <3>3. CASE status' = status
      BY <3>3
    <3>4. QED
      BY <1>4, <3>1, <3>2, <3>3 DEF Tasked, PutCert, PutTemplate, UpdateTemplate, DeleteTemplate, DeleteCert, CreatePort,
         ReplacePort, DeletePort, PutScript, PutScriptWithout, Import, Bind, Unbind, DeleteScript, CreateVs, DeleteVs,
         ReadPorts, WritePorts, UpdateTls
  <2>2. QED BY <1>1, <1>2, <2>1, SameRows
<1>5. QED BY <1>3, <1>4

LEMMA ChainRows ==
  ASSUME ShapeAssumption, \A o \in Objects : Rowed(o), NEW o \in Objects, NEW y \in Chain(o)
  PROVE  /\ status[y] = "NEW" => status[o] = "NEW"
         /\ status[y] = "GONE" /\ y \notin LBs => status[o] \in {"NEW", "GONE"}
<1>1. \A z \in Parts : /\ status[Up(z)] = "NEW" => status[z] = "NEW"
                       /\ status[Up(z)] = "GONE" /\ Up(z) \notin LBs => status[z] \in {"NEW", "GONE"}
  <2>1. TAKE z \in Parts
  <2>2. z \in Objects /\ z \notin LBs
    BY PartTree
  <2>3. Up(z) \notin LBs => z \in Policies \cup Rules
    BY ListenerTree DEF Parts
  <2>4. QED BY <2>2, <2>3 DEF Rowed
<1>2. CASE o \in LBs
  BY <1>2, LbTree
<1>3. CASE o \in Listeners
  BY <1>1, <1>3, ListenerTree
<1>4. CASE o \in Policies
  <2>1. /\ o \in Parts /\ ListenerOf[o] \in Parts /\ Up(o) = ListenerOf[o] /\ Up(ListenerOf[o]) = LbOf[ListenerOf[o]]
        /\ y \in {o, ListenerOf[o], LbOf[ListenerOf[o]]} /\ LbOf[ListenerOf[o]] \in LBs /\ ListenerOf[o] \notin LBs
    BY <1>4, PolicyTree, ListenerTree
  <2>2. QED BY <1>1, <2>1
<1>5. CASE o \in Rules
  <2> DEFINE p == PolicyOf[o]
             x == ListenerOf[p]
  <2>1. /\ o \in Parts /\ p \in Parts /\ x \in Parts /\ Up(o) = p /\ Up(p) = x /\ Up(x) = LbOf[x]
        /\ y \in {o, p, x, LbOf[x]} /\ LbOf[x] \in LBs /\ x \notin LBs /\ p \notin LBs
    BY <1>5, RuleTree, PolicyTree, ListenerTree
  <2> HIDE DEF p, x
  <2>2. /\ status[p] = "NEW" => status[o] = "NEW"
        /\ status[p] = "GONE" => status[o] \in {"NEW", "GONE"}
    BY <1>1, <2>1
  <2>3. /\ status[x] = "NEW" => status[p] = "NEW"
        /\ status[x] = "GONE" => status[p] \in {"NEW", "GONE"}
    BY <1>1, <2>1
  <2>4. status[LbOf[x]] = "NEW" => status[x] = "NEW"
    BY <1>1, <2>1
  <2>5. QED BY <2>1, <2>2, <2>3, <2>4
<1>6. QED BY <1>2, <1>3, <1>4, <1>5, Kinds

LEMMA NewBelow ==
  ASSUME ShapeAssumption, \A o \in Objects : Rowed(o), NEW o \in Objects, status[o] = "NEW"
  PROVE  \A y \in Below(o) : status[y] = "NEW"
  BY ChainRows DEF Below

-----------------------------------------------------------------------------
(* The beginning of a flow, and its end.                                   *)
LEMMA SameUntouched ==
  ASSUME UNCHANGED <<status, tls, device, hist>>
  PROVE  /\ \A m \in LBs : Untouched(m)
         /\ status' = status /\ overlapped' = overlapped
<1>1. /\ status' = status /\ tls' = tls /\ vs' = vs /\ vports' = vports /\ sslOn' = sslOn /\ bound' = bound
      /\ template' = template /\ scripts' = scripts /\ inScript' = inScript /\ revived' = revived
      /\ unbound' = unbound /\ bare' = bare /\ overlapped' = overlapped
  BY DEF device, port, files, hist
<1>2. \A o : SameStatus(o) /\ SameListener(o) /\ SamePolicy(o)
  BY <1>1 DEF SameStatus, SameListener, SamePolicy
<1>3. QED BY <1>1, <1>2 DEF Untouched

LEMMA BeginKeeps ==
  ASSUME ShapeAssumption, Inv, NEW s \in Slots, Begin(s), \A o \in Objects : Rowed(o), \A l \in LBs : LbOK(l)
  PROVE  (\A o \in Objects : Rowed(o)') /\ \A l \in LBs : LbOK(l)'
<1>1. PICK f \in Flows, g \in Flows : /\ f = flow[s] /\ g = flow'[s] /\ Shape(f) /\ Alike(f, g) /\ Inv' /\ Only(s)
                                      /\ f.step = "queued" /\ g.step = "run"
  BY BeginStep DEF Alike
<1> DEFINE l == Lb(f.on)
<1>2. l \in LBs /\ f.on \in Objects
  BY <1>1, ShapeIs
<1>3. (\A m \in LBs : Untouched(m)) /\ status' = status /\ overlapped' = overlapped
  BY SameUntouched DEF Begin
<1>4. /\ Shape(g) /\ g.on = f.on /\ f.at # "end" /\ ~Ending(f) /\ ~Ending(g) /\ Lb(f.on) = l
      /\ g.op = f.op /\ g.on = f.on /\ g.cert = f.cert /\ g.full = f.full /\ g.rest = f.rest /\ g.cur = f.cur /\ g.at = f.at
      /\ g.read = f.read
  BY <1>1 DEF Alike, Shape, Ending
<1> HIDE DEF l
<1>5. \A o \in Objects : Rowed(o)'
  BY <1>1, <1>2, <1>3, <1>4, SameRows DEF Inv
<1>6. ASSUME NEW m \in LBs \ {l} PROVE LbOK(m)'
  <2>1. s \notin On(m) /\ s \notin On(m)'
    <3>1. Lb(f.on) # m /\ Lb(g.on) # m
      BY <1>4, <1>6
    <3>2. QED BY <1>1, <3>1 DEF On, Lb, ListenerAt, PolicyAt
  <2>2. LbOK(m) /\ Untouched(m) /\ (Settled(m)' => Settled(m))
    BY <1>3 DEF Settled
  <2>3. QED BY <1>1, <2>1, <2>2, OtherLb
<1>7. LbOK(l)'
  <2>1. SUFFICES ASSUME Settled(l)' PROVE LbOK(l)'
    BY DEF LbOK
  <2>2. Settled(l) /\ LbOK(l)
    BY <1>2, <1>3, <2>1 DEF Settled
  <2>3. LbGood(f, l)
    BY <1>1, <1>2, <1>4, <2>2, AtTask
  <2>4. LbGood(g, l)
    BY <1>1, <1>2, <1>4, <2>3, LbGoodAlike
  <2>5. LbGood(g, l)'
    BY <1>1, <1>2, <1>3, <1>4, <2>4, LbFrame
  <2>6. QED BY <1>1, <1>2, <1>3, <1>4, <2>2, <2>5, WorkStep
<1>8. QED BY <1>5, <1>6, <1>7

LEMMA FinishKeeps ==
  ASSUME ShapeAssumption, Inv, NEW s \in Slots, Finish(s), \A o \in Objects : Rowed(o), \A l \in LBs : LbOK(l)
  PROVE  (\A o \in Objects : Rowed(o)') /\ \A l \in LBs : LbOK(l)'
<1>1. Inv' /\ Only(s) /\ flow'[s] = Idle /\ Ending(flow[s]) /\ FlowInv
  BY FinishStep DEF Inv
<1>2. (\A m \in LBs : Untouched(m)) /\ status' = status /\ overlapped' = overlapped
  BY SameUntouched DEF Finish
<1>3. flow'[s].step = "idle"
  BY <1>1 DEF Idle
<1>4. \A o \in Objects : Rowed(o)'
  BY <1>1, <1>2, <1>3, SameRows
<1>5. ASSUME NEW l \in LBs, Settled(l)' PROVE LbOK(l)'
  <2>1. Settled(l) /\ LbOK(l) /\ Untouched(l)
    BY <1>2, <1>5 DEF Settled
  <2>2. PICK f \in Flows : AtWork(f, l) /\ LbGood(f, l)
    BY <2>1 DEF LbOK
  <2>3. \A t \in On(l)' : t \in On(l) /\ t \in Slots /\ t # s /\ flow'[t] = flow[t]
    BY <1>1, <1>3 DEF On, Only, Lb, ListenerAt, PolicyAt
  <2>4. AtWork(f, l)' /\ (f = Idle \/ (Shape(f) /\ Lb(f.on) = l))
    <3>1. CASE f = Idle /\ \A t \in On(l) : Ending(flow[t])
      BY <2>3, <3>1 DEF AtWork
    <3>2. CASE \E u \in On(l) : f = flow[u] /\ ~Ending(f) /\ \A t \in On(l) \ {u} : Ending(flow[t])
      <4>1. PICK u \in On(l) : f = flow[u] /\ ~Ending(f) /\ \A t \in On(l) \ {u} : Ending(flow[t])
        BY <3>2
      <4>2. u # s /\ u \in Slots /\ Lb(f.on) = l /\ f.step # "idle"
        BY <1>1, <4>1 DEF On
      <4>3. flow'[u] = flow[u] /\ u \in On(l)'
        BY <1>1, <4>1, <4>2 DEF On, Only, Lb, ListenerAt, PolicyAt
      <4>4. Shape(f)
        BY <1>1, <4>1, <4>2 DEF FlowInv, Idle
      <4>5. QED BY <2>3, <4>1, <4>2, <4>3, <4>4 DEF AtWork
    <3>3. QED BY <2>2, <3>1, <3>2 DEF AtWork
  <2>5. LbGood(f, l)'
    BY <2>1, <2>2, <2>4, LbFrame
  <2>6. ASSUME NEW t \in On(l)', NEW e \in Flows, e = flow'[t], Ending(e) PROVE Ended(e)'
    <3>1. t \in On(l) /\ e = flow[t] /\ t \in Slots
      BY <2>3, <2>6
    <3>2. Ended(e) /\ Shape(e) /\ Lb(e.on) = l
      BY <1>1, <2>1, <2>6, <3>1 DEF LbOK, On, FlowInv, Ending, Idle
    <3>3. QED BY <1>2, <3>2, EndedFrame
  <2>7. QED BY <2>2, <2>4, <2>5, <2>6 DEF LbOK
<1>6. QED BY <1>4, <1>5 DEF LbOK

-----------------------------------------------------------------------------
(* The admission of a request.                                             *)
LEMMA AdmitsIs ==
  ASSUME ShapeAssumption, NEW s \in Slots, NEW g \in Flows, Admits(s, g)
  PROVE  \E new : /\ Admission(s, g, new) /\ g.on \in Objects /\ Lb(g.on) \in LBs /\ Shape(g)
                  /\ new = {} \/ (g.on \in LBs /\ g.op = "create" /\ new = Under(g.on))
                  /\ status[Lb(g.on)] \in {"ACTIVE", "ERROR", "NEW"}
                  /\ g.step = "queued" /\ g.at # "end" /\ ~Ending(g) /\ g # Idle
<1>1. PICK new : /\ Admission(s, g, new)
                 /\ new = {} \/ (g.on \in LBs /\ g.op = "create" /\ new = Under(g.on))
                 /\ status[Lb(g.on)] \in {"ACTIVE", "ERROR", "NEW"}
  <2>1. CASE ForPart(s, g)
    BY <2>1 DEF ForPart
  <2>2. CASE ForLbCreate(s, g)
    <3>1. Admission(s, g, g.rest) /\ g.on \in LBs /\ g.op = "create" /\ status[g.on] = "NEW" /\ g.rest \in {{}, Under(g.on)}
      BY <2>2 DEF ForLbCreate
    <3>2. QED BY <3>1, LbTree
  <2>3. CASE ForLbUpdate(s, g) \/ ForLbDelete(s, g)
    <3>1. Admission(s, g, {}) /\ g.on \in LBs /\ status[g.on] \in {"ACTIVE", "ERROR"}
      BY <2>3 DEF ForLbUpdate, ForLbDelete
    <3>2. QED BY <3>1, LbTree
  <2>4. QED BY <2>1, <2>2, <2>3 DEF Admits
<1>2. Shape(g) /\ g.step = "queued"
  BY <1>1 DEF Admission
<1>3. g.at # "end" /\ ~Ending(g)
  BY <1>2 DEF Shape, Ending
<1>4. g.on \in Objects /\ Lb(g.on) \in LBs /\ g # Idle
  BY <1>2, ShapeIs
<1>5. QED BY <1>1, <1>2, <1>3, <1>4

LEMMA AdmissionIs ==
  ASSUME ShapeAssumption, NEW s \in Slots, NEW g \in Flows, NEW new, Admission(s, g, new), new \subseteq Objects, g.on \in Objects
  PROVE  /\ \A o \in Objects : status'[o] = IF o \in Chain(g.on) \cup new THEN "PENDING" ELSE status[o]
         /\ \A o \in Objects : o \in revived' <=> o \in revived \/ (o \in Chain(g.on) \ {g.on} /\ status[o] = "ERROR")
         /\ tls' = tls /\ vs' = vs /\ template' = template /\ vports' = vports /\ sslOn' = sslOn /\ bound' = bound
         /\ bare' = bare /\ unbound' = unbound /\ scripts' = scripts /\ inScript' = inScript
         /\ \A m \in LBs : Settled(m)' => Settled(m)
         /\ Settled(Lb(g.on))' => \A t \in On(Lb(g.on)) : flow[t].step # "revert"
                                     /\ (flow[t].on = Lb(g.on) => Ending(flow[t]) /\ flow[t].op # "create")
<1>1. /\ tls' = tls /\ vs' = vs /\ template' = template /\ vports' = vports /\ sslOn' = sslOn /\ bound' = bound
      /\ bare' = bare /\ unbound' = unbound /\ scripts' = scripts /\ inScript' = inScript
  BY DEF Admission, device, port, files
<1>2. /\ \A o \in Objects : status'[o] = IF o \in Chain(g.on) \cup new THEN "PENDING" ELSE status[o]
      /\ \A o \in Objects : o \in revived' <=> o \in revived \/ (o \in Chain(g.on) \ {g.on} /\ status[o] = "ERROR")
  BY DEF Admission
<1> DEFINE Meets == \E t \in On(Lb(g.on)) : \/ flow[t].step = "revert"
                                            \/ flow[t].on = Lb(g.on) /\ (~Ending(flow[t]) \/ flow[t].op = "create")
<1>3. overlapped' = IF Meets THEN overlapped \cup {Lb(g.on)} ELSE overlapped
  BY DEF Admission, Ending
<1>4. /\ \A m \in LBs : Settled(m)' => Settled(m)
      /\ Settled(Lb(g.on))' => \A t \in On(Lb(g.on)) : flow[t].step # "revert"
                                     /\ (flow[t].on = Lb(g.on) => Ending(flow[t]) /\ flow[t].op # "create")
  <2>1. \A m : Settled(m)' <=> m \notin overlapped'
    BY DEF Settled
  <2>2. \A m : Settled(m) <=> m \notin overlapped
    BY DEF Settled
  <2>3. CASE Meets
    <3>1. overlapped' = overlapped \cup {Lb(g.on)}
      <4> HIDE DEF Meets
      <4>1. QED BY <1>3, <2>3
    <3>2. ~(Settled(Lb(g.on))')
      BY <2>1, <3>1
    <3>3. QED BY <2>1, <2>2, <3>1, <3>2
  <2>4. CASE ~Meets
    <3>1. overlapped' = overlapped
      <4> HIDE DEF Meets
      <4>1. QED BY <1>3, <2>4
    <3>2. \A t \in On(Lb(g.on)) : flow[t].step # "revert"
                                     /\ (flow[t].on = Lb(g.on) => Ending(flow[t]) /\ flow[t].op # "create")
      BY <2>4 DEF Ending
    <3>3. QED BY <2>1, <2>2, <3>1, <3>2
  <2>5. QED BY <2>3, <2>4
<1>5. QED BY <1>1, <1>2, <1>4

(* No flow of the load balancer is at work when a request is admitted.     *)
LEMMA AdmitIdle ==
  ASSUME ShapeAssumption, Inv, NEW l \in LBs, LbOK(l), Settled(l), status[l] \in {"ACTIVE", "ERROR", "NEW"},
         \A t \in On(l) : flow[t].step # "revert" /\ (flow[t].on = l => Ending(flow[t]) /\ flow[t].op # "create")
  PROVE  LbGood(Idle, l) /\ \A t \in On(l) : Ending(flow[t])
<1>1. PICK f \in Flows : AtWork(f, l) /\ LbGood(f, l)
  BY DEF LbOK
<1>2. CASE f = Idle /\ \A t \in On(l) : Ending(flow[t])
  BY <1>1, <1>2
<1>3. CASE \E u \in On(l) : f = flow[u] /\ ~Ending(f)
  <2>1. PICK u \in On(l) : f = flow[u] /\ ~Ending(f)
    BY <1>3
  <2>2. f.step # "revert" /\ f.on # l /\ f.step # "idle"
    BY <2>1 DEF On
  <2>3. f # Idle
    BY <2>2 DEF Idle
  <2>4. status[l] = "PENDING"
    BY <1>1, <2>2, <2>3 DEF LbGood, LbStatus, Creates
  <2>5. QED BY <2>4
<1>4. QED BY <1>1, <1>2, <1>3 DEF AtWork

LEMMA AdmitStep ==
  ASSUME ShapeAssumption, Inv, NEW s \in Slots, NEW l \in LBs, NEW g \in Flows, flow[s] = Idle, flow'[s] = g, Only(s),
         Lb(g.on) = l, g.step = "queued", \A t \in On(l) : Ending(flow[t]), LbOK(l), Settled(l),
         status[l] # "GONE", \A o \in Below(l) : status'[o] = "ERROR" => status[o] = "ERROR",
         LbGood(g, l)'
  PROVE  LbOK(l)'
<1>1. ~Ending(g) /\ g.step # "idle"
  BY DEF Ending
<1>2. s \in On(l)'
  BY <1>1 DEF On, Lb, ListenerAt, PolicyAt
<1>3. \A t \in On(l)' : t # s => t \in On(l) /\ flow'[t] = flow[t]
  BY DEF On, Only, Lb, ListenerAt, PolicyAt
<1>4. \A t \in On(l)' \ {s} : Ending(flow'[t])
  BY <1>3
<1>5. AtWork(g, l)'
  <2>1. \E u \in On(l)' : g = flow'[u] /\ ~Ending(g) /\ \A t \in On(l)' \ {u} : Ending(flow'[t])
    BY <1>1, <1>2, <1>4
  <2>2. QED BY <2>1 DEF AtWork
<1>6. ASSUME NEW t \in On(l)', NEW e \in Flows, e = flow'[t], Ending(e) PROVE Ended(e)'
  <2>1. t # s
    BY <1>1, <1>6
  <2>2. t \in On(l) /\ e = flow[t] /\ t \in Slots
    BY <1>3, <1>6, <2>1 DEF On
  <2>3. Ended(e) /\ Shape(e) /\ Lb(e.on) = l
    BY <1>6, <2>2 DEF LbOK, On, Inv, FlowInv, Ending, Idle
  <2>4. QED BY <2>3, EndedFrame
<1>7. QED BY <1>5, <1>6 DEF LbOK

(* A request for a load balancer, and for an object below.                 *)
LEMMA AdmitRows ==
  ASSUME ShapeAssumption, Inv, NEW s \in Slots, NEW g \in Flows, Admits(s, g), \A o \in Objects : Rowed(o)
  PROVE  \A o \in Objects : Rowed(o)'
<1>1. PICK new : /\ Admission(s, g, new) /\ g.on \in Objects
                 /\ new = {} \/ (g.on \in LBs /\ g.op = "create" /\ new = Under(g.on))
  BY AdmitsIs
<1>2. Only(s) /\ flow'[s] = g /\ FlowInv
  BY <1>1, AdmissionInv DEF Inv
<1>3. new \subseteq Objects /\ \A y \in new : g.on \in LBs /\ Lb(y) = g.on
  BY <1>1, UnderTree, PartTree
<1> DEFINE S == Chain(g.on) \cup new
<1>4. \A o \in Objects : status'[o] = IF o \in S THEN "PENDING" ELSE status[o]
  BY <1>1, <1>3, AdmissionIs
<1>5. \A o \in Parts : o \in S => Up(o) \in S
  <2>1. TAKE o \in Parts
  <2>2. o \in Objects /\ Up(o) \in Objects /\ Chain(o) = {o} \cup Chain(Up(o)) /\ Lb(Up(o)) = Lb(o)
    BY PartTree
  <2>3. CASE o \in Chain(g.on)
    <3>1. Up(o) \in Chain(o) /\ Chain(o) \subseteq Chain(g.on)
      BY <1>1, <2>2, <2>3, ChainTree
    <3>2. QED BY <3>1
  <2>4. CASE o \in new
    <3>1. g.on \in LBs /\ Lb(Up(o)) = g.on /\ new = Under(g.on)
      BY <1>1, <1>3, <2>2, <2>4
    <3>2. CASE Up(o) \in LBs
      <4>1. Up(o) = g.on
        BY <3>1, <3>2, LbTree
      <4>2. QED BY <1>1, <4>1, ChainTree
    <3>3. CASE Up(o) \notin LBs
      <4>1. Up(o) \in Parts
        BY <2>2, <3>3 DEF Parts, Objects
      <4>2. QED BY <3>1, <4>1, UnderTree
    <3>4. QED BY <3>2, <3>3
  <2>5. QED BY <2>3, <2>4
<1>6. g.on \in S
  BY <1>1, ChainTree
<1> HIDE DEF S
<1>7. \A o \in Objects : status'[o] = "NEW" => status[o] = "NEW"
  BY <1>4
<1>8. \A o \in Parts : status'[Up(o)] = "NEW" /\ status[o] = "NEW" => status'[o] = "NEW"
  BY <1>4, <1>5, PartTree
<1>9. \A o \in Policies \cup Rules : status'[Up(o)] = "GONE" => status'[o] \in {"NEW", "GONE"}
  <2>1. TAKE o \in Policies \cup Rules
  <2>2. o \in Parts /\ o \in Objects /\ Up(o) \in Objects
    BY PartTree DEF Parts
  <2>3. QED BY <1>4, <1>5, <2>2 DEF Rowed
<1>10. status'[g.on] # "NEW"
  BY <1>1, <1>4, <1>6
<1>11. QED BY <1>2, <1>7, <1>8, <1>9, <1>10, RowedFrame

LEMMA IdleIs ==
  ASSUME ShapeAssumption, NEW l \in LBs, LbGood(Idle, l)
  PROVE  /\ Live(Idle, l) <=> HasRow(l) /\ status[l] # "ERROR"
         /\ Live(Idle, l) => l \in vs
         /\ Live(Idle, l) => \A x \in ListenersOf(l) : x \notin revived /\ status[x] = "ACTIVE" => Served(x)
         /\ \A x \in ListenersOf(l) : CleanListener(Idle, x)
         /\ \A p \in Policies : LbOf[ListenerOf[p]] = l => CleanPolicy(p)
         /\ Live(Idle, l) => \A p \in Policies : LbOf[ListenerOf[p]] = l /\ p \notin revived /\ ListenerOf[p] \in vports
                                /\ status[p] = "ACTIVE" => p \in bound \cup unbound /\ Listed(p)
         /\ Live(Idle, l) => \A o \in Under(l) : status[o] # "PENDING"
<1>1. ~Deletes(Idle, l) /\ ~Creates(Idle, l) /\ Idle.on \notin Under(l)
  <2>1. Idle.op = "none" /\ Idle.on = None
    BY DEF Idle
  <2>2. None \notin Under(l)
    BY DEF ShapeAssumption, Under, Below
  <2>3. QED BY <2>1, <2>2 DEF Deletes, Creates
<1>2. Live(Idle, l) <=> HasRow(l) /\ status[l] # "ERROR"
  BY <1>1 DEF Live
<1>3. Live(Idle, l) => l \in vs
  BY <1>1 DEF LbGood
<1>4. \A x \in ListenersOf(l) : LbOf[x] = l /\ ListenerOK(Idle, x) /\ CleanListener(Idle, x)
  BY DEF LbGood, ListenersOf
<1>5. \A p \in Policies : LbOf[ListenerOf[p]] = l => PolicyOK(Idle, p) /\ CleanPolicy(p)
  BY DEF LbGood
<1>6. Live(Idle, l) => \A o \in Under(l) : status[o] # "PENDING"
  BY <1>1, BelowLb DEF LbGood, Calm
<1>7. QED BY <1>2, <1>3, <1>4, <1>5, <1>6 DEF ListenerOK, PolicyOK

LEMMA PartRequestKeeps ==
  ASSUME ShapeAssumption, Inv, NEW s \in Slots, NEW g \in Flows, ForPart(s, g), \A o \in Objects : Rowed(o),
         NEW l \in LBs, l = Lb(g.on), LbGood(Idle, l)
  PROVE  LbGood(g, l)'
<1>1. /\ Shape(g) /\ g.step = "queued" /\ g.cur = g.on /\ g.on \in Parts /\ g.on \in Objects /\ Begins(g) /\ status[l] = "ACTIVE"
      /\ g.op = "create" => status[g.on] = "NEW" /\ HasRow(Up(g.on))
      /\ g.op # "create" => HasRow(g.on)
      /\ g.op \in Ops /\ g.on \notin LBs /\ g # Idle
      /\ g.cert = None \/ g.on \in Listeners
      /\ g.on \in Listeners /\ g.op # "update" => g.cert = tls[g.on]
  BY ShapeIs, PartTree DEF ForPart, Admission
<1> DEFINE S == Chain(g.on)
<1>2. /\ \A o \in Objects : status'[o] = IF o \in S THEN "PENDING" ELSE status[o]
      /\ \A o \in Objects : o \in revived' <=> o \in revived \/ (o \in S \ {g.on} /\ status[o] = "ERROR")
      /\ tls' = tls /\ vs' = vs /\ template' = template /\ vports' = vports /\ sslOn' = sslOn /\ bound' = bound
      /\ bare' = bare /\ unbound' = unbound /\ scripts' = scripts /\ inScript' = inScript
  <2>1. Admission(s, g, {})
    BY DEF ForPart
  <2>2. QED BY <1>1, <2>1, AdmissionIs
<1>3. S \subseteq Objects /\ l \in S /\ g.on \in S /\ l \in Objects /\ g.on # l
  BY <1>1, ChainTree, LbTree
<1>4. \A y \in S \ {g.on} : HasRow(y)
  <2>1. TAKE y \in S \ {g.on}
  <2>2. CASE y \in LBs
    <3>1. y = l
      BY <1>1, <2>2, ChainTree
    <3>2. QED BY <1>1, <3>1 DEF HasRow
  <2>3. CASE y \notin LBs /\ g.op # "create"
    BY <1>1, <2>3, ChainRows DEF HasRow
  <2>4. CASE y \notin LBs /\ g.op = "create"
    <3>1. Up(g.on) \in Objects /\ Chain(g.on) = {g.on} \cup Chain(Up(g.on))
      BY <1>1, PartTree
    <3>2. y \in Chain(Up(g.on))
      BY <3>1
    <3>3. QED BY <1>1, <2>4, <3>1, <3>2, ChainRows DEF HasRow
  <2>5. QED BY <2>2, <2>3, <2>4
<1> HIDE DEF S
<1>5. status'[l] = "PENDING" /\ Live(Idle, l) /\ Live(g, l)'
  <2>1. status'[l] = "PENDING"
    BY <1>2, <1>3
  <2>2. ~Deletes(g, l)
    BY <1>1 DEF Deletes
  <2>3. QED BY <1>1, <2>1, <2>2, IdleIs DEF Live, HasRow
<1>6. /\ l \in vs
      /\ \A x \in ListenersOf(l) : x \notin revived /\ status[x] = "ACTIVE" => Served(x)
      /\ \A x \in ListenersOf(l) : CleanListener(Idle, x)
      /\ \A p \in Policies : LbOf[ListenerOf[p]] = l => CleanPolicy(p)
      /\ \A p \in Policies : LbOf[ListenerOf[p]] = l /\ p \notin revived /\ ListenerOf[p] \in vports
                                /\ status[p] = "ACTIVE" => p \in bound \cup unbound /\ Listed(p)
      /\ \A o \in Under(l) : status[o] # "PENDING"
  BY <1>5, IdleIs
<1>7. Typed
  BY InvIs
<1>8. \A y \in S \ {g.on} : y \in Under(l) /\ y \notin revived' => status[y] = "ACTIVE"
  <2>1. TAKE y \in S \ {g.on}
  <2>2. y \in Objects /\ HasRow(y)
    BY <1>3, <1>4
  <2>3. QED BY <1>2, <1>6, <1>7, <2>2 DEF HasRow, Typed, Statuses
<1>9. \A y \in Objects : g.on \in Under(y) => y \in S \ {g.on}
  BY DEF Under, Below, S
<1>10. ASSUME NEW x \in ListenersOf(l) PROVE ListenerOK(g, x)' /\ CleanListener(g, x)'
  <2>1. x \in Under(l) /\ x \in Listeners /\ x \in Objects /\ CleanListener(Idle, x) /\ LbOf[x] = l
    BY <1>6, <1>10, BelowLb, ListenerTree
  <2>2. ListenerOK(g, x)'
    <3>1. SUFFICES ASSUME x \notin revived', status'[x] = "ACTIVE" \/ (status'[x] = "PENDING" /\ g.on \in Under(x)) PROVE Served(x)'
      BY DEF ListenerOK, Under, Below, Chain, PolicyAt, ListenerAt, Lb, Objects
    <3>2. status[x] = "ACTIVE" /\ x \notin revived
      <4>1. CASE x \in S
        <5>1. x # g.on
          BY <1>2, <1>9, <2>1, <3>1, <4>1
        <5>2. QED BY <1>2, <1>8, <2>1, <3>1, <4>1, <5>1
      <4>2. CASE x \notin S
        BY <1>2, <1>9, <2>1, <3>1, <4>2
      <4>3. QED BY <4>1, <4>2
    <3>3. Served(x)
      BY <1>6, <1>10, <3>2
    <3>4. QED BY <1>2, <3>3 DEF Served
  <2>3. CleanListener(g, x)'
    <3>1. /\ status'[x] = "GONE" => status[x] = "GONE"
          /\ status'[x] = "NEW" => status[x] = "NEW"
      BY <1>2, <2>1
    <3>2. status[x] = "GONE" => x \notin vports
      BY <1>1, <1>5, <2>1 DEF CleanListener, Falling
    <3>3. QED BY <1>2, <2>1, <3>1, <3>2 DEF CleanListener
  <2>4. QED BY <2>2, <2>3
<1>11. ASSUME NEW p \in Policies, LbOf[ListenerOf[p]] = l PROVE PolicyOK(g, p)' /\ CleanPolicy(p)'
  <2>1. /\ p \in Under(l) /\ p \in Objects /\ ListenerOf[p] \in Objects /\ CleanPolicy(p) /\ \A r \in RulesOf(p) : r \in Objects
        /\ \A r \in RulesOf(p) : p \in Chain(r) /\ r # p
        /\ ListenerOf[p] # p /\ ListenerOf[p] \notin LBs
    BY <1>6, <1>11, BelowLb, PolicyTree, ListenerTree, RuleTree DEF RulesOf
  <2>2. Listed(p) => Listed(p)'
    BY <1>2, <2>1 DEF Listed, RulesOf
  <2>3. PolicyOK(g, p)'
    <3>1. SUFFICES ASSUME p \notin revived', ListenerOf[p] \in vports',
                          status'[p] = "ACTIVE" \/ (status'[p] \in {"PENDING", "ERROR"} /\ g.on \in RulesOf(p))
                   PROVE  p \in bound' \cup unbound' /\ Listed(p)'
      BY DEF PolicyOK, RulesOf
    <3>2. status[p] = "ACTIVE" /\ p \notin revived /\ ListenerOf[p] \in vports
      <4>1. CASE p \in S
        <5>1. p # g.on
          BY <1>2, <2>1, <3>1, <4>1
        <5>2. QED BY <1>2, <1>8, <2>1, <3>1, <4>1, <5>1
      <4>2. CASE p \notin S
        BY <1>2, <2>1, <3>1, <4>2 DEF S
      <4>3. QED BY <4>1, <4>2
    <3>3. p \in bound \cup unbound /\ Listed(p)
      BY <1>6, <1>11, <3>2
    <3>4. QED BY <1>2, <2>2, <3>3
  <2>4. CleanPolicy(p)'
    <3>1. SUFFICES ASSUME status'[ListenerOf[p]] # "GONE"
                   PROVE  /\ status'[p] = "GONE" => p \notin scripts'
                          /\ \A r \in RulesOf(p) : status'[r] = "GONE" => r \notin inScript'
      BY DEF CleanPolicy, RulesOf
    <3>2. status[ListenerOf[p]] # "GONE"
      <4>1. CASE ListenerOf[p] \in S
        BY <1>1, <1>4, <2>1, <4>1 DEF HasRow, Ops
      <4>2. CASE ListenerOf[p] \notin S
        BY <1>2, <2>1, <3>1, <4>2
      <4>3. QED BY <4>1, <4>2
    <3>3. /\ status'[p] = "GONE" => status[p] = "GONE"
          /\ \A r \in RulesOf(p) : status'[r] = "GONE" => status[r] = "GONE"
      BY <1>2, <2>1
    <3>4. QED BY <1>2, <2>1, <3>2, <3>3 DEF CleanPolicy
  <2>5. QED BY <2>3, <2>4
<1>12. \A o \in Under(l) : Calm(g, o)'
  <2>1. TAKE o \in Under(l)
  <2>2. o \in Objects /\ status[o] # "PENDING"
    BY <1>6, BelowLb
  <2>3. o \notin Chain(g.on) => status'[o] # "PENDING"
    BY <1>2, <2>2 DEF S
  <2>4. QED BY <1>1, <2>3 DEF Calm, Chain, PolicyAt, ListenerAt, Lb, Idle
<1>13. PartGood(g)'
  <2>1. g.at # "active"
    <3>1. g.on \in Listeners \/ g.on \in Policies \/ g.on \in Rules
      BY <1>1 DEF Parts
    <3>2. QED BY <1>1, <3>1 DEF Begins, Ops
  <2>2. status'[g.on] = "PENDING" /\ \A y \in Chain(g.on) : status'[y] = "PENDING"
    BY <1>2, <1>3 DEF S
  <2>3. QED BY <2>1, <2>2 DEF PartGood, OwnStatus, Chain, PolicyAt, ListenerAt, Lb
<1>14. FlowOK(g)'
  <2>1. CASE g.on \in Listeners
    <3> DEFINE x == g.on
    <3>1. x \in ListenersOf(l) /\ x \in Objects /\ CleanListener(Idle, x) /\ TlsInv(x)
      <4>1. x \in ListenersOf(l) /\ x \in Objects
        BY <2>1, ListenerTree DEF ListenersOf
      <4>2. QED BY <1>6, <1>7, <2>1, <4>1 DEF Typed
    <3>2. g.op = "create" => g.cert = tls[x] /\ template[x] = None /\ \A y \in Under(x) : status'[y] = "NEW"
      <4>1. SUFFICES ASSUME g.op = "create" PROVE g.cert = tls[x] /\ template[x] = None /\ \A y \in Under(x) : status'[y] = "NEW"
        OBVIOUS
      <4>2. \A y \in Below(x) : status[y] = "NEW" /\ y \in Objects
        BY <1>1, <4>1, NewBelow, BelowTree
      <4>3. \A y \in Under(x) : y \notin S
        BY <1>1, AboveTree DEF Under, S
      <4>4. QED BY <1>1, <1>2, <2>1, <3>1, <4>1, <4>2, <4>3 DEF CleanListener, Under
    <3>3. g.at = CASE g.op = "create" -> IF TlsOf[x] = None THEN "vport" ELSE "cert"
                  [] g.op = "update" -> IF TlsOf[x] = None THEN "replace" ELSE "cert"
                  [] g.op = "delete" -> IF TlsOf[x] = None THEN "no_vport" ELSE "no_template"
      BY <1>1, <2>1 DEF Begins
    <3>4. /\ g.op = "create" => g.at \in {"vport", "cert"}
          /\ g.op = "update" => g.at \in {"replace", "cert"}
          /\ g.op = "delete" => g.at \in {"no_vport", "no_template"}
          /\ g.at \in {"vport", "replace", "no_vport"} => TlsOf[x] = None
      BY <1>1, <3>3 DEF Ops
    <3>5. g.at \in {"vport", "replace", "no_vport"} => tls[x] = None /\ template[x] = None
      BY <3>1, <3>4 DEF TlsInv
    <3>6. \A y \in Under(x)' : y \in Under(x)
      BY DEF Under, Below, Chain, PolicyAt, ListenerAt, Lb, Objects
    <3>7. ListenerGood(g, x)'
      <4>1. g.op = "create" => g.cert = tls'[x] /\ \A y \in Under(x)' : status'[y] = "NEW"
        BY <1>2, <3>2, <3>6
      <4>2. /\ g.op = "create" /\ g.at \in {"cert", "template"} => template'[x] = None
            /\ g.op = "create" /\ g.at \in {"vport", "active"} => template'[x] = tls'[x]
            /\ g.at \in {"replace", "tls_row", "no_cert", "no_vport"} => template'[x] = None
        <5>1. g.at \in {"vport", "replace", "no_vport", "cert", "no_template"}
          BY <1>1, <3>4 DEF Ops
        <5>2. QED BY <1>2, <3>2, <3>5, <5>1
      <4>3. g.at \notin {"active", "tls_row", "row", "no_cert", "template"}
        BY <1>1, <3>4 DEF Ops
      <4>4. QED BY <4>1, <4>2, <4>3 DEF ListenerGood
    <3>8. QED BY <1>13, <2>1, <3>7, ListenerFlow
  <2>2. CASE g.on \in Policies
    <3>1. g.at \in {"unbind", "script"}
      BY <1>1, <2>2 DEF Begins
    <3>2. PolicyGood(g, g.on)'
      BY <3>1 DEF PolicyGood
    <3>3. QED BY <1>13, <2>2, <3>2, PolicyFlow
  <2>3. CASE g.on \in Rules
    <3>1. g.at \in {"script_without", "script"}
      BY <1>1, <2>3 DEF Begins
    <3>2. RuleGood(g, g.on)'
      BY <3>1 DEF RuleGood
    <3>3. QED BY <1>13, <2>3, <3>2, RuleFlow
  <2>4. QED BY <1>1, <2>1, <2>2, <2>3 DEF Parts
<1>15. LbStatus(g, l)'
  BY <1>1, <1>5 DEF LbStatus
<1>16. l \in vs'
  BY <1>2, <1>6
<1>17. QED BY <1>10, <1>11, <1>12, <1>14, <1>15, <1>16 DEF LbGood, ListenersOf, Under, Below, Chain, PolicyAt, ListenerAt, Lb, Objects

(* A request for a load balancer changes its status alone, or also makes   *)
(* what is below PENDING.                                                  *)
LEMMA LbRequestIs ==
  ASSUME ShapeAssumption, NEW s \in Slots, NEW g \in Flows, NEW l \in LBs, l = g.on, NEW new,
         new = {} \/ new = Under(l), Admission(s, g, new)
  PROVE  /\ \A o \in Objects : status'[o] = IF o = l \/ o \in new THEN "PENDING" ELSE status[o]
         /\ \A o \in Objects : o \in revived' <=> o \in revived
         /\ tls' = tls /\ vs' = vs /\ template' = template /\ vports' = vports /\ sslOn' = sslOn /\ bound' = bound
         /\ bare' = bare /\ unbound' = unbound /\ scripts' = scripts /\ inScript' = inScript
         /\ Shape(g) /\ g.step = "queued" /\ g # Idle /\ g.op \in Ops /\ Lb(g.on) = l
<1>1. Chain(g.on) = {l} /\ l \in Objects /\ new \subseteq Objects /\ Lb(l) = l
  BY LbTree, BelowLb
<1>2. Shape(g) /\ g.step = "queued" /\ g # Idle /\ g.op \in Ops
  BY ShapeIs DEF Admission
<1>3. QED BY <1>1, <1>2, AdmissionIs

LEMMA UpdateRequestKeeps ==
  ASSUME ShapeAssumption, Inv, NEW s \in Slots, NEW g \in Flows, ForLbUpdate(s, g),
         NEW l \in LBs, l = g.on, LbGood(Idle, l)
  PROVE  LbGood(g, l)'
<1>1. /\ g.op = "update" /\ g.at = "read_ports" /\ status[l] = "ACTIVE" /\ Admission(s, g, {}) /\ l \in Objects
  BY LbTree DEF ForLbUpdate
<1>2. /\ \A o \in Objects : status'[o] = IF o = l THEN "PENDING" ELSE status[o]
      /\ \A o \in Objects : o \in revived' <=> o \in revived
      /\ tls' = tls /\ vs' = vs /\ template' = template /\ vports' = vports /\ sslOn' = sslOn /\ bound' = bound
      /\ bare' = bare /\ unbound' = unbound /\ scripts' = scripts /\ inScript' = inScript
      /\ Shape(g) /\ g.step = "queued" /\ g # Idle
  BY <1>1, LbRequestIs
<1>3. Live(Idle, l) /\ status'[l] = "PENDING"
  BY <1>1, <1>2, IdleIs DEF HasRow
<1>4. /\ l \in vs
      /\ \A x \in ListenersOf(l) : x \notin revived /\ status[x] = "ACTIVE" => Served(x)
      /\ \A x \in ListenersOf(l) : CleanListener(Idle, x)
      /\ \A p \in Policies : LbOf[ListenerOf[p]] = l => CleanPolicy(p)
      /\ \A p \in Policies : LbOf[ListenerOf[p]] = l /\ p \notin revived /\ ListenerOf[p] \in vports
                                /\ status[p] = "ACTIVE" => p \in bound \cup unbound /\ Listed(p)
      /\ \A o \in Under(l) : status[o] # "PENDING"
  BY <1>3, IdleIs
<1>5. ASSUME NEW x \in ListenersOf(l) PROVE ListenerOK(g, x)' /\ CleanListener(g, x)'
  <2>1. x \in Objects /\ x # l /\ LbOf[x] = l /\ g.on \notin Under(x)
    <3>1. x \in Objects /\ x # l /\ LbOf[x] = l /\ x \in Listeners
      BY <1>5, BelowLb
    <3>2. Below(x) \cap LBs = {}
      BY <3>1, BelowTree, ListenerTree
    <3>3. QED BY <3>1, <3>2 DEF Under
  <2>2. status'[x] = status[x] /\ (x \in revived' <=> x \in revived)
    BY <1>2, <2>1
  <2>3. CleanListener(Idle, x) /\ (x \notin revived /\ status[x] = "ACTIVE" => Served(x))
    BY <1>4, <1>5
  <2>4. status[x] = "GONE" => x \notin vports
    BY <1>1, <2>1, <2>3 DEF CleanListener, Falling
  <2>5. g.on \notin Under(x)'
    BY <2>1 DEF Under, Below, Chain, PolicyAt, ListenerAt, Lb, Objects
  <2>6. ListenerOK(g, x)'
    BY <1>2, <2>2, <2>3, <2>5 DEF ListenerOK, Served
  <2>7. CleanListener(g, x)'
    BY <1>2, <2>2, <2>3, <2>4 DEF CleanListener
  <2>8. QED BY <2>6, <2>7
<1>6. ASSUME NEW p \in Policies, LbOf[ListenerOf[p]] = l PROVE PolicyOK(g, p)' /\ CleanPolicy(p)'
  <2>1. /\ p \in Objects /\ p # l /\ ListenerOf[p] \in Objects /\ ListenerOf[p] # l
        /\ \A r \in RulesOf(p) : r \in Objects /\ r # l /\ r \notin LBs
    BY <1>6, PolicyTree, ListenerTree, RuleTree, LbTree DEF RulesOf
  <2>2. /\ status'[p] = status[p] /\ status'[ListenerOf[p]] = status[ListenerOf[p]] /\ (p \in revived' <=> p \in revived)
        /\ \A r \in RulesOf(p) : status'[r] = status[r]
    BY <1>2, <2>1
  <2>3. CleanPolicy(p) /\ (p \notin revived /\ ListenerOf[p] \in vports /\ status[p] = "ACTIVE" => p \in bound \cup unbound /\ Listed(p))
    BY <1>4, <1>6
  <2>4. g.on \notin RulesOf(p)
    BY <2>1
  <2>5. CleanPolicy(p)'
    BY <1>2, <2>2, <2>3 DEF CleanPolicy, RulesOf
  <2>6. PolicyOK(g, p)'
    BY <1>2, <2>2, <2>3, <2>4 DEF PolicyOK, RulesOf, Listed
  <2>7. QED BY <2>5, <2>6
<1>7. \A o \in Under(l) : Calm(g, o)'
  BY <1>2, <1>4, BelowLb DEF Calm
<1>8. FlowOK(g)'
  BY <1>1, LbFlow DEF UpdateGood
<1>9. LbStatus(g, l)'
  BY <1>1, <1>3, <1>2 DEF LbStatus
<1>10. l \in vs'
  BY <1>2, <1>4
<1>11. QED BY <1>5, <1>6, <1>7, <1>8, <1>9, <1>10 DEF LbGood, ListenersOf, Under, Below, Chain, PolicyAt, ListenerAt, Lb, Objects

LEMMA DeleteRequestKeeps ==
  ASSUME ShapeAssumption, Inv, NEW s \in Slots, NEW g \in Flows, ForLbDelete(s, g),
         NEW l \in LBs, l = g.on, LbGood(Idle, l)
  PROVE  LbGood(g, l)'
<1>1. /\ g.op = "delete" /\ Admission(s, g, {}) /\ l \in Objects
      /\ g.cur = g.on => g.at = "no_vs"
      /\ g.cur \in Listeners => g.at = IF TlsOf[g.cur] = None THEN "row" ELSE "no_template"
      /\ g.cur \in Policies => g.at = "unbind"
  BY LbTree DEF ForLbDelete
<1>2. /\ \A o \in Objects : status'[o] = IF o = l THEN "PENDING" ELSE status[o]
      /\ tls' = tls /\ vs' = vs /\ template' = template /\ vports' = vports /\ sslOn' = sslOn /\ bound' = bound
      /\ bare' = bare /\ unbound' = unbound /\ scripts' = scripts /\ inScript' = inScript
      /\ Shape(g) /\ g.step = "queued" /\ g # Idle
  BY <1>1, LbRequestIs
<1>3. /\ \A x \in ListenersOf(l) : CleanListener(Idle, x)
      /\ \A p \in Policies : LbOf[ListenerOf[p]] = l => CleanPolicy(p)
  BY IdleIs
<1>4. ~Live(g, l)' /\ Falling(g, l)'
  BY <1>1, <1>2 DEF Live, Deletes, Falling
<1>5. ASSUME NEW x \in ListenersOf(l) PROVE ListenerOK(g, x)' /\ CleanListener(g, x)'
  <2>1. x \in Objects /\ x # l /\ LbOf[x] = l /\ CleanListener(Idle, x)
    BY <1>3, <1>5, BelowLb
  <2>2. status'[x] = status[x]
    BY <1>2, <2>1
  <2>3. ListenerOK(g, x)'
    BY <1>4, <2>1 DEF ListenerOK
  <2>4. CleanListener(g, x)'
    BY <1>2, <1>4, <2>1, <2>2 DEF CleanListener
  <2>5. QED BY <2>3, <2>4
<1>6. ASSUME NEW p \in Policies, LbOf[ListenerOf[p]] = l PROVE PolicyOK(g, p)' /\ CleanPolicy(p)'
  <2>1. /\ p \in Objects /\ p # l /\ ListenerOf[p] \in Objects /\ ListenerOf[p] # l /\ CleanPolicy(p)
        /\ \A r \in RulesOf(p) : r \in Objects /\ r # l
    BY <1>3, <1>6, PolicyTree, ListenerTree, RuleTree, LbTree DEF RulesOf
  <2>2. /\ status'[p] = status[p] /\ status'[ListenerOf[p]] = status[ListenerOf[p]]
        /\ \A r \in RulesOf(p) : status'[r] = status[r]
    BY <1>2, <2>1
  <2>3. CleanPolicy(p)'
    BY <1>2, <2>1, <2>2 DEF CleanPolicy, RulesOf
  <2>4. PolicyOK(g, p)'
    BY <1>4, <1>6 DEF PolicyOK
  <2>5. QED BY <2>3, <2>4
<1>7. \A o \in Under(l) : Calm(g, o)'
  <2>1. \A o \in Under(l) : (Lb(o) = l)'
    BY BelowLb DEF Lb, ListenerAt, PolicyAt
  <2>2. QED BY <1>4, <2>1 DEF Calm
<1>8. FlowOK(g)'
  <2>1. g.at # "lb_row"
    <3>1. g.cur \in Objects
      BY <1>2, ShapeIs
    <3>2. g.cur \in LBs => g.cur = g.on
      BY <1>2, ShapeIs
    <3>3. g.cur \notin Rules
      BY <1>1, <1>2, ShapeIs DEF Shape
    <3>4. g.at \in {"no_vs", "row", "no_template", "unbind"}
      BY <1>1, <3>1, <3>2, <3>3, Kinds
    <3>5. QED BY <3>4
  <2>2. g.cur \in Listeners /\ g.at # "no_template" => template'[g.cur] = None
    BY <1>1, <1>2 DEF Inv, TlsInv
  <2>3. DeleteGood(g, l)'
    BY <2>1, <2>2 DEF DeleteGood
  <2>4. QED BY <1>1, <2>3, LbFlow
<1>9. LbStatus(g, l)'
  BY <1>1, <1>2 DEF LbStatus
<1>10. QED BY <1>4, <1>5, <1>6, <1>7, <1>8, <1>9 DEF LbGood, ListenersOf, Under, Below, Chain, PolicyAt, ListenerAt, Lb, Objects

LEMMA CreateRequestKeeps ==
  ASSUME ShapeAssumption, Inv, NEW s \in Slots, NEW g \in Flows, ForLbCreate(s, g), \A o \in Objects : Rowed(o),
         NEW l \in LBs, l = g.on, LbGood(Idle, l)
  PROVE  LbGood(g, l)'
<1>1. /\ g.op = "create" /\ g.cur = l /\ status[l] = "NEW" /\ Admission(s, g, g.rest) /\ l \in Objects
      /\ IF g.full THEN g.rest = Under(l) /\ g.at = "vs" ELSE g.rest = {} /\ g.at = "early_active"
  BY LbTree DEF ForLbCreate
<1>2. g.rest = {} \/ g.rest = Under(l)
  BY <1>1
<1>3. /\ \A o \in Objects : status'[o] = IF o = l \/ o \in g.rest THEN "PENDING" ELSE status[o]
      /\ tls' = tls /\ vs' = vs /\ template' = template /\ vports' = vports /\ sslOn' = sslOn /\ bound' = bound
      /\ bare' = bare /\ unbound' = unbound /\ scripts' = scripts /\ inScript' = inScript
      /\ Shape(g) /\ g.step = "queued" /\ g # Idle
  BY <1>1, <1>2, LbRequestIs
<1>4. \A y \in Under(l) : status[y] = "NEW" /\ status'[y] \in {"NEW", "PENDING"} /\ y \in Objects /\ y # l
                          /\ status'[y] = IF g.full THEN "PENDING" ELSE "NEW"
  <2>1. \A y \in Below(l) : status[y] = "NEW"
    BY <1>1, NewBelow
  <2>2. \A y \in Under(l) : y \in Below(l) /\ y \in Objects /\ y # l
    BY BelowLb
  <2>3. \A y \in Under(l) : y \in g.rest <=> g.full
    BY <1>1
  <2>4. QED BY <1>3, <2>1, <2>2, <2>3
<1>5. \A x \in ListenersOf(l) : x \in Under(l) /\ template[x] = None
  <2>1. \A x \in ListenersOf(l) : CleanListener(Idle, x) /\ x \in Under(l)
    BY IdleIs, BelowLb
  <2>2. QED BY <1>4, <2>1 DEF CleanListener
<1>6. ASSUME NEW x \in ListenersOf(l) PROVE ListenerOK(g, x)' /\ CleanListener(g, x)'
  <2>1. x \in Under(l) /\ status'[x] \in {"NEW", "PENDING"} /\ template'[x] = None
    BY <1>3, <1>4, <1>5, <1>6
  <2>2. g.on \notin Under(x)'
    <3>1. x \in Listeners /\ x \in Objects /\ x \notin LBs
      BY <1>6, BelowLb, ListenerTree
    <3>2. Below(x) \cap LBs = {}
      BY <3>1, BelowTree
    <3>3. QED BY <3>2 DEF Under, Below, Chain, PolicyAt, ListenerAt, Lb, Objects
  <2>3. QED BY <2>1, <2>2 DEF ListenerOK, CleanListener
<1>7. ASSUME NEW p \in Policies, LbOf[ListenerOf[p]] = l PROVE PolicyOK(g, p)' /\ CleanPolicy(p)'
  <2>1. p \in Under(l) /\ g.on \notin RulesOf(p) /\ \A r \in RulesOf(p) : r \in Under(l)
    BY <1>7, BelowLb, LbTree DEF RulesOf
  <2>2. QED BY <1>4, <2>1 DEF PolicyOK, CleanPolicy, RulesOf
<1>8. \A o \in Under(l) : Calm(g, o)'
  <2>1. \A o \in Under(l) : (Lb(o) = l)'
    BY BelowLb DEF Lb, ListenerAt, PolicyAt
  <2>2. Creates(g, l)
    BY <1>1 DEF Creates
  <2>3. QED BY <2>1, <2>2 DEF Calm, Creates
<1>9. FlowOK(g)'
  <2>1. CASE ~g.full
    <3>1. CreateGood(g, l)'
      BY <1>4, <2>1 DEF CreateGood, Under, Below, Chain, PolicyAt, ListenerAt, Lb, Objects
    <3>2. QED BY <1>1, <3>1, LbFlow
  <2>2. CASE g.full
    <3>1. g.rest = Under(l) /\ g.at = "vs"
      BY <1>1, <2>2
    <3>2. \A y \in Under(l) : status'[y] = "PENDING"
      BY <1>4, <2>2
    <3>3. \A x \in ListenersOf(l), L \in {{"cert", "template"}, {"cert", "template", "vport"}} : ~Passed(g, x, L) /\ template'[x] = None
      BY <1>3, <1>5, <3>1 DEF Passed
    <3>4. \A p \in Policies : LbOf[ListenerOf[p]] = l => \A L \in {{"script"}, {"script", "bind"}} : ~Passed(g, p, L)
      BY <3>1, BelowLb DEF Passed
    <3>5. CreateGood(g, l)'
      <4>1. \A y \in Under(l) : status'[y] \in IF y \in g.rest \cup Chain(g.cur) THEN {"PENDING"} ELSE {"PENDING", "ACTIVE"}
        BY <3>2
      <4>2. QED BY <2>2, <3>1, <3>3, <3>4, <4>1 DEF CreateGood, ListenersOf, Under, Below, Chain, PolicyAt, ListenerAt, Lb, Objects, Passed
    <3>6. QED BY <1>1, <3>5, LbFlow
  <2>3. QED BY <2>1, <2>2
<1>10. LbStatus(g, l)' /\ Creates(g, l)
  BY <1>1, <1>3 DEF LbStatus, Creates
<1>11. QED BY <1>6, <1>7, <1>8, <1>9, <1>10 DEF LbGood, Creates, ListenersOf, Under, Below, Chain, PolicyAt, ListenerAt, Lb, Objects

LEMMA RequestKeeps ==
  ASSUME ShapeAssumption, Inv, NEW s \in Slots, Request(s), \A o \in Objects : Rowed(o), \A l \in LBs : LbOK(l)
  PROVE  (\A o \in Objects : Rowed(o)') /\ \A l \in LBs : LbOK(l)'
<1>1. PICK g \in Flows : Admits(s, g)
  BY Requests
<1>2. \A o \in Objects : Rowed(o)'
  BY <1>1, AdmitRows
<1>3. PICK new : /\ Admission(s, g, new) /\ g.on \in Objects /\ Lb(g.on) \in LBs /\ Shape(g)
                 /\ new = {} \/ (g.on \in LBs /\ g.op = "create" /\ new = Under(g.on))
                 /\ status[Lb(g.on)] \in {"ACTIVE", "ERROR", "NEW"}
                 /\ g.step = "queued" /\ ~Ending(g)
  BY <1>1, AdmitsIs
<1>4. Inv' /\ flow'[s] = g /\ Only(s) /\ flow[s] = Idle
  <2>1. Admission(s, g, new)
    BY <1>3
  <2>2. Inv' /\ flow'[s] = g /\ Only(s)
    BY <2>1, AdmissionInv
  <2>3. flow[s] = Idle
    BY <2>1 DEF Admission
  <2>4. QED BY <2>2, <2>3
<1>5. PICK l \in LBs : l = Lb(g.on)
  BY <1>3
<1>6. new \subseteq Objects /\ \A y \in Chain(g.on) \cup new : Lb(y) = l
  <2>1. \A y \in Chain(g.on) : Lb(y) = l
    BY <1>3, <1>5, ChainTree
  <2>2. new \subseteq Objects /\ \A y \in new : Lb(y) = l
    BY <1>3, <1>5, BelowLb, LbTree
  <2>3. QED BY <2>1, <2>2
<1>7. /\ \A o \in Objects : status'[o] = IF o \in Chain(g.on) \cup new THEN "PENDING" ELSE status[o]
      /\ \A o \in Objects : o \in revived' <=> o \in revived \/ (o \in Chain(g.on) \ {g.on} /\ status[o] = "ERROR")
      /\ tls' = tls /\ vs' = vs /\ template' = template /\ vports' = vports /\ sslOn' = sslOn /\ bound' = bound
      /\ bare' = bare /\ unbound' = unbound /\ scripts' = scripts /\ inScript' = inScript
      /\ \A m \in LBs : Settled(m)' => Settled(m)
      /\ Settled(l)' => \A t \in On(l) : flow[t].step # "revert" /\ (flow[t].on = l => Ending(flow[t]) /\ flow[t].op # "create")
  BY <1>3, <1>5, <1>6, AdmissionIs
<1>8. ASSUME NEW m \in LBs \ {l} PROVE LbOK(m)'
  <2>1. Untouched(m)
    <3>1. \A o \in Below(m) : o \in Objects /\ Lb(o) = m
      BY BelowTree, LbTree
    <3>2. \A o \in Below(m) : SameStatus(o)
      BY <1>6, <1>7, <1>8, <3>1 DEF SameStatus
    <3>3. /\ \A x \in ListenersOf(m) : SameListener(x)
          /\ \A p \in Policies : LbOf[ListenerOf[p]] = m => SamePolicy(p)
      BY <1>7 DEF SameListener, SamePolicy
    <3>4. QED BY <1>7, <3>2, <3>3 DEF Untouched
  <2>2. s \notin On(m) /\ s \notin On(m)'
    <3>1. flow[s].step = "idle"
      BY <1>4 DEF Idle
    <3>2. Lb(g.on) # m
      BY <1>5, <1>8
    <3>3. QED BY <1>4, <3>1, <3>2 DEF On, Lb, ListenerAt, PolicyAt
  <2>3. LbOK(m) /\ (Settled(m)' => Settled(m))
    BY <1>7
  <2>4. QED BY <1>4, <2>1, <2>2, <2>3, OtherLb
<1>9. LbOK(l)'
  <2>1. SUFFICES ASSUME Settled(l)' PROVE LbOK(l)'
    BY DEF LbOK
  <2>2. Settled(l) /\ LbOK(l) /\ \A t \in On(l) : flow[t].step # "revert" /\ (flow[t].on = l => Ending(flow[t]) /\ flow[t].op # "create")
    BY <1>7, <2>1
  <2>3. LbGood(Idle, l) /\ \A t \in On(l) : Ending(flow[t])
    BY <1>3, <1>5, <2>2, AdmitIdle
  <2>4. LbGood(g, l)'
    <3>1. CASE ForPart(s, g)
      BY <1>5, <2>3, <3>1, PartRequestKeeps
    <3>2. CASE ForLbCreate(s, g)
      <4>1. l = g.on
        BY <1>5, <3>2, LbTree DEF ForLbCreate
      <4>2. QED BY <2>3, <3>2, <4>1, CreateRequestKeeps
    <3>3. CASE ForLbUpdate(s, g)
      <4>1. l = g.on
        BY <1>5, <3>3, LbTree DEF ForLbUpdate
      <4>2. QED BY <2>3, <3>3, <4>1, UpdateRequestKeeps
    <3>4. CASE ForLbDelete(s, g)
      <4>1. l = g.on
        BY <1>5, <3>4, LbTree DEF ForLbDelete
      <4>2. QED BY <2>3, <3>4, <4>1, DeleteRequestKeeps
    <3>5. QED BY <1>1, <3>1, <3>2, <3>3, <3>4 DEF Admits
  <2>5. \A o \in Below(l) : status'[o] = "ERROR" => status[o] = "ERROR"
    BY <1>7, BelowTree, LbTree
  <2>6. status[l] # "GONE"
    BY <1>3, <1>5
  <2>7. QED BY <1>3, <1>4, <1>5, <2>2, <2>3, <2>4, <2>5, <2>6, AdmitStep
<1>10. QED BY <1>2, <1>8, <1>9

-----------------------------------------------------------------------------
(* A flow that fails.                                                      *)
(* Reverting is as good as being at work, or as having ended.              *)
LEMMA ToRevert ==
  ASSUME ShapeAssumption, NEW l \in LBs, NEW f, NEW g, g.op = f.op, g.on = f.on, g # Idle, f # Idle,
         g.step = "revert", Deletes(g, l) => status[l] # "ACTIVE", LbGood(f, l)
  PROVE  LbGood(g, l)
<1>1. LbStatus(g, l)
  BY DEF LbStatus
<1>2. Live(g, l) <=> Live(f, l)
  BY DEF Live, Deletes
<1>3. Live(g, l) => l \in vs \/ Creates(g, l)
  BY <1>2 DEF LbGood, Creates
<1>4. \A x \in ListenersOf(l) : ListenerOK(g, x) /\ CleanListener(g, x)
  BY <1>2 DEF LbGood, ListenerOK, CleanListener, Falling, ListenersOf
<1>5. \A p \in Policies : LbOf[ListenerOf[p]] = l => PolicyOK(g, p) /\ CleanPolicy(p)
  BY <1>2 DEF LbGood, PolicyOK
<1>6. \A o \in Under(l) : Calm(g, o)
  BY <1>2, BelowLb DEF LbGood, Calm, Creates
<1>7. QED BY <1>1, <1>3, <1>4, <1>5, <1>6 DEF LbGood

LEMMA EndedToRevert ==
  ASSUME ShapeAssumption, NEW l \in LBs, NEW g, g.on = l, g.op # "delete", g # Idle, g.step = "revert", LbGood(Idle, l)
  PROVE  LbGood(g, l)
<1>1. LbStatus(g, l) /\ ~Deletes(g, l)
  BY DEF LbStatus, Deletes
<1>2. l \notin Under(l) /\ \A x \in ListenersOf(l) : l \notin Under(x)
  <2>1. \A x \in ListenersOf(l) : x \in Objects /\ x \notin LBs
    BY BelowLb, ListenerTree
  <2>2. QED BY <2>1, BelowTree DEF Under
<1>3. Live(g, l) <=> Live(Idle, l)
  BY <1>1, <1>2, IdleIs DEF Live
<1>4. \A x \in ListenersOf(l) : ListenerOK(g, x) /\ CleanListener(g, x)
  <2>1. TAKE x \in ListenersOf(l)
  <2>2. LbOf[x] = l /\ CleanListener(Idle, x) /\ (Live(Idle, l) /\ x \notin revived /\ status[x] = "ACTIVE" => Served(x))
    BY IdleIs DEF ListenersOf
  <2>3. QED BY <1>2, <1>3, <2>2 DEF ListenerOK, CleanListener, Falling
<1>5. \A p \in Policies : LbOf[ListenerOf[p]] = l => PolicyOK(g, p) /\ CleanPolicy(p)
  <2>1. SUFFICES ASSUME NEW p \in Policies, LbOf[ListenerOf[p]] = l PROVE PolicyOK(g, p) /\ CleanPolicy(p)
    OBVIOUS
  <2>2. l \notin RulesOf(p)
    BY LbTree DEF RulesOf
  <2>3. QED BY <1>3, <2>1, <2>2, IdleIs DEF PolicyOK
<1>6. \A o \in Under(l) : Calm(g, o)
  BY <1>3, IdleIs, BelowLb DEF Calm
<1>7. QED BY <1>1, <1>3, <1>4, <1>5, <1>6, IdleIs DEF LbGood

(* What a part's flow, at work or ended, says of its load balancer.        *)
PartFacts(l, f) ==
    /\ HasRow(l) => l \in vs
    /\ HasRow(l) => \A x \in ListenersOf(l) : x \notin revived /\ status[x] = "ACTIVE" => Served(x)
    /\ \A x \in ListenersOf(l) : /\ status[x] \in {"NEW", "GONE"} => template[x] = None
                                 /\ status[x] = "GONE" => x \notin vports
    /\ \A p \in Policies : LbOf[ListenerOf[p]] = l => CleanPolicy(p)
    /\ HasRow(l) => \A p \in Policies : /\ LbOf[ListenerOf[p]] = l /\ p \notin revived /\ ListenerOf[p] \in vports
                                        /\ status[p] = "ACTIVE" \/ (HasRow(p) /\ f.on \in RulesOf(p))
                                        => p \in bound \cup unbound /\ Listed(p)
    /\ HasRow(l) => \A o \in Under(l) \ Chain(f.on) : status[o] # "PENDING"

LEMMA WorkingFacts ==
  ASSUME ShapeAssumption, NEW l \in LBs, NEW f \in Flows, Shape(f), Lb(f.on) = l, f.on \notin LBs, f.step # "revert",
         LbGood(f, l)
  PROVE  PartFacts(l, f) /\ Live(f, l)
<1>1. /\ \A y \in Chain(f.on) \ {f.on} : status[y] = "PENDING"
      /\ l \in Chain(f.on) /\ f.on # l /\ status[l] = "PENDING" /\ Live(f, l) /\ l \in vs /\ f # Idle /\ f.on \in Objects
  BY StatusAt, ShapeIs
<1>2. ~Creates(f, l)
  BY DEF Creates
<1>3. \A x \in ListenersOf(l) : LbOf[x] = l /\ ListenerOK(f, x) /\ CleanListener(f, x)
  BY DEF LbGood, ListenersOf
<1>4. \A p \in Policies : LbOf[ListenerOf[p]] = l => PolicyOK(f, p) /\ CleanPolicy(p)
  BY DEF LbGood
<1>5. \A p \in Policies : f.on \in RulesOf(p) => p \in Chain(f.on) \ {f.on}
  BY RuleTree DEF RulesOf
<1>6. \A o \in Under(l) \ Chain(f.on) : status[o] # "PENDING"
  BY <1>1, <1>2, BelowLb DEF LbGood, Calm
<1>7. QED BY <1>1, <1>3, <1>4, <1>5, <1>6 DEF PartFacts, ListenerOK, CleanListener, Falling, PolicyOK

LEMMA EndedFacts ==
  ASSUME ShapeAssumption, Inv, NEW l \in LBs, NEW f \in Flows, Shape(f), Lb(f.on) = l, f.on \notin LBs, Ended(f), LbGood(Idle, l)
  PROVE  PartFacts(l, f)
<1>1. f.on \in Objects /\ f.on \in Parts /\ status[l] # "ERROR" /\ (f.on \in Rules => status[PolicyOf[f.on]] # "ERROR")
  <2>1. f.on \in Objects /\ f.on \in Parts
    BY ShapeIs DEF Parts, Objects
  <2>2. QED BY <2>1 DEF Ended
<1>2. Live(Idle, l) <=> HasRow(l)
  BY <1>1, IdleIs
<1>3. \A x \in ListenersOf(l) : LbOf[x] = l /\ CleanListener(Idle, x)
  BY IdleIs DEF ListenersOf
<1>4. \A x \in ListenersOf(l) : /\ status[x] \in {"NEW", "GONE"} => template[x] = None
                                /\ status[x] = "GONE" => x \notin vports
  BY <1>2, <1>3 DEF CleanListener, Falling, HasRow
<1>5. ASSUME NEW p \in Policies, LbOf[ListenerOf[p]] = l, HasRow(p), f.on \in RulesOf(p), HasRow(l) PROVE status[p] = "ACTIVE"
  <2>1. status[p] # "ERROR"
    BY <1>1, <1>5 DEF RulesOf
  <2>2. status[p] # "PENDING"
    BY <1>2, <1>5, IdleIs, BelowLb
  <2>3. p \in Objects
    BY PolicyTree
  <2>4. QED BY <1>5, <2>1, <2>2, <2>3, InvIs DEF Typed, HasRow, Statuses
<1>6. QED BY <1>2, <1>4, <1>5, IdleIs DEF PartFacts

(* The rows of the chain have gone to ERROR.                               *)
LEMMA ErrorReverts ==
  ASSUME ShapeAssumption, NEW l \in LBs, NEW f \in Flows, NEW g \in Flows, Shape(f), Lb(f.on) = l, f.on \notin LBs,
         g.on = f.on, g.step = "revert", PartFacts(l, f), Still,
         \A o \in Objects : status'[o] = IF o \in Chain(f.on) /\ HasRow(o) THEN "ERROR" ELSE status[o]
  PROVE  LbGood(g, l)'
<1>1. f.on \in Objects /\ l \in Chain(f.on) /\ l \in Objects /\ f.on # l /\ g # Idle
  BY ShapeIs, ChainTree, LbTree DEF Idle
<1>2. ~Deletes(g, l) /\ ~Creates(g, l)
  BY <1>1 DEF Deletes, Creates
<1>3. HasRow(l)' <=> HasRow(l)
  BY <1>1 DEF HasRow
<1>4. LbStatus(g, l)'
  BY <1>2 DEF LbStatus, Deletes
<1>5. Live(g, l)' => HasRow(l)
  BY <1>3 DEF Live
<1>6. Live(g, l)' => l \in vs'
  BY <1>5 DEF PartFacts, Still
<1>7. ASSUME NEW x \in ListenersOf(l) PROVE ListenerOK(g, x)' /\ CleanListener(g, x)'
  <2>1. x \in Objects /\ LbOf[x] = l /\ x \in Listeners
    BY <1>7, BelowLb, ListenerTree
  <2>2. /\ status'[x] \in {"NEW", "GONE"} => status'[x] = status[x]
        /\ status'[x] = "ACTIVE" => status[x] = "ACTIVE"
        /\ f.on \in Under(x) => status'[x] # "PENDING"
    BY <2>1 DEF HasRow, Under, Below
  <2>3. /\ status[x] \in {"NEW", "GONE"} => template[x] = None
        /\ status[x] = "GONE" => x \notin vports
        /\ HasRow(l) /\ x \notin revived /\ status[x] = "ACTIVE" => Served(x)
    BY <1>7 DEF PartFacts
  <2>4. CleanListener(g, x)'
    BY <2>2, <2>3 DEF CleanListener, Still
  <2>5. ListenerOK(g, x)'
    <3>1. SUFFICES ASSUME HasRow(l), x \notin revived', status'[x] = "ACTIVE" \/ (status'[x] = "PENDING" /\ g.on \in Under(x))
                   PROVE  Served(x)'
      BY <1>5, <2>1 DEF ListenerOK, Under, Below, Chain, PolicyAt, ListenerAt, Lb, Objects
    <3>2. Served(x)
      BY <2>2, <2>3, <3>1 DEF Still
    <3>3. QED BY <3>2 DEF Served, Still
  <2>6. QED BY <2>4, <2>5
<1>8. ASSUME NEW p \in Policies, LbOf[ListenerOf[p]] = l PROVE PolicyOK(g, p)' /\ CleanPolicy(p)'
  <2>1. p \in Objects /\ ListenerOf[p] \in Objects /\ \A r \in RulesOf(p) : r \in Objects /\ p \in Chain(r)
    BY PolicyTree, ListenerTree, RuleTree DEF RulesOf
  <2>2. \A o \in Objects : /\ status'[o] = "GONE" <=> status[o] = "GONE"
                           /\ status'[o] = "ACTIVE" => status[o] = "ACTIVE"
    BY DEF HasRow
  <2>3. CleanPolicy(p)'
    <3>1. CleanPolicy(p)
      BY <1>8 DEF PartFacts
    <3>2. QED BY <2>1, <2>2, <3>1 DEF CleanPolicy, RulesOf, Still
  <2>4. PolicyOK(g, p)'
    <3>1. SUFFICES ASSUME HasRow(l), p \notin revived', ListenerOf[p] \in vports',
                          status'[p] = "ACTIVE" \/ (status'[p] \in {"PENDING", "ERROR"} /\ g.on \in RulesOf(p))
                   PROVE  p \in bound' \cup unbound' /\ Listed(p)'
      BY <1>5, <1>8 DEF PolicyOK, RulesOf
    <3>2. status[p] = "ACTIVE" \/ (HasRow(p) /\ f.on \in RulesOf(p))
      BY <2>1, <3>1 DEF HasRow
    <3>3. p \in bound \cup unbound /\ Listed(p)
      BY <1>8, <3>1, <3>2 DEF PartFacts, Still
    <3>4. QED BY <2>1, <2>2, <3>3 DEF Listed, RulesOf, Still
  <2>5. QED BY <2>3, <2>4
<1>9. \A o \in Under(l) : Calm(g, o)'
  <2>1. TAKE o \in Under(l)
  <2>2. o \in Objects /\ Lb(o) = l
    BY BelowLb
  <2>3. SUFFICES ASSUME HasRow(l), o \notin Chain(f.on) PROVE status'[o] # "PENDING"
    BY <1>1, <1>5, <2>2 DEF Calm, Chain, PolicyAt, ListenerAt, Lb, Idle
  <2>4. QED BY <2>2, <2>3 DEF PartFacts
<1>10. QED BY <1>4, <1>6, <1>7, <1>8, <1>9 DEF LbGood, ListenersOf, Under, Below, Chain, PolicyAt, ListenerAt, Lb, Objects, Idle

LEMMA AloneIs ==
  ASSUME ShapeAssumption, Inv, NEW s \in Slots, NEW l \in LBs, Settled(l), LbOK(l), On(l) = {s},
         NEW f \in Flows, f = flow[s]
  PROVE  IF Ending(f) THEN LbGood(Idle, l) /\ Ended(f) ELSE LbGood(f, l)
<1>1. s \in On(l) /\ f.step # "idle"
  BY DEF On
<1>2. PICK e \in Flows : AtWork(e, l) /\ LbGood(e, l)
  BY DEF LbOK
<1>3. f # Idle
  BY <1>1 DEF Idle
<1>4. CASE Ending(f)
  <2>1. e = Idle
    <3>1. CASE \E u \in On(l) : e = flow[u] /\ ~Ending(e)
      BY <1>4, <3>1
    <3>2. QED BY <1>2, <3>1 DEF AtWork
  <2>2. QED BY <1>1, <1>2, <1>4, <2>1 DEF LbOK
<1>5. CASE ~Ending(f)
  <2>1. e = f
    <3>1. CASE e = Idle /\ \A t \in On(l) : Ending(flow[t])
      BY <1>1, <1>5, <3>1
    <3>2. CASE \E u \in On(l) : e = flow[u]
      BY <3>2
    <3>3. QED BY <1>2, <3>1, <3>2 DEF AtWork
  <2>2. QED BY <1>2, <1>5, <2>1
<1>6. QED BY <1>4, <1>5

LEMMA AloneStep ==
  ASSUME ShapeAssumption, NEW s \in Slots, NEW l \in LBs, On(l) = {s}, Only(s),
         NEW f \in Flows, f = flow[s], NEW g \in Flows, g = flow'[s], g.on = f.on, g.step = "revert", LbGood(g, l)'
  PROVE  LbOK(l)'
<1>1. s \in On(l)' /\ ~Ending(g) /\ \A t \in On(l)' : t = s
  BY DEF On, Only, Ending, Lb, ListenerAt, PolicyAt
<1>2. AtWork(g, l)'
  <2>1. \E u \in On(l)' : g = flow'[u] /\ ~Ending(g) /\ \A t \in On(l)' \ {u} : Ending(flow'[t])
    BY <1>1
  <2>2. QED BY <2>1 DEF AtWork
<1>3. ASSUME NEW t \in On(l)', NEW e \in Flows, e = flow'[t], Ending(e) PROVE Ended(e)'
  BY <1>1, <1>3
<1>4. QED BY <1>2, <1>3 DEF LbOK

(* The objects of the load balancer l whose rows go to ERROR at once when  *)
(* its flow f fails.                                                       *)
Struck(l, f, C) ==
    /\ \A o \in C : Lb(o) = l
    /\ f.on \in LBs => C = {} \/ l \in C
    /\ f.on \notin LBs => C = {} \/ C = Chain(f.on)
    /\ f.on \notin LBs /\ Ending(f) => C = Chain(f.on)
    /\ \A o \in Objects : status'[o] = IF o \in C /\ HasRow(o) THEN "ERROR" ELSE status[o]

LEMMA FailIs ==
  ASSUME ShapeAssumption, Inv, NEW s \in Slots, Fail(s), NEW f \in Flows, f = flow[s], Shape(f), NEW l \in LBs, l = Lb(f.on)
  PROVE  /\ Still \/ overlapped' # overlapped
         /\ tls' = tls /\ vs' = vs /\ template' = template /\ vports' = vports /\ sslOn' = sslOn /\ bound' = bound
         /\ bare' = bare /\ unbound' = unbound /\ scripts' = scripts /\ inScript' = inScript /\ revived' = revived
         /\ \A m \in LBs : Settled(m)' => Settled(m)
         /\ Settled(l)' => On(l) = {s} /\ overlapped' = overlapped
         /\ \E C : Struck(l, f, C)
<1>1. tls' = tls /\ vs' = vs /\ template' = template /\ vports' = vports /\ sslOn' = sslOn /\ bound' = bound
         /\ bare' = bare /\ unbound' = unbound /\ scripts' = scripts /\ inScript' = inScript /\ revived' = revived
  BY DEF Fail, device, port, files
<1>2. overlapped' = IF On(l) # {s} THEN overlapped \cup {l} ELSE overlapped
  BY DEF Fail
<1>3. /\ \A m \in LBs : Settled(m)' => Settled(m)
      /\ Settled(l)' => On(l) = {s} /\ overlapped' = overlapped
  <2>1. \A m : (Settled(m)' <=> m \notin overlapped') /\ (Settled(m) <=> m \notin overlapped)
    BY DEF Settled
  <2>2. On(l) = {s} => overlapped' = overlapped
    BY <1>2
  <2>3. On(l) # {s} => overlapped' = overlapped \cup {l}
    BY <1>2
  <2>4. QED BY <2>1, <2>2, <2>3
<1> DEFINE marked == {t.on : t \in {d \in f.done : d.do \in {"active", "early_active"}}}
           C == UNION {Chain(o) : o \in marked}
<1>4. \A o \in Objects : status'[o] = IF o \in C /\ HasRow(o) THEN "ERROR" ELSE status[o]
  BY DEF Fail, Rows
<1>5. \A o \in marked : o \in Below(f.on) /\ (f.on \notin LBs => o = f.on)
  <2>1. \A t \in f.done : t.on \in Below(f.on) /\ (f.on \notin LBs => t.on = f.on)
    BY BelowTree DEF Shape
  <2>2. QED BY <2>1
<1>6. \A o \in marked : o \in Objects /\ Lb(o) = l /\ f.on \in Chain(o)
  BY <1>5, ShapeIs, BelowTree
<1>7. f.on \notin LBs /\ Ending(f) => f.on \in marked
  <2>1. SUFFICES ASSUME f.on \notin LBs, Ending(f) PROVE f.on \in marked
    OBVIOUS
  <2>2. Task("active", f.on) \in f.done
    BY <2>1 DEF Shape
  <2>3. Task("active", f.on).do = "active" /\ Task("active", f.on).on = f.on
    BY DEF Task
  <2>4. QED BY <2>2, <2>3
<1> HIDE DEF marked
<1>8. \A o \in C : Lb(o) = l
  BY <1>6, ChainTree
<1>9. f.on \in LBs => C = {} \/ l \in C
  <2>1. f.on \in LBs => f.on = l
    BY LbTree
  <2>2. QED BY <1>6, <2>1
<1>10. /\ f.on \notin LBs => C = {} \/ C = Chain(f.on)
       /\ f.on \notin LBs /\ Ending(f) => C = Chain(f.on)
  <2>1. f.on \notin LBs => marked = {} \/ marked = {f.on}
    BY <1>5
  <2>2. marked = {} => C = {}
    OBVIOUS
  <2>3. marked = {f.on} => C = Chain(f.on)
    OBVIOUS
  <2>4. QED BY <1>7, <2>1, <2>2, <2>3
<1> HIDE DEF C
<1>11. Still \/ overlapped' # overlapped
  BY <1>1 DEF Still
<1>12. Struck(l, f, C)
  BY <1>4, <1>8, <1>9, <1>10 DEF Struck
<1>13. QED BY <1>1, <1>3, <1>11, <1>12

LEMMA FailKeeps ==
  ASSUME ShapeAssumption, Inv, NEW s \in Slots, Fail(s), \A o \in Objects : Rowed(o), \A l \in LBs : LbOK(l)
  PROVE  (\A o \in Objects : Rowed(o)') /\ \A l \in LBs : LbOK(l)'
<1>1. PICK f \in Flows, g \in Flows : /\ f = flow[s] /\ g = flow'[s] /\ Shape(f) /\ Alike(f, g) /\ Inv' /\ Only(s)
                                      /\ f.step \in {"queued", "run"} /\ g.step = "revert"
  BY FailStep DEF Alike
<1>2. PICK l \in LBs : l = Lb(f.on)
  BY <1>1, ShapeIs
<1>3. f.on \in Objects /\ f # Idle /\ g # Idle /\ g.on = f.on /\ g.op = f.op /\ f.step # "idle" /\ f.step # "revert" /\ f.op \in Ops
  BY <1>1, ShapeIs DEF Alike
<1>4. /\ Still \/ overlapped' # overlapped
      /\ tls' = tls /\ vs' = vs /\ template' = template /\ vports' = vports /\ sslOn' = sslOn /\ bound' = bound
      /\ bare' = bare /\ unbound' = unbound /\ scripts' = scripts /\ inScript' = inScript /\ revived' = revived
      /\ \A m \in LBs : Settled(m)' => Settled(m)
      /\ Settled(l)' => On(l) = {s} /\ overlapped' = overlapped
  BY <1>1, <1>2, FailIs
<1>50. PICK C : Struck(l, f, C)
  BY <1>1, <1>2, FailIs
<1>5. /\ \A o \in C : Lb(o) = l
      /\ f.on \in LBs => C = {} \/ l \in C
      /\ f.on \notin LBs => C = {} \/ C = Chain(f.on)
      /\ f.on \notin LBs /\ Ending(f) => C = Chain(f.on)
      /\ \A o \in Objects : status'[o] = IF o \in C /\ HasRow(o) THEN "ERROR" ELSE status[o]
  BY <1>50 DEF Struck
<1>6. \A o \in Objects : Rowed(o)'
  <2>1. \A o \in Objects : (status'[o] = "NEW" <=> status[o] = "NEW") /\ (status'[o] = "GONE" <=> status[o] = "GONE")
    BY <1>5 DEF HasRow
  <2>2. QED BY <1>1, <1>3, <2>1, SameRows, PartTree DEF Inv
<1>7. ASSUME NEW m \in LBs \ {l} PROVE LbOK(m)'
  <2>1. s \notin On(m) /\ s \notin On(m)'
    BY <1>1, <1>2, <1>3, <1>7 DEF On, Lb, ListenerAt, PolicyAt
  <2>2. Untouched(m)
    <3>1. \A o \in Below(m) : o \in Objects /\ Lb(o) = m
      BY BelowTree, LbTree
    <3>2. \A o \in Below(m) : SameStatus(o)
      BY <1>4, <1>5, <1>7, <3>1 DEF SameStatus
    <3>3. /\ \A x \in ListenersOf(m) : SameListener(x)
          /\ \A p \in Policies : LbOf[ListenerOf[p]] = m => SamePolicy(p)
      BY <1>4 DEF SameListener, SamePolicy
    <3>4. QED BY <1>4, <3>2, <3>3 DEF Untouched
  <2>3. LbOK(m) /\ (Settled(m)' => Settled(m))
    BY <1>4
  <2>4. QED BY <1>1, <2>1, <2>2, <2>3, OtherLb
<1>8. LbOK(l)'
  <2>1. SUFFICES ASSUME Settled(l)' PROVE LbOK(l)'
    BY DEF LbOK
  <2>2. Settled(l) /\ LbOK(l) /\ On(l) = {s} /\ Still
    BY <1>4, <2>1
  <2>3. IF Ending(f) THEN LbGood(Idle, l) /\ Ended(f) ELSE LbGood(f, l)
    BY <1>1, <2>2, AloneIs
  <2>4. LbGood(g, l)'
    <3>1. CASE \A o \in Objects : o \in C => ~HasRow(o)
      <4>1. \A o \in Objects : status'[o] = status[o]
        BY <1>5, <3>1
      <4>2. Untouched(l)
        <5>1. \A o \in Below(l) : SameStatus(o)
          BY <1>4, <4>1, BelowTree, LbTree DEF SameStatus
        <5>2. QED BY <1>4, <5>1 DEF Untouched, SameListener, SamePolicy
      <4>3. LbGood(g, l) \/ (f.on \notin LBs /\ Ending(f))
        <5>1. CASE ~Ending(f)
          <6>1. Deletes(g, l) => status[l] # "ACTIVE"
            BY <1>3, <2>3, <5>1 DEF LbGood, LbStatus, Deletes, Creates
          <6>2. QED BY <1>1, <1>3, <2>3, <5>1, <6>1, ToRevert
        <5>2. CASE Ending(f) /\ f.on \in LBs /\ f.op # "delete"
          <6>1. g.on = l
            BY <1>2, <1>3, <5>2, LbTree
          <6>2. QED BY <1>1, <1>3, <2>3, <5>2, <6>1, EndedToRevert
        <5>3. CASE Ending(f) /\ f.on \in LBs /\ f.op = "delete"
          <6>1. f.on = l /\ status[l] = "GONE"
            BY <1>2, <2>3, <5>3, LbTree DEF Ended
          <6>2. ~Live(Idle, l) /\ ~Live(g, l)
            BY <6>1 DEF Live, HasRow
          <6>3. LbStatus(g, l)
            BY <1>1, <6>1 DEF LbStatus
          <6>4. \A x \in ListenersOf(l) : ListenerOK(g, x) /\ CleanListener(g, x)
            <7>1. \A x \in ListenersOf(l) : LbOf[x] = l /\ CleanListener(Idle, x)
              BY <2>3, <5>3, IdleIs DEF ListenersOf
            <7>2. QED BY <6>1, <6>2, <7>1 DEF ListenerOK, CleanListener, Falling
          <6>5. \A p \in Policies : LbOf[ListenerOf[p]] = l => PolicyOK(g, p) /\ CleanPolicy(p)
            BY <2>3, <5>3, <6>2, IdleIs DEF PolicyOK
          <6>6. \A o \in Under(l) : Calm(g, o)
            BY <6>2, BelowLb DEF Calm
          <6>7. QED BY <1>1, <6>2, <6>3, <6>4, <6>5, <6>6 DEF LbGood
        <5>4. QED BY <1>3, <5>1, <5>2, <5>3
      <4>4. CASE LbGood(g, l)
        <5>1. Shape(g) /\ Lb(g.on) = l
          BY <1>1, <1>2, <1>3 DEF Alike
        <5>2. QED BY <4>2, <4>4, <5>1, LbFrame
      <4>5. CASE f.on \notin LBs /\ Ending(f)
        <5>1. C = Chain(f.on) /\ PartFacts(l, f)
          BY <1>1, <1>2, <1>5, <2>3, <4>5, EndedFacts
        <5>2. QED BY <1>1, <1>2, <1>3, <1>5, <2>2, <4>5, <5>1, ErrorReverts
      <4>6. QED BY <4>3, <4>4, <4>5
    <3>2. CASE f.on \in LBs /\ \E o \in Objects : o \in C /\ HasRow(o)
      <4>1. l \in C /\ g.on = l /\ l \in Objects
        BY <1>2, <1>3, <1>5, <3>2, LbTree
      <4>2. ~(Live(g, l)')
        <5>1. status'[l] \in {"ERROR", "NEW", "GONE"}
          BY <1>5, <4>1 DEF HasRow
        <5>2. l \notin Under(l)'
          BY DEF Under
        <5>3. QED BY <4>1, <5>1, <5>2 DEF Live, HasRow
      <4>3. PICK e : LbGood(e, l) /\ (e = Idle \/ e = f)
        BY <2>3
      <4>4. ASSUME NEW x \in ListenersOf(l) PROVE ListenerOK(g, x)' /\ CleanListener(g, x)'
        <5>1. x \in Objects /\ LbOf[x] = l /\ CleanListener(e, x)
          BY <4>3, <4>4, BelowLb DEF LbGood
        <5>2. status'[x] \in {"NEW", "GONE"} => status'[x] = status[x]
          BY <1>5, <5>1
        <5>3. Falling(e, l) => Falling(g, l)'
          BY <1>5, <4>1, <4>2 DEF Falling, HasRow
        <5>4. CleanListener(g, x)'
          BY <2>2, <5>1, <5>2, <5>3 DEF CleanListener, Still
        <5>5. QED BY <4>2, <5>1, <5>4 DEF ListenerOK
      <4>5. ASSUME NEW p \in Policies, LbOf[ListenerOf[p]] = l PROVE PolicyOK(g, p)' /\ CleanPolicy(p)'
        <5>1. p \in Objects /\ ListenerOf[p] \in Objects /\ CleanPolicy(p) /\ \A r \in RulesOf(p) : r \in Objects
          BY <4>3, <4>5, PolicyTree, ListenerTree, RuleTree DEF LbGood, RulesOf
        <5>2. \A o \in Objects : status'[o] = "GONE" <=> status[o] = "GONE"
          BY <1>5 DEF HasRow
        <5>3. CleanPolicy(p)'
          BY <2>2, <5>1, <5>2 DEF CleanPolicy, RulesOf, Still
        <5>4. QED BY <4>2, <4>5, <5>3 DEF PolicyOK
      <4>6. \A o \in Under(l) : Calm(g, o)'
        <5>1. \A o \in Under(l) : (Lb(o) = l)'
          BY BelowLb DEF Lb, ListenerAt, PolicyAt
        <5>2. QED BY <4>2, <5>1 DEF Calm
      <4>7. LbStatus(g, l)'
        <5>1. status'[l] # "ACTIVE"
          BY <1>5, <4>1 DEF HasRow
        <5>2. QED BY <1>1, <5>1 DEF LbStatus
      <4>8. QED BY <1>1, <4>2, <4>4, <4>5, <4>6, <4>7 DEF LbGood, ListenersOf, Under, Below, Chain, PolicyAt, ListenerAt, Lb, Objects, Idle
    <3>3. CASE f.on \notin LBs /\ \E o \in Objects : o \in C /\ HasRow(o)
      <4>1. C = Chain(f.on)
        BY <1>5, <3>3
      <4>2. PartFacts(l, f)
        BY <1>1, <1>2, <1>3, <2>3, <3>3, WorkingFacts, EndedFacts
      <4>3. QED BY <1>1, <1>2, <1>3, <1>5, <2>2, <3>3, <4>1, <4>2, ErrorReverts
    <3>4. QED BY <3>1, <3>2, <3>3
  <2>5. QED BY <1>1, <1>3, <2>2, <2>4, AloneStep
<1>9. QED BY <1>6, <1>7, <1>8

-----------------------------------------------------------------------------
(* A flow that has failed undoes its tasks.                                *)
LEMMA MadeIs ==
  ASSUME ShapeAssumption, NEW f \in Flows, Shape(f), NEW do
  PROVE  /\ \A o \in MadeBy(f, do) : o \in Objects /\ Lb(o) = Lb(f.on)
         /\ f.on \notin LBs => MadeBy(f, do) \subseteq {f.on}
<1>1. \A t \in f.done : t.on \in Below(f.on) /\ (f.on \notin LBs => t.on = f.on)
  BY BelowTree DEF Shape
<1>2. \A o \in MadeBy(f, do) : \E t \in f.done : o = t.on
  BY DEF MadeBy
<1>3. f.on \in Objects
  BY ShapeIs
<1>4. QED BY <1>1, <1>2, <1>3, BelowTree

(* The statuses that the reverts write, and what they leave alone.         *)
Closed(f, F) ==
    /\ f.on \in F /\ \A o \in F : o \in Objects /\ Lb(o) = Lb(f.on)
    /\ f.on \notin LBs => F = {f.on}
    /\ \A o \in Objects : status'[o] = IF o \in F /\ (o \in LBs \/ HasRow(o)) THEN "ERROR" ELSE Activated(Chain(f.on))[o]

LEMMA RevertWrites ==
  ASSUME ShapeAssumption, Inv, NEW s \in Slots, Revert(s), NEW f \in Flows, f = flow[s], Shape(f), NEW l \in LBs, l = Lb(f.on)
  PROVE  /\ tls' = tls /\ revived' = revived /\ unbound' = unbound /\ bare' = bare
         /\ \A m \in LBs : Settled(m)' => Settled(m)
         /\ Settled(l)' => On(l) = {s}
         /\ \E F : Closed(f, F)
<1>1. tls' = tls /\ revived' = revived /\ unbound' = unbound /\ bare' = bare
  BY DEF Revert
<1>2. overlapped' = IF On(l) # {s} THEN overlapped \cup {l} ELSE overlapped
  BY DEF Revert
<1>3. /\ \A m \in LBs : Settled(m)' => Settled(m)
      /\ Settled(l)' => On(l) = {s}
  <2>1. \A m : (Settled(m)' <=> m \notin overlapped') /\ (Settled(m) <=> m \notin overlapped)
    BY DEF Settled
  <2>2. On(l) = {s} => overlapped' = overlapped
    BY <1>2
  <2>3. On(l) # {s} => overlapped' = overlapped \cup {l}
    BY <1>2
  <2>4. QED BY <2>1, <2>2, <2>3
<1> DEFINE F == {f.on} \cup (IF f.op = "create" /\ f.on \in LBs THEN {t.on : t \in f.done} ELSE {})
<1>4. EndInError(s)
  BY DEF Revert
<1>5. status' = [x \in Objects |-> IF x \in F \cap (LBs \cup Rows(Objects)) THEN "ERROR" ELSE Activated(Chain(f.on))[x]]
  BY <1>4 DEF EndInError
<1>6. \A t \in f.done : t.on \in Below(f.on)
  <2>1. f.on \in Objects
    BY ShapeIs
  <2>2. QED BY <2>1, BelowTree DEF Shape
<1>7. f.on \in F /\ (f.on \notin LBs => F = {f.on}) /\ \A o \in F : o = f.on \/ o \in Below(f.on)
  BY <1>6
<1> HIDE DEF F
<1>8. \A o \in F : o \in Objects /\ Lb(o) = Lb(f.on)
  BY <1>7, ShapeIs, BelowTree
<1>9. \A o \in Objects : status'[o] = IF o \in F /\ (o \in LBs \/ HasRow(o)) THEN "ERROR" ELSE Activated(Chain(f.on))[o]
  BY <1>5 DEF Rows
<1>10. Closed(f, F)
  BY <1>7, <1>8, <1>9 DEF Closed
<1>11. QED BY <1>1, <1>3, <1>10

LEMMA RevertRows ==
  ASSUME ShapeAssumption, Inv, NEW s \in Slots, Revert(s), \A o \in Objects : Rowed(o)
  PROVE  \A o \in Objects : Rowed(o)'
<1>1. PICK f \in Flows : f = flow[s] /\ Shape(f) /\ Only(s) /\ flow'[s] = Idle
  BY RevertStep
<1>2. PICK F : Closed(f, F)
  BY <1>1, RevertWrites, ShapeIs
<1>3. /\ f.on \in F /\ \A o \in F : o \in Objects /\ Lb(o) = Lb(f.on)
      /\ f.on \notin LBs => F = {f.on}
      /\ \A o \in Objects : status'[o] = IF o \in F /\ (o \in LBs \/ HasRow(o)) THEN "ERROR" ELSE Activated(Chain(f.on))[o]
  BY <1>2 DEF Closed
<1>4. f.on \in Objects /\ f.step # "idle"
  BY <1>1, ShapeIs
<1>5. status[f.on] # "NEW"
  BY <1>1, <1>4 DEF Rowed
<1>6. \A o \in Objects : Activated(Chain(f.on))[o] \in {status[o], "ACTIVE"} /\ (status[o] \in {"NEW", "GONE"} => Activated(Chain(f.on))[o] = status[o])
  BY InvIs, ActivatedIs DEF Typed
<1>7. \A o \in F \cap LBs : o = f.on
  <2>1. TAKE o \in F \cap LBs
  <2>2. CASE f.on \in LBs
    BY <1>3, <2>2, LbTree
  <2>3. CASE f.on \notin LBs
    BY <1>3, <2>3
  <2>4. QED BY <2>2, <2>3
<1>8. \A o \in Objects : status'[o] = "NEW" <=> status[o] = "NEW"
  BY <1>3, <1>5, <1>6, <1>7 DEF HasRow
<1>9. \A o \in Parts : status'[o] = "GONE" <=> status[o] = "GONE"
  <2>1. TAKE o \in Parts
  <2>2. o \in Objects /\ o \notin LBs
    BY PartTree
  <2>3. QED BY <1>3, <1>6, <2>2 DEF HasRow
<1>10. flow'[s].step = "idle"
  BY <1>1 DEF Idle
<1>11. QED BY <1>1, <1>8, <1>9, <1>10, SameRows DEF Inv

LEMMA RevertOthers ==
  ASSUME ShapeAssumption, Inv, NEW s \in Slots, Revert(s), NEW f \in Flows, f = flow[s], Shape(f), NEW l \in LBs, l = Lb(f.on)
  PROVE  \A m \in LBs \ {l} : Untouched(m)
<1>1. PICK F : Closed(f, F)
  BY RevertWrites
<1>2. tls' = tls /\ revived' = revived /\ unbound' = unbound /\ bare' = bare
  BY RevertWrites
<1>3. PICK P \in SUBSET MadeBy(f, "vport"), T \in SUBSET MadeBy(f, "template"),
            S \in SUBSET (MadeBy(f, "script") \cap Policies), L \in SUBSET MadeBy(f, "vs") : Undone(P, T, S, L)
  BY RevertIs
<1>4. \A o \in P \cup T \cup S \cup L \cup F \cup Chain(f.on) : Lb(o) = l
  <2>1. \A o \in Chain(f.on) : Lb(o) = l
    BY ShapeIs, ChainTree
  <2>2. \A o \in F : Lb(o) = l
    BY <1>1 DEF Closed
  <2>3. \A o \in P \cup T \cup S \cup L : Lb(o) = l
    BY <1>3, MadeIs
  <2>4. QED BY <2>1, <2>2, <2>3
<1>5. Typed
  BY InvIs
<1>6. TAKE m \in LBs \ {l}
<1>7. \A o \in Below(m) : SameStatus(o)
  <2>1. TAKE o \in Below(m)
  <2>2. o \in Objects /\ Lb(o) = m
    BY BelowTree, LbTree
  <2>3. Activated(Chain(f.on))[o] = status[o]
    BY <1>4, <1>5, <1>6, <2>2, ActivatedIs DEF Typed
  <2>4. QED BY <1>1, <1>2, <1>4, <1>6, <2>2, <2>3 DEF Closed, SameStatus
<1>8. /\ vports' = {x \in vports \ P : LbOf[x] \notin L}
      /\ template' = [x \in Listeners |-> IF x \in T THEN None ELSE template[x]]
      /\ sslOn' = {x \in (sslOn \ T) : x \in vports'}
      /\ scripts' = scripts \ S
      /\ inScript' = {r \in inScript : PolicyOf[r] \in scripts'}
      /\ bound' = {p \in bound : p \in scripts' /\ ListenerOf[p] \in vports'}
      /\ vs' = vs \ L
  BY <1>3 DEF Undone
<1>9. m \in vs' <=> m \in vs
  <2>1. Lb(m) = m
    BY LbTree
  <2>2. QED BY <1>4, <1>6, <1>8, <2>1
<1>10. \A x \in ListenersOf(m) : SameListener(x)
  <2>1. TAKE x \in ListenersOf(m)
  <2>2. x \in Listeners /\ LbOf[x] = m /\ Lb(x) = m /\ Lb(m) = m
    BY ListenerTree, LbTree DEF ListenersOf
  <2>3. x \notin P /\ x \notin T /\ LbOf[x] \notin L
    BY <1>4, <1>6, <2>2
  <2>4. (x \in vports' <=> x \in vports) /\ template'[x] = template[x]
    BY <1>8, <2>2, <2>3
  <2>5. x \in sslOn' <=> x \in sslOn
    BY <1>5, <1>8, <2>3, <2>4 DEF Typed
  <2>6. QED BY <1>2, <2>4, <2>5 DEF SameListener
<1>11. \A p \in Policies : LbOf[ListenerOf[p]] = m => SamePolicy(p)
  <2>1. SUFFICES ASSUME NEW p \in Policies, LbOf[ListenerOf[p]] = m PROVE SamePolicy(p)
    OBVIOUS
  <2>2. Lb(p) = m /\ ListenerOf[p] \in ListenersOf(m)
    BY <2>1, PolicyTree DEF ListenersOf
  <2>3. p \notin S
    BY <1>4, <1>6, <2>2
  <2>4. p \in scripts' <=> p \in scripts
    BY <1>8, <2>3
  <2>5. \A r \in RulesOf(p) : r \in inScript' <=> r \in inScript
    BY <1>5, <1>8, <2>4 DEF Typed, RulesOf
  <2>6. p \in bound' <=> p \in bound
    BY <1>5, <1>8, <1>10, <2>2, <2>4 DEF Typed, SameListener
  <2>7. QED BY <1>2, <2>4, <2>5, <2>6 DEF SamePolicy
<1>12. QED BY <1>7, <1>9, <1>10, <1>11 DEF Untouched

(* A failed request for a load balancer leaves it in ERROR.                *)
LEMMA RevertLb ==
  ASSUME ShapeAssumption, Inv, NEW f \in Flows, Shape(f), NEW l \in LBs, l = f.on, LbGood(f, l),
         NEW F, Closed(f, F), tls' = tls, revived' = revived, unbound' = unbound, bare' = bare,
         NEW P, NEW T, NEW S, NEW L, Undone(P, T, S, L)
  PROVE  LbGood(Idle, l)'
<1>1. status'[l] = "ERROR" /\ l \in Objects
  BY LbTree DEF Closed
<1>2. ~(Live(Idle, l)')
  <2>1. Idle.on \notin Under(l)'
    <3>1. None \notin Objects
      BY DEF ShapeAssumption
    <3>2. QED BY <3>1 DEF Idle, Under, Below, Objects
  <2>2. QED BY <1>1, <2>1 DEF Live, Idle
<1>3. \A o \in Objects : o \notin LBs => (status'[o] = "GONE" <=> status[o] = "GONE") /\ (status'[o] = "NEW" <=> status[o] = "NEW")
  <2>1. \A o \in Objects : Activated(Chain(f.on))[o] \in {status[o], "ACTIVE"} /\ (status[o] \in {"NEW", "GONE"} => Activated(Chain(f.on))[o] = status[o])
    BY InvIs, ActivatedIs DEF Typed
  <2>2. QED BY <2>1 DEF Closed, HasRow
<1>4. ASSUME NEW x \in ListenersOf(l) PROVE ListenerOK(Idle, x)' /\ CleanListener(Idle, x)'
  <2>1. x \in Objects /\ x \notin LBs /\ LbOf[x] = l /\ x \in Listeners /\ CleanListener(f, x)
    BY <1>4, BelowLb, ListenerTree DEF LbGood
  <2>2. template'[x] \in {None, template[x]}
    BY <2>1 DEF Undone
  <2>3. Falling(Idle, l)'
    BY <1>1, <1>2 DEF Falling
  <2>4. CleanListener(Idle, x)'
    BY <1>3, <2>1, <2>2, <2>3 DEF CleanListener
  <2>5. QED BY <1>2, <2>1, <2>4 DEF ListenerOK
<1>5. ASSUME NEW p \in Policies, LbOf[ListenerOf[p]] = l PROVE PolicyOK(Idle, p)' /\ CleanPolicy(p)'
  <2>1. /\ p \in Objects /\ p \notin LBs /\ ListenerOf[p] \in Objects /\ ListenerOf[p] \notin LBs /\ CleanPolicy(p)
        /\ \A r \in RulesOf(p) : r \in Objects /\ r \notin LBs
    BY <1>5, PolicyTree, ListenerTree, RuleTree DEF LbGood, RulesOf
  <2>2. scripts' \subseteq scripts /\ inScript' \subseteq inScript
    BY DEF Undone
  <2>3. CleanPolicy(p)'
    BY <1>3, <2>1, <2>2 DEF CleanPolicy, RulesOf
  <2>4. QED BY <1>2, <1>5, <2>3 DEF PolicyOK
<1>6. \A o \in Under(l) : Calm(Idle, o)'
  <2>1. \A o \in Under(l) : (Lb(o) = l)'
    BY BelowLb DEF Lb, ListenerAt, PolicyAt
  <2>2. QED BY <1>2, <2>1 DEF Calm
<1>7. LbStatus(Idle, l)'
  BY DEF LbStatus
<1>8. QED BY <1>2, <1>4, <1>5, <1>6, <1>7 DEF LbGood, ListenersOf, Under, Below, Chain, PolicyAt, ListenerAt, Lb, Objects, Idle

(* A failed request for an object below leaves only that one in ERROR.     *)
LEMMA RevertPart ==
  ASSUME ShapeAssumption, Inv, NEW f \in Flows, Shape(f), f.on \notin LBs, NEW l \in LBs, l = Lb(f.on), LbGood(f, l),
         NEW F, Closed(f, F), tls' = tls, revived' = revived, unbound' = unbound, bare' = bare,
         NEW P \in SUBSET {f.on}, NEW T \in SUBSET {f.on}, NEW S \in SUBSET {f.on}, NEW L \in SUBSET {f.on}, Undone(P, T, S, L)
  PROVE  LbGood(Idle, l)'
<1>1. /\ f.on \in Objects /\ f.on \in Parts /\ l \in Chain(f.on) /\ l \in Objects /\ f.on # l /\ f # Idle
      /\ Chain(f.on) \subseteq Objects /\ f.on \in Under(l) /\ f.on \in Chain(f.on)
  <2>1. f.on \in Objects /\ f # Idle
    BY ShapeIs
  <2>2. f.on \in Parts
    BY <2>1 DEF Parts, Objects
  <2>3. QED BY <2>1, <2>2, ChainTree, LbTree, UnderTree
<1>2. Typed
  BY InvIs
<1>3. \A o \in Objects : status'[o] = IF o = f.on /\ HasRow(o) THEN "ERROR" ELSE Activated(Chain(f.on))[o]
  BY <1>1 DEF Closed
<1>4. /\ \A o \in Objects : o \notin Chain(f.on) => status'[o] = status[o]
      /\ \A o \in Objects : status[o] \in {"NEW", "GONE"} <=> status'[o] \in {"NEW", "GONE"}
      /\ \A o \in Objects : status'[o] = "GONE" <=> status[o] = "GONE"
      /\ \A o \in Objects : status'[o] = "NEW" <=> status[o] = "NEW"
      /\ status'[f.on] \in {"ERROR", "NEW", "GONE"}
      /\ \A o \in Chain(f.on) \ {f.on} : /\ status'[o] # "PENDING"
                                         /\ status'[o] = "ERROR" => o \in Listeners
  <2>1. \A o \in Objects : status[o] \in Statuses
    BY <1>2 DEF Typed
  <2>2. /\ \A o \in Objects : Activated(Chain(f.on))[o] \in {status[o], "ACTIVE"}
        /\ \A o \in Objects : o \notin Chain(f.on) \/ ~HasRow(o) => Activated(Chain(f.on))[o] = status[o]
        /\ \A o \in Objects : o \in Chain(f.on) /\ status[o] = "PENDING" => Activated(Chain(f.on))[o] = "ACTIVE"
        /\ \A o \in Objects : o \in Chain(f.on) /\ status[o] = "ERROR" /\ o \notin Listeners => Activated(Chain(f.on))[o] = "ACTIVE"
        /\ \A o \in Objects : status[o] \in {"NEW", "GONE"} => Activated(Chain(f.on))[o] = status[o]
    BY <1>2, ActivatedIs DEF Typed
  <2> HIDE DEF Chain
  <2>3. QED BY <1>1, <1>3, <2>1, <2>2 DEF HasRow, Statuses
<1>5. /\ vports' = {x \in vports \ P : LbOf[x] \notin L}
      /\ template' = [x \in Listeners |-> IF x \in T THEN None ELSE template[x]]
      /\ sslOn' = {x \in (sslOn \ T) : x \in vports'}
      /\ scripts' = scripts \ S
      /\ inScript' = {r \in inScript : PolicyOf[r] \in scripts'}
      /\ bound' = {p \in bound : p \in scripts' /\ ListenerOf[p] \in vports'}
      /\ vs' = vs \ L
  BY DEF Undone
<1>6. Live(Idle, l)' => Live(f, l) /\ HasRow(l)
  <2>1. Live(Idle, l)' => HasRow(l)
    BY <1>1, <1>4 DEF Live, HasRow
  <2>2. HasRow(l) => Live(f, l)
    BY <1>1 DEF Live, Deletes
  <2>3. QED BY <2>1, <2>2
<1>7. /\ ~Creates(f, l) /\ \A x \in ListenersOf(l) : LbOf[x] = l /\ ListenerOK(f, x) /\ CleanListener(f, x)
      /\ \A p \in Policies : LbOf[ListenerOf[p]] = l => PolicyOK(f, p) /\ CleanPolicy(p)
      /\ Live(f, l) => l \in vs
  <2>1. ~Creates(f, l)
    BY <1>1 DEF Creates
  <2>2. QED BY <2>1 DEF LbGood, ListenersOf
<1>8. Live(Idle, l)' => l \in vs'
  BY <1>1, <1>5, <1>6, <1>7
<1>9. \A o : Idle.on \notin Under(o)' /\ Idle.on \notin RulesOf(o)
  <2>1. None \notin Objects
    BY DEF ShapeAssumption
  <2>2. QED BY <2>1 DEF Idle, Under, Below, Objects, RulesOf
<1>10. ASSUME NEW x \in ListenersOf(l) PROVE ListenerOK(Idle, x)' /\ CleanListener(Idle, x)'
  <2>1. x \in Objects /\ LbOf[x] = l /\ x \in Listeners /\ x # l
    BY <1>10, BelowLb
  <2>2. CleanListener(Idle, x)'
    <3>1. template'[x] \in {None, template[x]}
      BY <1>5, <2>1
    <3>2. status[x] = "GONE" => x \notin vports
      <4>1. HasRow(l) => Live(f, l)
        BY <1>1 DEF Live, Deletes
      <4>2. ~Falling(f, l)
        BY <4>1 DEF Falling, HasRow
      <4>3. QED BY <1>7, <1>10, <4>2 DEF CleanListener
    <3>3. CleanListener(f, x)
      BY <1>7, <1>10
    <3>4. QED BY <1>4, <1>5, <2>1, <3>1, <3>2, <3>3 DEF CleanListener
  <2>3. ListenerOK(Idle, x)'
    <3>1. SUFFICES ASSUME Live(Idle, l)', x \notin revived', status'[x] = "ACTIVE" PROVE Served(x)'
      BY <1>9, <2>1 DEF ListenerOK
    <3>2. x # f.on
      BY <1>4, <3>1
    <3>3. status[x] = "ACTIVE" \/ (status[x] = "PENDING" /\ f.on \in Under(x))
      <4>1. CASE x \in Chain(f.on)
        <5>1. f.on \in Under(x)
          BY <1>1, <3>2, <4>1 DEF Under, Below
        <5>2. status[x] \in {"PENDING", "ACTIVE"}
          <6>1. status'[x] = Activated(Chain(f.on))[x]
            BY <1>3, <2>1, <3>2
          <6>2. status[x] # "ERROR"
            BY <1>2, <2>1, <3>1, <6>1, ActivatedIs DEF Typed
          <6>3. status[x] \in Statuses /\ status[x] \notin {"NEW", "GONE"}
            BY <1>2, <1>4, <2>1, <3>1 DEF Typed
          <6>4. QED BY <6>2, <6>3 DEF Statuses
        <5>3. QED BY <5>1, <5>2
      <4>2. CASE x \notin Chain(f.on)
        BY <1>4, <2>1, <3>1, <4>2
      <4>3. QED BY <4>1, <4>2
    <3>4. Served(x)
      BY <1>6, <1>7, <1>10, <2>1, <3>1, <3>3 DEF ListenerOK
    <3>5. x \notin P /\ x \notin T /\ LbOf[x] \notin L
      BY <1>1, <2>1, <3>2
    <3>6. x \in vports => x \in vports'
      BY <1>5, <3>5
    <3>7. template'[x] = template[x] /\ (x \in vports' /\ x \in sslOn => x \in sslOn')
      BY <1>5, <2>1, <3>5
    <3>8. QED BY <3>4, <3>6, <3>7 DEF Served
  <2>4. QED BY <2>2, <2>3
<1>11. ASSUME NEW p \in Policies, LbOf[ListenerOf[p]] = l PROVE PolicyOK(Idle, p)' /\ CleanPolicy(p)'
  <2>1. /\ p \in Objects /\ ListenerOf[p] \in Objects
        /\ \A r \in RulesOf(p) : r \in Objects /\ PolicyOf[r] = p /\ p \in Chain(r) /\ r # p
    BY PolicyTree, ListenerTree, RuleTree DEF RulesOf
  <2>2. CleanPolicy(p)'
    <3>1. CleanPolicy(p)
      BY <1>7, <1>11
    <3>2. QED BY <1>4, <1>5, <2>1, <3>1 DEF CleanPolicy, RulesOf
  <2>3. PolicyOK(Idle, p)'
    <3>1. SUFFICES ASSUME Live(Idle, l)', p \notin revived', ListenerOf[p] \in vports', status'[p] = "ACTIVE"
                   PROVE  p \in bound' \cup unbound' /\ Listed(p)'
      BY <1>9, <1>11 DEF PolicyOK, RulesOf
    <3>2. p # f.on /\ p \notin S
      BY <1>4, <3>1
    <3>3. status[p] = "ACTIVE" \/ (status[p] \in {"PENDING", "ERROR"} /\ f.on \in RulesOf(p))
      <4>1. CASE p \in Chain(f.on)
        <5>1. f.on \in RulesOf(p)
          <6>1. f.on \in Listeners \/ f.on \in Policies \/ f.on \in Rules
            BY <1>1 DEF Parts
          <6>2. f.on \notin Listeners /\ f.on \notin Policies
            BY <3>2, <4>1, ListenerTree, PolicyTree, LbTree
          <6>3. f.on \in Rules
            BY <6>1, <6>2
          <6>4. p \in {f.on, PolicyOf[f.on], ListenerOf[PolicyOf[f.on]], LbOf[ListenerOf[PolicyOf[f.on]]]}
                /\ ListenerOf[PolicyOf[f.on]] \in Listeners /\ LbOf[ListenerOf[PolicyOf[f.on]]] \in LBs
            BY <4>1, <6>3, RuleTree
          <6>5. p \notin Listeners /\ p \notin LBs
            BY PolicyTree
          <6>6. QED BY <3>2, <6>3, <6>4, <6>5 DEF RulesOf
        <5>2. status[p] \in Statuses /\ status[p] \notin {"NEW", "GONE"}
          BY <1>2, <1>4, <2>1, <3>1 DEF Typed
        <5>3. QED BY <5>1, <5>2 DEF Statuses
      <4>2. CASE p \notin Chain(f.on)
        BY <1>4, <2>1, <3>1, <4>2
      <4>3. QED BY <4>1, <4>2
    <3>4. ListenerOf[p] \in vports
      BY <1>5, <3>1
    <3>5. p \in bound \cup unbound /\ Listed(p)
      BY <1>6, <1>7, <1>11, <3>1, <3>3, <3>4 DEF PolicyOK
    <3>6. p \in scripts => p \in scripts'
      BY <1>5, <3>2
    <3>7. p \in bound' \cup unbound'
      BY <1>2, <1>5, <3>1, <3>5, <3>6 DEF Typed
    <3>8. \A r \in RulesOf(p) : status'[r] = "ACTIVE" => r \in inScript'
      <4>1. SUFFICES ASSUME NEW r \in RulesOf(p), status'[r] = "ACTIVE" PROVE r \in inScript'
        OBVIOUS
      <4>2. r # f.on /\ r \in Objects /\ r \in Rules
        BY <1>4, <2>1, <4>1 DEF RulesOf
      <4>3. r \notin Chain(f.on)
        <5>1. f.on \in Listeners \/ f.on \in Policies \/ f.on \in Rules
          BY <1>1 DEF Parts
        <5>2. r \notin Listeners /\ r \notin Policies /\ r \notin LBs
          BY <4>2, RuleTree
        <5>3. QED BY <4>2, <5>1, <5>2, ListenerTree, PolicyTree, RuleTree
      <4>4. status[r] = "ACTIVE"
        BY <1>4, <4>1, <4>2, <4>3
      <4>5. r \in inScript
        BY <3>5, <4>1, <4>4 DEF Listed
      <4>6. PolicyOf[r] = p /\ p \in scripts
        BY <1>2, <2>1, <4>1, <4>5 DEF Typed
      <4>7. QED BY <1>5, <3>6, <4>5, <4>6
    <3>9. QED BY <3>7, <3>8 DEF Listed, RulesOf
  <2>4. QED BY <2>2, <2>3
<1>12. \A o \in Under(l) : Calm(Idle, o)'
  <2>1. TAKE o \in Under(l)
  <2>2. o \in Objects /\ Lb(o) = l /\ o # l
    BY BelowLb
  <2>3. (Lb(o) = l)'
    BY <2>2 DEF Lb, ListenerAt, PolicyAt
  <2>4. SUFFICES ASSUME Live(Idle, l)' PROVE status'[o] # "PENDING"
    BY <2>3 DEF Calm
  <2>5. CASE o \in Chain(f.on)
    BY <1>4, <2>5
  <2>6. CASE o \notin Chain(f.on)
    <3>1. Calm(f, o)
      BY DEF LbGood
    <3>2. status[o] # "PENDING"
      BY <1>6, <1>7, <2>2, <2>4, <2>6, <3>1 DEF Calm
    <3>3. QED BY <1>4, <2>2, <2>6, <3>2
  <2>7. QED BY <2>5, <2>6
<1>13. LbStatus(Idle, l)'
  BY DEF LbStatus
<1>14. QED BY <1>8, <1>10, <1>11, <1>12, <1>13 DEF LbGood, ListenersOf, Under, Below, Chain, PolicyAt, ListenerAt, Lb, Objects, Idle

LEMMA RevertKeeps ==
  ASSUME ShapeAssumption, Inv, NEW s \in Slots, Revert(s), \A o \in Objects : Rowed(o), \A l \in LBs : LbOK(l)
  PROVE  (\A o \in Objects : Rowed(o)') /\ \A l \in LBs : LbOK(l)'
<1>1. PICK f \in Flows : f = flow[s] /\ Shape(f) /\ Inv' /\ Only(s) /\ flow'[s] = Idle /\ f.step = "revert"
  BY RevertStep
<1> DEFINE l == Lb(f.on)
<1>2. l \in LBs /\ f.on \in Objects /\ l = Lb(f.on) /\ ~Ending(f) /\ f # Idle
  BY <1>1, ShapeIs DEF Ending
<1> HIDE DEF l
<1>3. Idle.step = "idle" /\ Idle \in Flows
  BY DEF Idle, Flows, Labels, Histories
<1>4. \A t \in On(l)' : t \in On(l) /\ t # s
  BY <1>1, <1>3 DEF On, Only, Lb, ListenerAt, PolicyAt
<1>5. \A o \in Objects : Rowed(o)'
  BY RevertRows
<1>6. ASSUME NEW m \in LBs \ {l} PROVE LbOK(m)'
  <2>1. s \notin On(m) /\ s \notin On(m)'
    BY <1>1, <1>2, <1>3, <1>6 DEF On, Lb, ListenerAt, PolicyAt
  <2>2. Untouched(m)
    BY <1>1, <1>2, <1>6, RevertOthers
  <2>3. LbOK(m) /\ (Settled(m)' => Settled(m))
    BY <1>1, <1>2, RevertWrites
  <2>4. QED BY <1>1, <2>1, <2>2, <2>3, OtherLb
<1>7. LbOK(l)'
  <2>1. SUFFICES ASSUME Settled(l)' PROVE LbOK(l)'
    BY DEF LbOK
  <2>2. Settled(l) /\ LbOK(l) /\ On(l) = {s}
    BY <1>1, <1>2, <2>1, RevertWrites
  <2>3. LbGood(f, l)
    BY <1>1, <1>2, <2>2, AloneIs
  <2>4. On(l)' = {}
    BY <1>4, <2>2
  <2>5. tls' = tls /\ revived' = revived /\ unbound' = unbound /\ bare' = bare /\ \E F : Closed(f, F)
    BY <1>1, <1>2, RevertWrites
  <2>6. PICK F : Closed(f, F)
    BY <2>5
  <2>7. LbGood(Idle, l)'
    <3>1. PICK P \in SUBSET MadeBy(f, "vport"), T \in SUBSET MadeBy(f, "template"),
               S \in SUBSET (MadeBy(f, "script") \cap Policies), L \in SUBSET MadeBy(f, "vs") : Undone(P, T, S, L)
      BY <1>1, RevertIs
    <3>2. CASE f.on \in LBs
      <4>1. l = f.on
        BY <1>2, <3>2, LbTree
      <4>2. QED BY <1>1, <1>2, <2>3, <2>5, <2>6, <3>1, <4>1, RevertLb
    <3>3. CASE f.on \notin LBs
      <4>1. MadeBy(f, "vport") \subseteq {f.on} /\ MadeBy(f, "template") \subseteq {f.on}
            /\ MadeBy(f, "script") \subseteq {f.on} /\ MadeBy(f, "vs") \subseteq {f.on}
        BY <1>1, <3>3, MadeIs
      <4>2. P \in SUBSET {f.on} /\ T \in SUBSET {f.on} /\ S \in SUBSET {f.on} /\ L \in SUBSET {f.on}
        BY <4>1
      <4>3. QED BY <1>1, <1>2, <2>3, <2>5, <2>6, <3>1, <3>3, <4>2, RevertPart
    <3>4. QED BY <3>2, <3>3
  <2>8. AtWork(Idle, l)'
    BY <2>4 DEF AtWork, Idle
  <2>9. QED
    <3>1. \E e \in Flows : AtWork(e, l)' /\ LbGood(e, l)'
      BY <1>3, <2>7, <2>8
    <3>2. QED BY <2>4, <3>1 DEF LbOK, Flows, Ops, Objects, Parts, Labels, Histories
<1>8. QED BY <1>5, <1>6, <1>7

-----------------------------------------------------------------------------
(* The beginning.                                                          *)
LEMMA ObjectInit ==
  ASSUME ShapeAssumption, Init
  PROVE  ObjectInv
<1>1. Inv
  BY InvInit
<1>2. /\ scene.exist \subseteq Objects
      /\ \A x \in scene.exist \cap Listeners : LbOf[x] \in scene.exist
      /\ \A p \in scene.exist \cap Policies : ListenerOf[p] \in scene.exist
      /\ \A r \in scene.exist \cap Rules : PolicyOf[r] \in scene.exist
  BY <1>1 DEF Inv, ShapeAssumption
<1>3. /\ \A o \in Objects : status[o] = IF o \in scene.exist THEN "ACTIVE" ELSE "NEW"
      /\ \A s \in Slots : flow[s].step = "idle"
      /\ overlapped = {} /\ revived = {} /\ unbound = {} /\ bare = {}
  BY DEF Init, Idle
<1>4. \A o \in Objects : Rowed(o)
  <2>1. \A o \in Parts : o \in scene.exist => Up(o) \in scene.exist
    BY <1>2, ListenerTree, PolicyTree, RuleTree DEF Parts
  <2>2. \A o \in Objects : o \notin LBs => o \in Parts /\ Up(o) \in Objects
    BY PartTree DEF Objects, Parts
  <2>3. \A o \in Policies \cup Rules : o \in Parts
    BY DEF Parts
  <2>4. QED BY <1>3, <2>1, <2>2, <2>3, PartTree DEF Rowed
<1>5. ASSUME NEW l \in LBs PROVE LbOK(l)
  <2>1. On(l) = {} /\ Idle \in Flows /\ Idle.op = "none" /\ Idle.on = None
    BY <1>3 DEF On, Idle, Flows, Labels, Histories
  <2>2. /\ \A x \in ListenersOf(l) : x \in Listeners /\ LbOf[x] = l /\ x \in Objects
        /\ \A p \in Policies : p \in Objects /\ ListenerOf[p] \in Objects /\ ListenerOf[p] \in Listeners
        /\ \A r \in Rules : r \in Objects /\ PolicyOf[r] \in Objects
        /\ \A o \in Under(l) : o \in Objects /\ l \in Objects
    BY BelowLb, ListenerTree, PolicyTree, RuleTree, LbTree DEF ListenersOf
  <2>3. ASSUME NEW x \in ListenersOf(l) PROVE ListenerOK(Idle, x) /\ CleanListener(Idle, x)
    <3>1. template[x] = IF x \in scene.exist THEN TlsOf[x] ELSE None
      BY <2>2 DEF Init
    <3>2. None \notin Objects /\ Idle.on \notin Under(x)
      BY <2>1 DEF ShapeAssumption, Under, Below
    <3>3. status[x] = "ACTIVE" => Served(x)
      BY <1>3, <2>2, <3>1 DEF Init, Served
    <3>4. QED BY <1>3, <2>2, <3>1, <3>2, <3>3 DEF ListenerOK, CleanListener
  <2>4. ASSUME NEW p \in Policies PROVE PolicyOK(Idle, p) /\ CleanPolicy(p)
    <3>1. None \notin Objects /\ Idle.on \notin RulesOf(p)
      BY <2>1, <2>2 DEF ShapeAssumption, RulesOf
    <3>2. status[p] = "ACTIVE" => p \in bound
      BY <1>3, <2>2, <2>4 DEF Init
    <3>3. Listed(p)
      BY <1>3, <2>2 DEF Init, Listed, RulesOf
    <3>4. CleanPolicy(p)
      BY <1>3, <2>2 DEF CleanPolicy, RulesOf
    <3>5. QED BY <3>1, <3>2, <3>3, <3>4 DEF PolicyOK
  <2>5. \A o \in Under(l) : Calm(Idle, o)
    BY <1>3, <2>2 DEF Calm
  <2>6. Live(Idle, l) => l \in vs
    BY <1>3, <2>2, LbTree DEF Live, HasRow, Init
  <2>7. LbGood(Idle, l)
    BY <2>3, <2>4, <2>5, <2>6 DEF LbGood, LbStatus
  <2>8. AtWork(Idle, l)
    BY <2>1 DEF AtWork
  <2>9. QED BY <2>1, <2>7, <2>8 DEF LbOK
<1>6. QED BY <1>1, <1>4, <1>5 DEF ObjectInv

LEMMA ObjectStutter ==
  ASSUME ShapeAssumption, ObjectInv, UNCHANGED vars
  PROVE  ObjectInv'
<1>1. Inv'
  BY InvNext DEF ObjectInv
<1>2. /\ tls' = tls /\ vs' = vs /\ template' = template /\ vports' = vports /\ sslOn' = sslOn /\ bound' = bound
      /\ bare' = bare /\ unbound' = unbound /\ scripts' = scripts /\ inScript' = inScript /\ revived' = revived
      /\ overlapped' = overlapped /\ status' = status /\ flow' = flow
  BY DEF vars, hist, device, port, files
<1>3. \A o \in Objects : Rowed(o)'
  BY <1>2 DEF ObjectInv, Rowed, Up, HasRow
<1>4. ASSUME NEW l \in LBs, Settled(l)' PROVE LbOK(l)'
  <2>1. Settled(l) /\ LbOK(l)
    BY <1>2, <1>4 DEF Settled, ObjectInv
  <2>2. Untouched(l)
    BY <1>2 DEF Untouched, SameStatus, SameListener, SamePolicy
  <2>3. On(l)' = On(l)
    BY <1>2 DEF On, Lb, ListenerAt, PolicyAt
  <2>4. PICK f \in Flows : AtWork(f, l) /\ LbGood(f, l)
    BY <2>1 DEF LbOK
  <2>5. f = Idle \/ (Shape(f) /\ Lb(f.on) = l)
    <3>1. ASSUME NEW u \in On(l), f = flow[u] PROVE Shape(f) /\ Lb(f.on) = l
      BY <3>1 DEF On, ObjectInv, Inv, FlowInv, Idle
    <3>2. QED BY <2>4, <3>1 DEF AtWork
  <2>6. LbGood(f, l)'
    BY <2>2, <2>4, <2>5, LbFrame
  <2>7. AtWork(f, l)'
    BY <1>2, <2>3, <2>4 DEF AtWork, Idle, Ending
  <2>8. ASSUME NEW t \in On(l)', NEW e \in Flows, e = flow'[t], Ending(e) PROVE Ended(e)'
    <3>1. t \in On(l) /\ e = flow[t] /\ t \in Slots
      BY <1>2, <2>3, <2>8 DEF On
    <3>2. Ended(e)
      BY <2>1, <2>8, <3>1 DEF LbOK
    <3>3. QED BY <1>2, <3>2 DEF Ended, Lb, ListenerAt, PolicyAt, Objects
  <2>9. QED BY <2>4, <2>6, <2>7, <2>8 DEF LbOK
<1>5. QED BY <1>1, <1>3, <1>4 DEF ObjectInv, LbOK

LEMMA ObjectNext ==
  ASSUME ShapeAssumption, ObjectInv, [Next]_vars
  PROVE  ObjectInv'
<1>1. Inv' /\ Inv /\ (\A o \in Objects : Rowed(o)) /\ \A l \in LBs : LbOK(l)
  BY InvNext DEF ObjectInv
<1>2. CASE UNCHANGED vars
  BY <1>2, ObjectStutter
<1>3. CASE Next
  <2>1. PICK s \in Slots : Request(s) \/ Begin(s) \/ Tasked(s) \/ ReadPorts(s) \/ Finish(s) \/ Fail(s) \/ Revert(s)
    BY <1>3, NextIs
  <2>2. (\A o \in Objects : Rowed(o)') /\ \A l \in LBs : LbOK(l)'
    <3>1. CASE Request(s)
      BY <1>1, <3>1, RequestKeeps
    <3>2. CASE Begin(s)
      BY <1>1, <3>2, BeginKeeps
    <3>3. CASE Tasked(s) \/ ReadPorts(s)
      BY <1>1, <3>3, TasksKeep, TaskRows
    <3>4. CASE Finish(s)
      BY <1>1, <3>4, FinishKeeps
    <3>5. CASE Fail(s)
      BY <1>1, <3>5, FailKeeps
    <3>6. CASE Revert(s)
      BY <1>1, <3>6, RevertKeeps
    <3>7. QED BY <2>1, <3>1, <3>2, <3>3, <3>4, <3>5, <3>6
  <2>3. QED BY <1>1, <2>2 DEF ObjectInv, Objects
<1>4. QED BY <1>2, <1>3

(* The inductive invariant: as long as no two flows of a load balancer     *)
(* overlapped where one failed, at most one of its flows is not over, and  *)
(* the device and the rows are what that flow's progress says.             *)
THEOREM ObjectInvariant == Spec => []ObjectInv
<1>1. Init => ObjectInv
  BY ShapeAssumption, ObjectInit
<1>2. ObjectInv /\ [Next]_vars => ObjectInv'
  BY ShapeAssumption, ObjectNext
<1>3. QED BY <1>1, <1>2, PTL DEF Spec

-----------------------------------------------------------------------------
(* What the invariant says of the objects that are ACTIVE, or gone.        *)
LEMMA LiveWhenActive ==
  ASSUME NEW l \in LBs, NEW f \in Flows, LbGood(f, l), status[l] = "ACTIVE"
  PROVE  Live(f, l)
<1>1. ~Deletes(f, l)
  BY DEF LbGood, LbStatus, Deletes, Creates, Idle
<1>2. QED BY <1>1 DEF Live, HasRow

LEMMA ServedWhenActive ==
  ASSUME ShapeAssumption, ObjectInv, NEW l \in LBs, Settled(l), status[l] = "ACTIVE"
  PROVE  /\ l \in vs \/ \E s \in On(l) : flow[s].op = "create"
         /\ \A x \in ListenersOf(l) : status[x] = "ACTIVE" /\ x \notin revived => Served(x)
         /\ \A p \in Policies : /\ LbOf[ListenerOf[p]] = l /\ p \notin revived /\ ListenerOf[p] \in vports /\ status[p] = "ACTIVE"
                                => p \in bound \cup unbound /\ Listed(p)
<1>1. PICK f \in Flows : AtWork(f, l) /\ LbGood(f, l)
  BY DEF ObjectInv, LbOK
<1>2. Live(f, l)
  BY <1>1, LiveWhenActive
<1>3. l \in vs \/ \E s \in On(l) : flow[s].op = "create"
  <2>1. CASE Creates(f, l)
    BY <1>1, <2>1 DEF AtWork, Creates, Idle
  <2>2. QED BY <1>1, <1>2, <2>1 DEF LbGood
<1>4. \A x \in ListenersOf(l) : status[x] = "ACTIVE" /\ x \notin revived => Served(x)
  BY <1>1, <1>2, BelowLb DEF LbGood, ListenerOK
<1>5. QED BY <1>1, <1>2, <1>3, <1>4 DEF LbGood, PolicyOK

LEMMA ListenersServed ==
  ASSUME ShapeAssumption, ObjectInv
  PROVE  ActiveListenerServed
  BY ServedWhenActive DEF ActiveListenerServed, Served

LEMMA PoliciesEnforced ==
  ASSUME ShapeAssumption, ObjectInv
  PROVE  ActivePolicyEnforced
<1>1. SUFFICES ASSUME NEW p \in Policies, \A o \in Chain(p) : status[o] = "ACTIVE", Settled(LbOf[ListenerOf[p]]),
                      {p, ListenerOf[p]} \cap revived = {}, p \notin unbound
               PROVE  p \in bound /\ {r \in RulesOf(p) : status[r] = "ACTIVE"} \subseteq inScript
  BY DEF ActivePolicyEnforced
<1>2. /\ Chain(p) = {p, ListenerOf[p], LbOf[ListenerOf[p]]} /\ LbOf[ListenerOf[p]] \in LBs
      /\ ListenerOf[p] \in Listeners
  BY PolicyTree
<1>3. ListenerOf[p] \in ListenersOf(LbOf[ListenerOf[p]])
  BY <1>2 DEF ListenersOf
<1>4. Served(ListenerOf[p])
  BY <1>1, <1>2, <1>3, ServedWhenActive
<1>5. ListenerOf[p] \in vports
  BY <1>4 DEF Served
<1>6. p \in bound \cup unbound /\ Listed(p)
  BY <1>1, <1>2, <1>5, ServedWhenActive
<1>7. QED BY <1>1, <1>6 DEF Listed

LEMMA ConfigNotOrphaned ==
  ASSUME ShapeAssumption, ObjectInv
  PROVE  NoOrphanConfig
<1>1. SUFFICES ASSUME NEW x \in Listeners, Settled(LbOf[x])
               PROVE  /\ status[x] = "GONE" =>
                           template[x] = None /\ (x \in vports => status[LbOf[x]] \in {"PENDING", "ERROR"})
                      /\ status[x] # "GONE" =>
                           /\ \A p \in PoliciesOf(x) \cap scripts : status[p] # "GONE"
                           /\ \A r \in inScript : ListenerOf[PolicyOf[r]] = x => status[r] # "GONE"
  BY DEF NoOrphanConfig
<1>2. LbOf[x] \in LBs /\ x \in ListenersOf(LbOf[x])
  BY ListenerTree DEF ListenersOf
<1>3. PICK f \in Flows : LbGood(f, LbOf[x])
  BY <1>1, <1>2 DEF ObjectInv, LbOK
<1>4. CleanListener(f, x)
  BY <1>2, <1>3 DEF LbGood
<1>5. \A p \in Policies : ListenerOf[p] = x => CleanPolicy(p)
  BY <1>3 DEF LbGood
<1>6. inScript \subseteq Rules /\ \A r \in Rules : PolicyOf[r] \in Policies
  BY RuleTree DEF ObjectInv, Inv, TypeOK
<1>7. QED BY <1>1, <1>4, <1>5, <1>6 DEF CleanListener, Falling, CleanPolicy, PoliciesOf, RulesOf

(* An ACTIVE load balancer has its virtual server as soon as its creation  *)
(* is over, and an ACTIVE listener its port with its certificate.          *)
THEOREM ActiveListenersServed == Spec => []ActiveListenerServed
<1>1. ObjectInv => ActiveListenerServed
  BY ShapeAssumption, ListenersServed
<1>2. QED BY <1>1, ObjectInvariant, PTL

(* An ACTIVE policy of an ACTIVE listener is bound to the port, with all   *)
(* its ACTIVE rules in the script.                                         *)
THEOREM ActivePoliciesEnforced == Spec => []ActivePolicyEnforced
<1>1. ObjectInv => ActivePolicyEnforced
  BY ShapeAssumption, PoliciesEnforced
<1>2. QED BY <1>1, ObjectInvariant, PTL

(* What the database has no row of has nothing on the device, but for the  *)
(* port of a load balancer whose deletion is not over, or failed.          *)
THEOREM NoOrphanConfiguration == Spec => []NoOrphanConfig
<1>1. ObjectInv => NoOrphanConfig
  BY ShapeAssumption, ConfigNotOrphaned
<1>2. QED BY <1>1, ObjectInvariant, PTL

-----------------------------------------------------------------------------
(* The certificates.                                                       *)
LEMMA KeepsFrame ==
  ASSUME NEW s \in Slots, Only(s), NEW f, NEW g, f = flow[s], g = flow'[s], NEW z, NEW c,
         template'[z] = template[z], tls'[z] = tls[z], tls[z] = c /\ CertGone(g, z) => CertGone(f, z),
         Keeps(z, c)
  PROVE  Keeps(z, c)'
<1>1. ASSUME NEW t \in Slots, tls[z] = c, ~CertGone(flow[t], z) PROVE ~CertGone(flow'[t], z)
  BY <1>1 DEF Only
<1>2. QED BY <1>1 DEF Keeps, CertGone

LEMMA KeptFrame ==
  ASSUME NEW s \in Slots, Only(s), NEW f, NEW g, f = flow[s], g = flow'[s], NEW c,
         \A z \in Listeners : HasRow(z) /\ Keeps(z, c) => HasRow(z)' /\ Keeps(z, c)',
         Replacing(f, c) => Replacing(g, c) \/ \E z \in Listeners : HasRow(z)' /\ Keeps(z, c)',
         Kept(c)
  PROVE  Kept(c)'
<1>1. CASE \E z \in Listeners : HasRow(z) /\ Keeps(z, c)
  BY <1>1 DEF Kept
<1>2. CASE \E t \in Slots : Replacing(flow[t], c)
  <2>1. PICK t \in Slots : Replacing(flow[t], c)
    BY <1>2
  <2>2. CASE t = s
    <3>1. CASE Replacing(g, c)
      BY <3>1 DEF Kept, Replacing
    <3>2. QED BY <2>1, <2>2, <3>1 DEF Kept
  <2>3. CASE t # s
    <3>1. Replacing(flow'[t], c)
      BY <2>1, <2>3 DEF Only
    <3>2. QED BY <3>1 DEF Kept, Replacing
  <2>4. QED BY <2>2, <2>3
<1>3. QED BY <1>1, <1>2 DEF Kept

LEMMA OddFrame ==
  ASSUME NEW s \in Slots, Only(s), NEW f, NEW g, f = flow[s], g = flow'[s], NEW x,
         template'[x] = template[x], tls'[x] = tls[x], left \subseteq left',
         f.on = x /\ Placing(f, template[x]) => template[x] \in left' \/ (g.on = x /\ Placing(g, template[x])),
         Odd(x)
  PROVE  Odd(x)'
<1>1. ASSUME NEW t \in Slots, flow[t].on = x, Placing(flow[t], template[x])
      PROVE  template[x] \in left' \/ \E u \in Slots : flow'[u].on = x /\ Placing(flow'[u], template[x])
  <2>1. CASE t = s
    BY <1>1, <2>1
  <2>2. CASE t # s
    BY <1>1, <2>2 DEF Only
  <2>3. QED BY <2>1, <2>2
<1>2. QED BY <1>1 DEF Odd, Placing, Replacing

(* A step that leaves the files and the templates alone.                   *)
LEMMA CertQuiet ==
  ASSUME Inv, NEW s \in Slots, Only(s), NEW f, NEW g, f = flow[s], g = flow'[s],
         template' = template, tls' = tls, certs' = certs, left \subseteq left',
         \A z \in Listeners : HasRow(z) /\ ~(CertGone(f, z) /\ template[z] = None) => HasRow(z)',
         \A z \in Listeners : tls[z] # None /\ CertGone(g, z) => CertGone(f, z),
         \A c \in Certs : Replacing(f, c) => c \in left' \/ Replacing(g, c),
         \A c \in Certs : Placing(f, c) => c \in left' \/ (Placing(g, c) /\ g.on = f.on),
         None \notin Certs, Certain
  PROVE  Certain'
<1>1. certs \subseteq Certs /\ \A x \in Listeners : template[x] \in Certs \cup {None}
  BY DEF Inv, TypeOK
<1>2. ASSUME NEW c \in certs' \ left' PROVE Kept(c)'
  <2>1. c \in Certs /\ c # None /\ c \notin left' /\ Kept(c)
    BY <1>1, <1>2 DEF Certain
  <2>2. ASSUME NEW z \in Listeners, HasRow(z), Keeps(z, c) PROVE HasRow(z)' /\ Keeps(z, c)'
    <3>1. ~(CertGone(f, z) /\ template[z] = None)
      BY <2>1, <2>2 DEF Keeps
    <3>2. HasRow(z)'
      BY <2>2, <3>1
    <3>3. tls[z] = c /\ CertGone(g, z) => CertGone(f, z)
      BY <2>1
    <3>4. template'[z] = template[z] /\ tls'[z] = tls[z]
      OBVIOUS
    <3>5. QED BY <2>2, <3>2, <3>3, <3>4, KeepsFrame
  <2>3. Replacing(f, c) => Replacing(g, c)
    BY <2>1
  <2>4. QED BY <2>1, <2>2, <2>3, KeptFrame
<1>3. ASSUME NEW x \in Listeners PROVE Odd(x)'
  <2>1. CASE template[x] = None
    BY <2>1 DEF Odd
  <2>2. CASE template[x] # None
    <3>1. template[x] \in Certs /\ Odd(x)
      BY <1>1, <2>2 DEF Certain
    <3>2. f.on = x /\ Placing(f, template[x]) => template[x] \in left' \/ (g.on = x /\ Placing(g, template[x]))
      BY <3>1
    <3>3. template'[x] = template[x] /\ tls'[x] = tls[x]
      OBVIOUS
    <3>4. QED BY <3>1, <3>2, <3>3, OddFrame
  <2>3. QED BY <2>1, <2>2
<1>4. QED BY <1>2, <1>3 DEF Certain

LEMMA CertRequest ==
  ASSUME ShapeAssumption, Inv, NEW s \in Slots, Request(s), Certain
  PROVE  Certain'
<1>1. PICK g \in Flows : Admits(s, g)
  BY Requests
<1>2. PICK new : /\ Admission(s, g, new) /\ g.on \in Objects /\ Shape(g) /\ g.step = "queued"
  BY <1>1, AdmitsIs
<1>3. /\ flow[s] = Idle /\ flow'[s] = g /\ Only(s) /\ template' = template /\ tls' = tls /\ certs' = certs /\ left' = left
      /\ \A o \in Objects : HasRow(o) => HasRow(o)'
  <2>1. flow'[s] = g /\ Only(s)
    BY <1>2, AdmissionInv
  <2>2. flow[s] = Idle /\ template' = template /\ tls' = tls /\ certs' = certs /\ left' = left
    BY <1>2 DEF Admission, device, files
  <2>3. \A o \in Objects : status'[o] \in {"PENDING", status[o]}
    BY <1>2 DEF Admission
  <2>4. QED BY <2>1, <2>2, <2>3 DEF HasRow
<1>4. \A c : ~Replacing(Idle, c) /\ ~Placing(Idle, c)
  BY DEF Replacing, Placing, Idle
<1>5. \A z \in Listeners : tls[z] # None => ~CertGone(g, z)
  <2>1. SUFFICES ASSUME NEW z \in Listeners, tls[z] # None, g.op = "delete", g.cur = z, g.at \in {"no_vport", "row"} PROVE FALSE
    BY DEF CertGone
  <2>2. TlsOf[z] # None
    BY <2>1 DEF Inv, TlsInv
  <2>3. CASE ForPart(s, g)
    BY <2>1, <2>2, <2>3 DEF ForPart, Begins
  <2>4. CASE ForLbDelete(s, g)
    BY <2>1, <2>2, <2>4 DEF ForLbDelete
  <2>5. QED BY <1>1, <2>1, <2>3, <2>4 DEF Admits, ForLbCreate, ForLbUpdate
<1>6. None \notin Certs /\ \A z \in Listeners : z \in Objects
  BY DEF ShapeAssumption, Objects
<1>7. QED BY <1>3, <1>4, <1>5, <1>6, CertQuiet

LEMMA CertBegin ==
  ASSUME ShapeAssumption, Inv, NEW s \in Slots, Begin(s) \/ Finish(s), Certain
  PROVE  Certain'
<1>1. template' = template /\ tls' = tls /\ certs' = certs /\ left' = left /\ status' = status
  BY DEF Begin, Finish, device, files, hist
<1>2. None \notin Certs /\ \A z \in Listeners : HasRow(z) => HasRow(z)'
  BY <1>1 DEF ShapeAssumption, HasRow
<1>3. CASE Begin(s)
  <2>1. PICK f \in Flows, g \in Flows : f = flow[s] /\ g = flow'[s] /\ Alike(f, g) /\ Only(s) /\ f.step = "queued" /\ g.step = "run"
    BY <1>3, BeginStep DEF Alike
  <2>2. /\ \A z : CertGone(g, z) => CertGone(f, z)
        /\ \A c : Replacing(f, c) => Replacing(g, c)
        /\ \A c : Placing(f, c) => Placing(g, c) /\ g.on = f.on
    BY <2>1 DEF Alike, CertGone, Replacing, Placing
  <2>3. QED BY <1>1, <1>2, <2>1, <2>2, CertQuiet
<1>4. CASE Finish(s)
  <2>1. PICK f \in Flows : f = flow[s] /\ flow'[s] = Idle /\ Only(s) /\ Ending(f)
    BY <1>4, FinishStep
  <2>2. /\ \A z : ~CertGone(Idle, z)
        /\ \A c : ~Replacing(f, c)
        /\ \A c : ~Placing(f, c)
    BY <2>1 DEF Idle, Ending, CertGone, Replacing, Placing
  <2>3. QED BY <1>1, <1>2, <2>1, <2>2, CertQuiet
<1>5. QED BY <1>3, <1>4

LEMMA CertFail ==
  ASSUME ShapeAssumption, Inv, NEW s \in Slots, Fail(s), Certain
  PROVE  Certain'
<1>1. PICK f \in Flows, g \in Flows : f = flow[s] /\ g = flow'[s] /\ Shape(f) /\ Only(s) /\ g.step = "revert"
  BY FailStep DEF Alike
<1>2. template' = template /\ tls' = tls /\ certs' = certs /\ left' = left \cup (IF f.op = "update" /\ f.cert # None THEN {f.cert} ELSE {})
  BY <1>1 DEF Fail, device, files
<1>3. PICK l \in LBs : l = Lb(f.on)
  BY <1>1, ShapeIs
<1>4. PICK C : Struck(l, f, C)
  BY <1>1, <1>3, FailIs
<1>5. None \notin Certs /\ \A z \in Listeners : HasRow(z) => HasRow(z)'
  BY <1>4 DEF Struck, HasRow, ShapeAssumption, Objects
<1>6. /\ \A z : ~CertGone(g, z)
      /\ \A c \in Certs : Replacing(f, c) => c \in left'
      /\ \A c \in Certs : Placing(f, c) => c \in left'
  BY <1>1, <1>2, <1>5 DEF CertGone, Replacing, Placing
<1>7. QED BY <1>1, <1>2, <1>5, <1>6, CertQuiet

-----------------------------------------------------------------------------
(* No other flow is at work on the listener z.                             *)
Sole(s, z) == \A t \in Slots \ {s} : ~CertGone(flow[t], z) /\ \A c : ~(flow[t].on = z /\ Replacing(flow[t], c))

LEMMA SoleIs ==
  ASSUME ShapeAssumption, Inv, NEW s \in Slots, NEW l \in LBs, \A t \in On(l) \ {s} : Ending(flow[t]),
         NEW z \in Listeners, LbOf[z] = l
  PROVE  Sole(s, z)
<1>1. SUFFICES ASSUME NEW t \in Slots \ {s}, NEW c, CertGone(flow[t], z) \/ (flow[t].on = z /\ Replacing(flow[t], c)) PROVE FALSE
  BY DEF Sole
<1>2. PICK e \in Flows : e = flow[t] /\ (e = Idle \/ Shape(e))
  BY DEF Inv, FlowInv
<1>3. e.step \in {"queued", "run"} /\ e.at # "end" /\ (e.cur = z \/ e.on = z)
  BY <1>1, <1>2 DEF CertGone, Replacing
<1>4. Shape(e)
  BY <1>2, <1>3 DEF Idle
<1>5. Lb(e.on) = l
  BY <1>3, <1>4, ShapeIs, ListenerTree
<1>6. t \in On(l)
  BY <1>2, <1>3, <1>5 DEF On
<1>7. QED BY <1>2, <1>3, <1>6 DEF Ending

(* A task of the flow f at work, where the certificates are as they should *)
(* be.                                                                     *)
Certified(s, l, f, g) == Works(s, l, f, g) /\ Only(s) /\ Certain /\ (f.cur \in Listeners => Sole(s, f.cur))

LEMMA CertifiedIs ==
  ASSUME ShapeAssumption, NEW s \in Slots, NEW l \in LBs, NEW f \in Flows, NEW g \in Flows, Certified(s, l, f, g)
  PROVE  /\ Works(s, l, f, g) /\ Only(s) /\ f = flow[s] /\ g = flow'[s] /\ Inv /\ None \notin Certs /\ certs \subseteq Certs
         /\ \A c \in certs \ left : Kept(c) /\ c # None
         /\ \A x \in Listeners : Odd(x)
         /\ f.step = "run" /\ g.step = "run" /\ g.op = f.op /\ g.on = f.on /\ g.cert = f.cert /\ f.at # "end" /\ Shape(f)
         /\ \A x \in Listeners : template[x] \in Certs \cup {None} /\ (tls[x] = None <=> TlsOf[x] = None)
         /\ Succ(f) \notin {"below", "end"} => g.cur = f.cur /\ g.at = Succ(f)
         /\ f.cur \in Listeners => LbOf[f.cur] = l /\ Sole(s, f.cur)
<1>1. Works(s, l, f, g) /\ Only(s) /\ f = flow[s] /\ g = flow'[s] /\ Inv /\ Doing(l, f, g)
  BY WorksIs DEF Certified
<1>2. /\ f.step = "run" /\ g.step = "run" /\ g.op = f.op /\ g.on = f.on /\ g.cert = f.cert /\ f.at # "end" /\ Shape(f)
      /\ Moves(f, g) /\ Lb(f.on) = l
  BY <1>1, DoingIs
<1>3. None \notin Certs /\ certs \subseteq Certs /\ \A x \in Listeners : template[x] \in Certs \cup {None} /\ (tls[x] = None <=> TlsOf[x] = None)
  BY <1>1 DEF ShapeAssumption, Inv, TypeOK, TlsInv
<1>4. Succ(f) \notin {"below", "end"} => g.cur = f.cur /\ g.at = Succ(f)
  BY <1>2 DEF Moves, Stays
<1>5. f.cur \in Listeners => LbOf[f.cur] = l
  BY <1>2, ShapeIs, ListenerTree
<1>6. QED BY <1>1, <1>2, <1>3, <1>4, <1>5 DEF Certified, Certain

(* The deletion of a listener gets past its certificate by deleting it.    *)
LEMMA GoneMove ==
  ASSUME ShapeAssumption, NEW l \in LBs, NEW f \in Flows, NEW g \in Flows, Doing(l, f, g),
         NEW z \in Listeners, TlsOf[z] # None, f.at # "no_cert", CertGone(g, z)
  PROVE  CertGone(f, z)
<1>1. /\ Shape(f) /\ f.step = "run" /\ f.op = "delete" /\ g.cur = z /\ g.at \in {"no_vport", "row"} /\ f.at # "end"
      /\ Moves(f, g) /\ (f.on \notin LBs => g.cur = f.on /\ f.cur = f.on /\ g.at = Succ(f))
  BY DoingIs DEF CertGone
<1>2. CASE f.on \notin LBs
  <2>1. f.cur = z /\ f.on = f.cur /\ Succ(f) \in {"no_vport", "row"}
    BY <1>1, <1>2
  <2>2. f.at \in {"no_template", "no_cert", "no_vport", "row", "active"}
    BY <1>1, <2>1, AtListener
  <2>3. f.at = "no_vport"
    BY <1>1, <2>1, <2>2, SuccListener
  <2>4. QED BY <1>1, <2>1, <2>3 DEF CertGone
<1>3. CASE f.on \in LBs
  <2>1. CASE Stays(f, g)
    <3>1. f.cur = z /\ Succ(f) \in {"no_vport", "row"} /\ f.on # f.cur
      BY <1>1, <1>3, <2>1, ListenerTree DEF Stays
    <3>2. f.at \in {"no_template", "no_cert", "row"}
      BY <1>1, <3>1, AtListener
    <3>3. QED BY <1>1, <3>1, <3>2, SuccListener
  <2>2. ASSUME NEW o, Goes(f, g, o) PROVE FALSE
    <3>1. g.at = First(f, z) /\ z \in Parts
      BY <1>1, <2>2, ListenerTree DEF Goes
    <3>2. First(f, z) = "no_template"
      BY <1>1, <1>3, <3>1, FirstIs
    <3>3. QED BY <1>1, <3>1, <3>2
  <2>3. ASSUME Climbs(f, g, f.on) PROVE FALSE
    BY <1>1, <1>3, <2>3, LbTree DEF Climbs
  <2>4. ASSUME Climbs(f, g, f.cur), Succ(f) = "below" PROVE FALSE
    <3>1. f.cur = z /\ f.on # f.cur
      BY <1>1, <1>3, <2>4, ListenerTree DEF Climbs
    <3>2. f.at \in {"no_template", "no_cert", "row"}
      BY <1>1, <3>1, AtListener
    <3>3. QED BY <1>1, <2>4, <3>1, <3>2, SuccListener
  <2>5. Next1(f) = f.on
    BY <1>1 DEF Next1
  <2>6. QED BY <1>1, <2>1, <2>2, <2>3, <2>4, <2>5 DEF Moves
<1>4. QED BY <1>2, <1>3

LEMMA CertQuietTask ==
  ASSUME ShapeAssumption, NEW s \in Slots, NEW l \in LBs, NEW f \in Flows, NEW g \in Flows, Certified(s, l, f, g),
         f.at \notin {"cert", "new_template", "no_cert", "tls_row"},
         template' = template, tls' = tls, certs' = certs, left' = left,
         \A z \in Listeners : HasRow(z) /\ ~(CertGone(f, z) /\ template[z] = None) => HasRow(z)'
  PROVE  Certain'
<1>1. \A z \in Listeners : tls[z] # None /\ CertGone(g, z) => CertGone(f, z)
  BY CertifiedIs, WorksIs, GoneMove
<1>2. ASSUME NEW c, Replacing(f, c) PROVE Placing(g, c) /\ g.on = f.on
  <2>1. f.at = "replace" /\ f.on \in Listeners /\ f.op = "update"
    BY <1>2 DEF Replacing
  <2>2. f.cur = f.on
    BY <2>1, CertifiedIs, ShapeIs, ListenerTree
  <2>3. Succ(f) = "tls_row"
    BY <2>1, <2>2, CertifiedIs, SuccListener
  <2>4. g.at = "tls_row" /\ g.op = "update" /\ g.on = f.on /\ g.cert = f.cert /\ g.step = "run"
    BY <2>1, <2>3, CertifiedIs
  <2>5. QED BY <1>2, <2>4 DEF Placing, Replacing
<1>3. \A c : (Replacing(f, c) => Replacing(g, c)) /\ (Placing(f, c) => Placing(g, c) /\ g.on = f.on)
  BY <1>2 DEF Placing
<1>4. Certain /\ None \notin Certs /\ Inv /\ Only(s) /\ f = flow[s] /\ g = flow'[s]
  BY CertifiedIs DEF Certified
<1>5. QED BY <1>1, <1>3, <1>4, CertQuiet

(* Where the creation of a listener is before its template.                *)
LEMMA CreateAt ==
  ASSUME ShapeAssumption, NEW l \in LBs, NEW f \in Flows, NEW g \in Flows, Doing(l, f, g),
         NEW x \in Listeners, x = f.cur, f.op = "create", f.at \in {"cert", "template"}
  PROVE  template[x] = None /\ HasRow(x) /\ (IF f.on = x THEN f.cert ELSE tls[x]) = tls[x]
<1>1. Shape(f) /\ FlowOK(f) /\ Lb(f.on) = l /\ x \in Under(l) /\ x \in ListenersOf(l)
  BY DoingIs, ShapeIs, ListenerTree, UnderTree DEF ListenersOf
<1>2. CASE f.on = x
  <2>1. f.on \notin LBs
    BY <1>2, ListenerTree
  <2>2. PartGood(f) /\ ListenerGood(f, x)
    BY <1>1, <1>2, <2>1 DEF FlowOK
  <2>3. QED BY <1>2, <2>2 DEF PartGood, OwnStatus, ListenerGood, HasRow
<1>3. CASE f.on # x
  <2>1. f.on \in LBs /\ f.on = l /\ f.full
    BY <1>1, <1>3, AtListener, WholeIs, LbTree
  <2>2. CreateGood(f, l)
    BY <1>1, <2>1 DEF FlowOK
  <2>3. status[x] = "PENDING"
    BY <1>1, <2>1, <2>2 DEF CreateGood, Chain
  <2>4. template[x] = None
    BY <1>1, <2>1, <2>2 DEF CreateGood, Passed
  <2>5. QED BY <1>3, <2>3, <2>4 DEF HasRow
<1>4. QED BY <1>2, <1>3

-----------------------------------------------------------------------------
(* The tasks that change the files, the templates or the certificate of a  *)
(* row.                                                                    *)
LEMMA CertPut ==
  ASSUME ShapeAssumption, NEW s \in Slots, NEW l \in LBs, NEW f \in Flows, NEW g \in Flows, Certified(s, l, f, g), PutCert(s)
  PROVE  Certain'
<1> DEFINE x == f.cur
           c0 == IF f.on = x THEN f.cert ELSE tls[x]
<1>1. /\ f.at = "cert" /\ x \in Listeners /\ status' = status /\ template' = template /\ tls' = tls /\ left' = left
      /\ certs' = certs \cup {c0}
  <2>1. f.at = "cert" /\ x \in Listeners
    BY CertifiedIs, Places DEF PutCert, At
  <2>2. Target(s) = x /\ CertFor(s, x) = c0
    BY CertifiedIs, WorksIs
  <2>3. QED BY <2>1, <2>2 DEF PutCert, hist
<1>2. f.op \in {"create", "update"} /\ (f.op = "update" => f.on = x) /\ Succ(f) \in {"template", "new_template"}
      /\ (f.op = "update" => Succ(f) = "new_template")
  BY <1>1, CertifiedIs, AtListener, ShapeIs, SuccListener DEF Ops
<1>3. g.at = Succ(f) /\ (\A z : ~CertGone(g, z)) /\ \A c : ~Placing(f, c)
  BY <1>1, <1>2, CertifiedIs DEF CertGone, Placing
<1>4. \A z : HasRow(z)' <=> HasRow(z)
  BY <1>1 DEF HasRow
<1>5. ASSUME NEW c \in certs \ left PROVE Kept(c)'
  <2>1. Replacing(f, c) => Replacing(g, c)
    BY <1>2, <1>3, CertifiedIs DEF Replacing
  <2>2. \A z \in Listeners : Keeps(z, c) => Keeps(z, c)'
    BY <1>1, <1>3, CertifiedIs, KeepsFrame
  <2>3. QED BY <1>4, <2>1, <2>2, CertifiedIs, KeptFrame
<1>6. Kept(c0)'
  <2>1. CASE f.op = "update"
    <3>1. PICK c : c = c0
      OBVIOUS
    <3>2. Replacing(g, c)
      BY <1>1, <1>2, <1>3, <2>1, <3>1, CertifiedIs DEF Replacing
    <3>3. g = flow'[s]
      BY CertifiedIs
    <3>4. Kept(c)'
      BY <3>2, <3>3 DEF Kept, Replacing
    <3>5. tls' = tls
      BY <1>1
    <3>6. QED BY <3>1, <3>4, <3>5 DEF Kept, Keeps
  <2>2. CASE f.op = "create"
    <3>1. template[x] = None /\ HasRow(x) /\ c0 = tls[x]
      BY <1>1, <2>2, CreateAt, CertifiedIs, WorksIs
    <3>2. \A t \in Slots : ~CertGone(flow'[t], x)
      BY <1>1, <1>3, CertifiedIs DEF Sole, Only
    <3>3. Keeps(x, c0)'
      BY <1>1, <3>1, <3>2 DEF Keeps, CertGone
    <3>4. QED BY <1>1, <1>4, <3>1, <3>3 DEF Kept
  <2>3. QED BY <1>2, <2>1, <2>2
<1>7. ASSUME NEW y \in Listeners PROVE Odd(y)'
  BY <1>1, <1>3, CertifiedIs, OddFrame
<1>8. QED BY <1>1, <1>5, <1>6, <1>7 DEF Certain

LEMMA CertTemplate ==
  ASSUME ShapeAssumption, NEW s \in Slots, NEW l \in LBs, NEW f \in Flows, NEW g \in Flows, Certified(s, l, f, g),
         PutTemplate(s)
  PROVE  Certain'
<1> DEFINE x == f.cur
<1>1. f.at = "template" /\ x \in Listeners /\ status' = status /\ tls' = tls /\ left' = left /\ certs' = certs
  BY CertifiedIs, Places DEF PutTemplate, At, hist
<1>2. f.op = "create"
  BY <1>1, CertifiedIs, AtListener, ShapeIs DEF Ops
<1>3. template[x] = None /\ HasRow(x) /\ (IF f.on = x THEN f.cert ELSE tls[x]) = tls[x]
  BY <1>1, <1>2, CreateAt, CertifiedIs, WorksIs
<1>4. template'[x] = tls[x] /\ \A z \in Listeners \ {x} : template'[z] = template[z]
  <2>1. Target(s) = x /\ CertFor(s, x) = tls[x] /\ Typed
    BY <1>3, CertifiedIs, WorksIs
  <2>2. template' = [template EXCEPT ![x] = tls[x]]
    BY <2>1 DEF PutTemplate
  <2>3. QED BY <1>1, <2>1, <2>2 DEF Typed
<1>5. (\A z : ~CertGone(g, z)) /\ (\A c : ~Placing(f, c) /\ ~Replacing(f, c)) /\ \A z : HasRow(z)' <=> HasRow(z)
  BY <1>1, <1>2, CertifiedIs DEF CertGone, Placing, Replacing, HasRow
<1>6. ASSUME NEW c \in certs \ left PROVE Kept(c)'
  <2>1. Kept(c) /\ c # None
    BY CertifiedIs
  <2>2. ASSUME NEW z \in Listeners, Keeps(z, c) PROVE Keeps(z, c)'
    <3>1. CASE z = x
      BY <1>1, <1>3, <1>4, <2>1, <2>2, <3>1 DEF Keeps
    <3>2. CASE z # x
      BY <1>1, <1>4, <1>5, <2>2, <3>2, CertifiedIs, KeepsFrame
    <3>3. QED BY <3>1, <3>2
  <2>3. QED BY <1>5, <2>1, <2>2, CertifiedIs, KeptFrame
<1>7. ASSUME NEW y \in Listeners PROVE Odd(y)'
  <2>1. CASE y = x
    BY <1>1, <1>4, <2>1 DEF Odd
  <2>2. CASE y # x
    BY <1>1, <1>4, <1>5, <2>2, CertifiedIs, OddFrame
  <2>3. QED BY <2>1, <2>2
<1>8. QED BY <1>1, <1>6, <1>7 DEF Certain

LEMMA CertNewTemplate ==
  ASSUME ShapeAssumption, NEW s \in Slots, NEW l \in LBs, NEW f \in Flows, NEW g \in Flows, Certified(s, l, f, g),
         UpdateTemplate(s)
  PROVE  Certain'
<1> DEFINE x == f.cur
<1>1. f.at = "new_template" /\ x \in Listeners /\ status' = status /\ tls' = tls
  BY CertifiedIs, Places DEF UpdateTemplate, At
<1>2. f.op = "update" /\ f.on = x /\ Succ(f) = "replace"
  BY <1>1, CertifiedIs, AtListener, ShapeIs, SuccListener DEF Ops
<1>3. g.at = "replace" /\ (\A z : ~CertGone(g, z)) /\ \A c : ~Placing(f, c)
  BY <1>1, <1>2, CertifiedIs DEF CertGone, Placing
<1>4. /\ \A z : HasRow(z)' <=> HasRow(z)
      /\ \A c : Replacing(f, c) => Replacing(g, c)
      /\ Placing(g, f.cert) /\ g.on = x
  BY <1>1, <1>2, <1>3, CertifiedIs DEF HasRow, Replacing, Placing
<1>5. Target(s) = x /\ CertFor(s, x) = f.cert /\ Typed
  BY <1>2, CertifiedIs, WorksIs
<1>6. CASE template[x] = None
  <2>1. template' = template /\ certs' = certs /\ left' = left
    BY <1>5, <1>6 DEF UpdateTemplate
  <2>2. Certain /\ Inv /\ Only(s) /\ f = flow[s] /\ g = flow'[s] /\ None \notin Certs
    BY CertifiedIs DEF Certified
  <2>3. QED BY <1>1, <1>3, <1>4, <2>1, <2>2, CertQuiet
<1>7. CASE template[x] # None
  <2>1. PICK old : old = template[x]
    OBVIOUS
  <2>2. /\ template' = [template EXCEPT ![x] = f.cert]
        /\ \/ old # f.cert /\ certs' = certs \ {old} /\ left' = left
           \/ old # f.cert /\ certs' = certs /\ left' = left \cup {old}
           \/ old = f.cert /\ certs' = certs /\ left' = left
    BY <1>5, <1>7, <2>1 DEF UpdateTemplate
  <2>3. template'[x] = f.cert /\ (\A z \in Listeners \ {x} : template'[z] = template[z]) /\ certs' \subseteq certs /\ left \subseteq left'
        /\ \A c \in certs' \ left' : c = old => c = f.cert
    BY <1>1, <1>5, <2>2 DEF Typed
  <2>4. ASSUME NEW c \in certs' \ left' PROVE Kept(c)'
    <3>1. Kept(c) /\ c # None
      BY <2>3, CertifiedIs
    <3>2. ASSUME NEW z \in Listeners, Keeps(z, c) PROVE Keeps(z, c)'
      <4>1. CASE z = x
        BY <1>7, <2>1, <2>3, <3>1, <3>2, <4>1 DEF Keeps
      <4>2. CASE z # x
        BY <1>1, <1>3, <2>3, <3>2, <4>2, CertifiedIs, KeepsFrame
      <4>3. QED BY <4>1, <4>2
    <3>3. QED BY <1>4, <3>1, <3>2, CertifiedIs, KeptFrame
  <2>5. ASSUME NEW y \in Listeners PROVE Odd(y)'
    <3>1. CASE y = x
      <4>1. Placing(flow'[s], template'[x]) /\ flow'[s].on = x
        BY <1>4, <2>3, CertifiedIs
      <4>2. QED BY <3>1, <4>1 DEF Odd, Placing, Replacing
    <3>2. CASE y # x
      BY <1>1, <1>3, <2>3, <3>2, CertifiedIs, OddFrame
    <3>3. QED BY <3>1, <3>2
  <2>6. QED BY <2>4, <2>5 DEF Certain
<1>8. QED BY <1>6, <1>7

LEMMA CertNoTemplate ==
  ASSUME ShapeAssumption, NEW s \in Slots, NEW l \in LBs, NEW f \in Flows, NEW g \in Flows, Certified(s, l, f, g),
         DeleteTemplate(s)
  PROVE  Certain'
<1> DEFINE x == f.cur
<1>1. f.at = "no_template" /\ x \in Listeners /\ status' = status /\ tls' = tls /\ left' = left /\ certs' = certs
  BY CertifiedIs, Places DEF DeleteTemplate, At, hist
<1>2. f.op = "delete" /\ Succ(f) = "no_cert"
  BY <1>1, CertifiedIs, AtListener, ShapeIs, SuccListener DEF Ops
<1>3. (\A z : ~CertGone(g, z)) /\ (\A c : ~Placing(f, c) /\ ~Replacing(f, c)) /\ \A z : HasRow(z)' <=> HasRow(z)
  BY <1>1, <1>2, CertifiedIs DEF CertGone, Placing, Replacing, HasRow
<1>4. template'[x] = None /\ \A z \in Listeners \ {x} : template'[z] = template[z]
  <2>1. Target(s) = x /\ Typed
    BY CertifiedIs, WorksIs
  <2>2. template' = [template EXCEPT ![x] = None]
    BY <2>1 DEF DeleteTemplate
  <2>3. QED BY <1>1, <2>1, <2>2 DEF Typed
<1>5. ASSUME NEW c \in certs \ left PROVE Kept(c)'
  <2>1. Kept(c) /\ c # None /\ c \notin left
    BY CertifiedIs
  <2>2. ASSUME NEW z \in Listeners, Keeps(z, c) PROVE Keeps(z, c)'
    <3>1. CASE z = x
      <4>1. tls[x] = c
        <5>1. ASSUME template[x] = c, c # tls[x] PROVE FALSE
          <6>1. PICK t \in Slots : flow[t].on = x /\ Placing(flow[t], c)
            BY <1>1, <2>1, <5>1, CertifiedIs DEF Odd
          <6>2. Replacing(flow[t], c)
            BY <6>1 DEF Placing
          <6>3. t = s
            <7>1. Sole(s, x)
              BY <1>1, CertifiedIs
            <7>2. t # s => ~(flow[t].on = x /\ Replacing(flow[t], c))
              BY <7>1 DEF Sole
            <7>3. QED BY <6>1, <6>2, <7>2
          <6>4. flow[t] = f
            BY <6>3, CertifiedIs
          <6>5. QED BY <1>3, <6>2, <6>4
        <5>2. QED BY <2>2, <3>1, <5>1 DEF Keeps
      <4>2. \A t \in Slots : ~CertGone(flow'[t], x)
        BY <1>1, <1>3, CertifiedIs DEF Sole, Only
      <4>3. QED BY <1>1, <1>4, <3>1, <4>1, <4>2 DEF Keeps, CertGone
    <3>2. CASE z # x
      BY <1>1, <1>3, <1>4, <2>2, <3>2, CertifiedIs, KeepsFrame
    <3>3. QED BY <3>1, <3>2
  <2>3. QED BY <1>3, <2>1, <2>2, CertifiedIs, KeptFrame
<1>6. ASSUME NEW y \in Listeners PROVE Odd(y)'
  <2>1. CASE y = x
    BY <1>4, <2>1 DEF Odd
  <2>2. CASE y # x
    BY <1>1, <1>3, <1>4, <2>2, CertifiedIs, OddFrame
  <2>3. QED BY <2>1, <2>2
<1>7. QED BY <1>1, <1>5, <1>6 DEF Certain

(* A file that a template names is let be, and the template has a row.     *)
LEMMA CertDeleteTask ==
  ASSUME ShapeAssumption, NEW s \in Slots, NEW l \in LBs, NEW f \in Flows, NEW g \in Flows, Certified(s, l, f, g),
         DeleteCert(s), \A y \in Listeners : template[y] # None => HasRow(y)
  PROVE  Certain'
<1> DEFINE x == f.cur
<1>1. f.at = "no_cert" /\ x \in Listeners /\ status' = status /\ tls' = tls /\ left' = left /\ template' = template
      /\ certs' = IF Uses(template, tls[x]) THEN certs ELSE certs \ {tls[x]}
  <2>1. Target(s) = x
    BY CertifiedIs, WorksIs
  <2>2. QED BY <2>1, CertifiedIs, Places DEF DeleteCert, At, hist
<1>2. f.op = "delete" /\ Succ(f) \in {"no_vport", "row"}
  BY <1>1, CertifiedIs, AtListener, ShapeIs, SuccListener DEF Ops
<1>3. /\ g.cur = x /\ (\A c : ~Placing(f, c) /\ ~Replacing(f, c)) /\ (\A z : HasRow(z)' <=> HasRow(z))
      /\ \A z : CertGone(g, z) => z = x
  BY <1>1, <1>2, CertifiedIs DEF CertGone, Placing, Replacing, HasRow
<1>4. ASSUME NEW c \in certs' \ left' PROVE Kept(c)'
  <2>1. Kept(c) /\ c # None
    BY <1>1, <1>4, CertifiedIs
  <2>2. CASE tls[x] = c
    <3>1. PICK y \in Listeners : template[y] = c
      BY <1>1, <1>4, <2>2 DEF Uses
    <3>2. HasRow(y)' /\ Keeps(y, c)'
      BY <1>1, <1>3, <2>1, <3>1 DEF Keeps
    <3>3. QED BY <3>2 DEF Kept
  <2>3. CASE tls[x] # c
    <3>1. \A z \in Listeners : Keeps(z, c) => Keeps(z, c)'
      BY <1>1, <1>3, <2>3, CertifiedIs, KeepsFrame
    <3>2. QED BY <1>3, <2>1, <3>1, CertifiedIs, KeptFrame
  <2>4. QED BY <2>2, <2>3
<1>5. ASSUME NEW y \in Listeners PROVE Odd(y)'
  BY <1>1, <1>3, CertifiedIs, OddFrame
<1>6. QED BY <1>4, <1>5 DEF Certain

(* The row gets the certificate that the template has.                     *)
LEMMA CertTlsRow ==
  ASSUME ShapeAssumption, NEW s \in Slots, NEW l \in LBs, NEW f \in Flows, NEW g \in Flows, Certified(s, l, f, g),
         UpdateTls(s)
  PROVE  Certain'
<1> DEFINE x == f.cur
<1>1. f.at = "tls_row" /\ x \in Listeners /\ status' = status /\ left' = left /\ template' = template /\ certs' = certs
  BY CertifiedIs, Places DEF UpdateTls, At, hist, device, files
<1>2. f.op = "update" /\ f.on = x /\ x \notin LBs
  BY <1>1, CertifiedIs, AtListener, ShapeIs, ListenerTree DEF Ops
<1>3. (\A z : ~CertGone(g, z)) /\ \A z : HasRow(z)' <=> HasRow(z)
  BY <1>1, <1>2, CertifiedIs DEF CertGone, HasRow
<1>4. tls'[x] = f.cert /\ \A z \in Listeners \ {x} : tls'[z] = tls[z]
  <2>1. Target(s) = x /\ Typed
    BY CertifiedIs, WorksIs
  <2>2. tls' = [tls EXCEPT ![x] = flow[s].cert]
    BY <2>1 DEF UpdateTls
  <2>3. flow[s].cert = f.cert
    BY CertifiedIs
  <2>4. QED BY <1>1, <2>1, <2>2, <2>3 DEF Typed
<1>5. HasRow(x) /\ template[x] \in {None, f.cert} /\ (tls[x] # None => template[x] = f.cert)
  <2>1. FlowOK(f)
    BY CertifiedIs, WorksIs, DoingIs
  <2>2. PartGood(f) /\ ListenerGood(f, x)
    BY <1>1, <1>2, <2>1 DEF FlowOK
  <2>3. sslOn \subseteq {y \in vports : template[y] # None}
    BY CertifiedIs, WorksIs DEF Typed
  <2>4. QED BY <1>1, <1>2, <2>2, <2>3 DEF PartGood, OwnStatus, ListenerGood, HasRow
<1>6. ASSUME NEW c \in certs \ left PROVE Kept(c)'
  <2>1. Kept(c) /\ c # None
    BY CertifiedIs
  <2>2. ASSUME NEW z \in Listeners, Keeps(z, c) PROVE Keeps(z, c)'
    <3>1. CASE z = x
      <4>1. tls[x] = c => f.cert # None
        BY <1>1, <1>2, <2>1, CertifiedIs DEF Shape
      <4>2. template[x] = c
        BY <1>5, <2>1, <2>2, <3>1, <4>1 DEF Keeps
      <4>3. template'[x] = c
        BY <1>1, <4>2
      <4>4. QED BY <3>1, <4>3 DEF Keeps
    <3>2. CASE z # x
      BY <1>1, <1>3, <1>4, <2>2, <3>2, CertifiedIs, KeepsFrame
    <3>3. QED BY <3>1, <3>2
  <2>3. Replacing(f, c) => HasRow(x)' /\ Keeps(x, c)'
    <3>1. SUFFICES ASSUME f.cert = c PROVE HasRow(x)' /\ Keeps(x, c)'
      BY DEF Replacing
    <3>2. tls[x] # None
      BY <1>1, <1>2, <2>1, <3>1, CertifiedIs DEF Shape
    <3>3. QED BY <1>1, <1>3, <1>5, <3>1, <3>2 DEF Keeps
  <2>4. QED BY <1>1, <1>3, <2>1, <2>2, <2>3, CertifiedIs, KeptFrame
<1>7. ASSUME NEW y \in Listeners PROVE Odd(y)'
  <2>1. CASE y = x
    BY <1>1, <1>4, <1>5, <2>1 DEF Odd
  <2>2. CASE y # x
    BY <1>1, <1>2, <1>4, <2>2, CertifiedIs, OddFrame
  <2>3. QED BY <2>1, <2>2
<1>8. QED BY <1>1, <1>6, <1>7 DEF Certain

-----------------------------------------------------------------------------
(* The tasks that leave the certificates and the templates alone.          *)
DeviceTask(s) ==
    \/ CreatePort(s) \/ ReplacePort(s) \/ DeletePort(s)
    \/ PutScript(s) \/ PutScriptWithout(s) \/ Bind(s) \/ Unbind(s) \/ DeleteScript(s)
    \/ CreateVs(s) \/ DeleteVs(s) \/ WritePorts(s)
MarkTask(s) == MarkOne(s) \/ MarkEarly(s) \/ MarkActive(s)

LEMMA CertDeviceTask ==
  ASSUME ShapeAssumption, NEW s \in Slots, NEW l \in LBs, NEW f \in Flows, NEW g \in Flows, Certified(s, l, f, g),
         DeviceTask(s)
  PROVE  Certain'
<1>1. template' = template /\ tls' = tls /\ certs' = certs /\ left' = left /\ status' = status
  BY DEF DeviceTask, CreatePort, ReplacePort, DeletePort, PutScript, PutScriptWithout, Import, Bind, Unbind, DeleteScript,
         CreateVs, DeleteVs, WritePorts, files, hist
<1>2. \E do \in Labels \ {"cert", "new_template", "no_cert", "tls_row"} : flow[s].at = do
  BY DEF DeviceTask, CreatePort, ReplacePort, DeletePort, PutScript, PutScriptWithout, Bind, Unbind, DeleteScript,
         CreateVs, DeleteVs, WritePorts, At, Labels
<1>3. f.at \notin {"cert", "new_template", "no_cert", "tls_row"}
  BY <1>2, CertifiedIs
<1>4. \A z \in Listeners : HasRow(z) => HasRow(z)'
  BY <1>1 DEF HasRow
<1>5. QED BY <1>1, <1>3, <1>4, CertQuietTask

LEMMA CertMarkTask ==
  ASSUME ShapeAssumption, NEW s \in Slots, NEW l \in LBs, NEW f \in Flows, NEW g \in Flows, Certified(s, l, f, g),
         MarkTask(s)
  PROVE  Certain'
<1>1. template' = template /\ tls' = tls /\ certs' = certs /\ left' = left
  BY DEF MarkTask, MarkOne, MarkEarly, MarkActive, device, files, hist
<1>2. flow[s].at \in {"mark", "early_active", "active"}
  BY DEF MarkTask, MarkOne, MarkEarly, MarkActive, At
<1>3. f.at \notin {"cert", "new_template", "no_cert", "tls_row"}
  BY <1>2, CertifiedIs
<1>4. PICK S : status' = Activated(S)
  BY DEF MarkTask, MarkOne, MarkEarly, MarkActive
<1>5. Typed
  BY CertifiedIs, InvIs
<1>6. \A o \in Objects : status'[o] \in {status[o], "ACTIVE"}
  BY <1>4, <1>5, ActivatedIs DEF Typed
<1>7. \A z \in Listeners : HasRow(z) => HasRow(z)'
  BY <1>6, ListenerTree DEF HasRow
<1>8. QED BY <1>1, <1>3, <1>7, CertQuietTask

(* The row of a listener goes after its template.                          *)
LEMMA CertRowTask ==
  ASSUME ShapeAssumption, NEW s \in Slots, NEW l \in LBs, NEW f \in Flows, NEW g \in Flows, Certified(s, l, f, g),
         DeleteRow(s)
  PROVE  Certain'
<1>1. template' = template /\ tls' = tls /\ certs' = certs /\ left' = left
  BY DEF DeleteRow, device, files, hist
<1>2. f.at = "row" /\ Target(s) = f.cur /\ f.cur \in Parts /\ Doing(l, f, g) /\ f.step = "run" /\ f.op = "delete"
  <2>1. f.at = "row"
    BY CertifiedIs DEF DeleteRow, At
  <2>2. Target(s) = f.cur /\ Doing(l, f, g) /\ Shape(f) /\ f.step = "run"
    BY CertifiedIs, WorksIs
  <2>3. f.cur \in Parts
    BY <2>1, <2>2, Places
  <2>4. f.op = "delete"
    <3>1. f.op \in Ops
      BY <2>2, ShapeIs
    <3>2. CASE f.cur \in Listeners
      BY <2>1, <2>2, <3>1, <3>2, AtListener DEF Ops
    <3>3. CASE f.cur \in Policies
      BY <2>1, <2>2, <3>1, <3>3, AtPolicy DEF Ops
    <3>4. CASE f.cur \in Rules
      BY <2>1, <2>2, <3>1, <3>4, AtRule DEF Ops
    <3>5. QED BY <2>3, <3>2, <3>3, <3>4 DEF Parts
  <2>5. QED BY <2>1, <2>2, <2>3, <2>4
<1>3. ASSUME NEW z \in Listeners, HasRow(z), ~HasRow(z)' PROVE CertGone(f, z) /\ template[z] = None
  <2>1. z \in Below(f.cur)
    BY <1>2, <1>3, ListenerTree DEF DeleteRow, HasRow
  <2>2. f.cur = z
    BY <1>2, <2>1, ListenerTree, PartTree DEF Below
  <2>3. CertGone(f, z)
    BY <1>2, <2>2 DEF CertGone
  <2>4. Shape(f) /\ FlowOK(f)
    BY <1>2, DoingIs
  <2>5. CASE f.on \in LBs
    <3>1. DeleteGood(f, f.on)
      BY <1>2, <2>4, <2>5 DEF FlowOK
    <3>2. QED BY <1>2, <2>2, <2>3, <3>1 DEF DeleteGood
  <2>6. CASE f.on \notin LBs
    <3>1. f.on = z
      BY <2>2, <2>4, <2>6, ShapeIs
    <3>2. ListenerGood(f, z)
      BY <2>4, <3>1 DEF FlowOK
    <3>3. QED BY <1>2, <2>3, <3>2 DEF ListenerGood
  <2>7. QED BY <2>5, <2>6
<1>4. f.at \notin {"cert", "new_template", "no_cert", "tls_row"}
  BY <1>2
<1>5. QED BY <1>1, <1>3, <1>4, CertQuietTask

LEMMA CertLbRowTask ==
  ASSUME ShapeAssumption, NEW s \in Slots, NEW l \in LBs, NEW f \in Flows, NEW g \in Flows, Certified(s, l, f, g),
         DeleteLbRow(s)
  PROVE  Certain'
<1>1. template' = template /\ tls' = tls /\ certs' = certs /\ left' = left
  BY DEF DeleteLbRow, device, files, hist
<1>2. f.at = "lb_row" /\ Target(s) = f.cur /\ f.cur \in LBs
  BY CertifiedIs, WorksIs, Places DEF DeleteLbRow, At
<1>3. \A z \in Listeners : status'[z] = status[z]
  BY <1>2, CertifiedIs, InvIs, ListenerTree DEF DeleteLbRow, Typed
<1>4. \A z \in Listeners : HasRow(z) => HasRow(z)'
  BY <1>3 DEF HasRow
<1>5. f.at \notin {"cert", "new_template", "no_cert", "tls_row"}
  BY <1>2
<1>6. QED BY <1>1, <1>4, <1>5, CertQuietTask

LEMMA CertTasked ==
  ASSUME ShapeAssumption, Inv, NEW s \in Slots, Tasked(s), \A l \in LBs : LbOK(l), AllSettled, Certain
  PROVE  Certain'
<1>1. PICK f \in Flows, g \in Flows : /\ f = flow[s] /\ g = flow'[s] /\ Shape(f) /\ Shape(g) /\ g.on = f.on
                                      /\ f.step = "run" /\ f.at # "end" /\ g.step = "run" /\ Only(s) /\ Inv'
                                      /\ Moves(f, g)
  BY TaskStep DEF Moves, Same
<1>2. PICK l \in LBs : l = Lb(f.on)
  BY <1>1, ShapeIs
<1>3. ~Ending(f) /\ f.step # "idle"
  BY <1>1 DEF Ending
<1>4. LbGood(f, l) /\ \A t \in On(l) \ {s} : Ending(flow[t])
  BY <1>1, <1>2, <1>3, AtTask DEF AllSettled
<1>5. Works(s, l, f, g)
  BY <1>1, <1>2, <1>4 DEF Doing, Works
<1>6. f.cur \in Listeners => Sole(s, f.cur)
  <2>1. SUFFICES ASSUME f.cur \in Listeners PROVE Sole(s, f.cur)
    OBVIOUS
  <2>2. LbOf[f.cur] = l
    BY <1>1, <1>2, <2>1, ShapeIs, ListenerTree
  <2>3. QED BY <1>4, <2>1, <2>2, SoleIs
<1>7. Certified(s, l, f, g)
  BY <1>1, <1>5, <1>6 DEF Certified
<1>8. \A y \in Listeners : template[y] # None => HasRow(y)
  <2>1. TAKE y \in Listeners
  <2>2. PICK m \in LBs : m = LbOf[y]
    BY ListenerTree
  <2>3. PICK h \in Flows : LbGood(h, m)
    BY <2>2 DEF LbOK, AllSettled
  <2>4. CleanListener(h, y)
    BY <2>2, <2>3 DEF LbGood, ListenersOf
  <2>5. QED BY <2>4 DEF CleanListener, HasRow
<1>9. CASE DeviceTask(s) \/ MarkTask(s) \/ DeleteRow(s) \/ DeleteLbRow(s)
  BY <1>7, <1>9, CertDeviceTask, CertMarkTask, CertRowTask, CertLbRowTask
<1>10. CASE PutCert(s) \/ PutTemplate(s) \/ UpdateTemplate(s)
  BY <1>7, <1>10, CertPut, CertTemplate, CertNewTemplate
<1>11. CASE DeleteTemplate(s) \/ DeleteCert(s) \/ UpdateTls(s)
  BY <1>7, <1>8, <1>11, CertNoTemplate, CertDeleteTask, CertTlsRow
<1>12. QED BY <1>9, <1>10, <1>11 DEF Tasked, DeviceTask, MarkTask

LEMMA CertRead ==
  ASSUME ShapeAssumption, Inv, NEW s \in Slots, ReadPorts(s), Certain
  PROVE  Certain'
<1>1. template' = template /\ tls' = tls /\ certs' = certs /\ left' = left /\ status' = status
  BY DEF ReadPorts, device, files, hist
<1>2. PICK f \in Flows, e \in Flows, g \in Flows :
        /\ f = flow[s] /\ g = flow'[s] /\ Shape(f) /\ Moves(e, g) /\ Only(s) /\ f.at = "read_ports"
        /\ e = [f EXCEPT !.read = vports \cap ListenersOf(Target(s))]
  BY ReadStep
<1>3. f.on \in LBs /\ f.op = "update" /\ f.on \notin Listeners
  BY <1>2, Places, AtLb, ShapeIs, LbTree DEF Ops
<1>4. e.op = f.op
  BY <1>2 DEF Flows
<1>5. g.op = "update"
  BY <1>2, <1>3, <1>4 DEF Moves, Same
<1>6. /\ \A z : ~CertGone(g, z)
      /\ \A c : ~Replacing(f, c) /\ ~Placing(f, c)
  BY <1>3, <1>5 DEF CertGone, Replacing, Placing
<1>7. None \notin Certs /\ \A z \in Listeners : HasRow(z) => HasRow(z)'
  BY <1>1 DEF ShapeAssumption, HasRow
<1>8. QED BY <1>1, <1>2, <1>6, <1>7, CertQuiet

-----------------------------------------------------------------------------
(* A creation that has failed takes back its templates: the rows keep the  *)
(* names of the certificates.                                              *)
LEMMA CertRevert ==
  ASSUME ShapeAssumption, Inv, NEW s \in Slots, Revert(s), AllSettled', Certain
  PROVE  Certain'
<1>1. PICK f \in Flows : f = flow[s] /\ Shape(f) /\ Only(s) /\ flow'[s] = Idle /\ f.step = "revert"
  BY RevertStep
<1>2. PICK l \in LBs : l = Lb(f.on)
  BY <1>1, ShapeIs
<1>3. tls' = tls /\ On(l) = {s}
  BY <1>1, <1>2, RevertWrites DEF AllSettled
<1>4. PICK F : Closed(f, F)
  BY <1>1, <1>2, RevertWrites
<1>5. PICK P \in SUBSET MadeBy(f, "vport"), T \in SUBSET MadeBy(f, "template"),
            S \in SUBSET (MadeBy(f, "script") \cap Policies), L \in SUBSET MadeBy(f, "vs") : Undone(P, T, S, L)
  BY <1>1, RevertIs
<1>6. certs' \subseteq certs /\ left \subseteq left'
  BY DEF Revert
<1>7. Typed /\ None \notin Certs
  BY InvIs DEF ShapeAssumption
<1>8. \A z \in Listeners : HasRow(z) => HasRow(z)'
  <2>1. TAKE z \in Listeners
  <2>2. z \in Objects
    BY ListenerTree
  <2>3. Activated(Chain(f.on))[z] \in {status[z], "ACTIVE"}
    BY <1>7, <2>2, ActivatedIs DEF Typed
  <2>4. QED BY <1>4, <2>2, <2>3 DEF Closed, HasRow
<1>9. ASSUME NEW z \in Listeners, template'[z] # template[z]
      PROVE  template'[z] = None /\ Sole(s, z)
  <2>1. z \in T /\ template'[z] = None
    BY <1>5, <1>9 DEF Undone
  <2>2. LbOf[z] = l
    BY <1>1, <1>2, <2>1, MadeIs, ListenerTree
  <2>3. QED BY <1>3, <2>1, <2>2, SoleIs
<1>10. \A c : /\ ~Replacing(f, c) /\ ~Placing(f, c)
              /\ \A z : ~CertGone(Idle, z)
  BY <1>1 DEF Replacing, Placing, CertGone, Idle
<1>11. ASSUME NEW c \in certs' \ left' PROVE Kept(c)'
  <2>1. Kept(c) /\ c # None /\ c \notin left
    BY <1>6, <1>7, <1>11 DEF Certain, Typed
  <2>2. ASSUME NEW z \in Listeners, Keeps(z, c) PROVE Keeps(z, c)'
    <3>1. CASE template'[z] = template[z]
      BY <1>1, <1>3, <1>10, <2>2, <3>1, KeepsFrame
    <3>2. CASE template'[z] # template[z]
      <4>1. template'[z] = None /\ Sole(s, z)
        BY <1>9, <3>2
      <4>2. template[z] = c
        BY <2>2, <3>2, <4>1 DEF Keeps
      <4>3. tls[z] = c
        <5>1. ASSUME c # tls[z] PROVE FALSE
          <6>1. PICK t \in Slots : flow[t].on = z /\ Placing(flow[t], c)
            BY <2>1, <2>2, <4>2, <5>1 DEF Certain, Odd
          <6>2. Replacing(flow[t], c)
            BY <6>1 DEF Placing
          <6>3. t = s
            BY <4>1, <6>1, <6>2 DEF Sole
          <6>4. QED BY <1>1, <1>10, <6>2, <6>3
        <5>2. QED BY <5>1
      <4>4. \A t \in Slots : ~CertGone(flow'[t], z)
        BY <1>1, <1>10, <4>1 DEF Sole, Only
      <4>5. QED BY <1>3, <4>1, <4>3, <4>4 DEF Keeps, CertGone
    <3>3. QED BY <3>1, <3>2
  <2>3. QED BY <1>1, <1>8, <1>10, <2>1, <2>2, KeptFrame
<1>12. ASSUME NEW y \in Listeners PROVE Odd(y)'
  <2>1. CASE template'[y] = template[y]
    BY <1>1, <1>3, <1>6, <1>10, <2>1, OddFrame DEF Certain
  <2>2. CASE template'[y] # template[y]
    BY <1>9, <2>2 DEF Odd
  <2>3. QED BY <2>1, <2>2
<1>13. QED BY <1>11, <1>12 DEF Certain

LEMMA CertInit ==
  ASSUME ShapeAssumption, Init
  PROVE  CertInv
<1>1. ASSUME NEW c \in certs PROVE Kept(c)
  <2>1. PICK x \in scene.exist \cap Listeners : c = TlsOf[x]
    BY <1>1 DEF Init
  <2>2. x \in Objects /\ HasRow(x) /\ template[x] = c
    BY <2>1, ListenerTree DEF Init, HasRow
  <2>3. QED BY <2>1, <2>2 DEF Kept, Keeps
<1>2. \A x \in Listeners : Odd(x)
  BY DEF Init, Odd
<1>3. QED BY <1>1, <1>2 DEF CertInv, Certain

LEMMA SettledBefore ==
  ASSUME ShapeAssumption, Inv, [Next]_vars, AllSettled'
  PROVE  AllSettled
<1>1. SUFFICES overlapped \subseteq overlapped'
  BY DEF AllSettled, Settled
<1>2. CASE UNCHANGED vars
  BY <1>2 DEF vars, hist
<1>3. ASSUME NEW s \in Slots, Request(s) PROVE overlapped \subseteq overlapped'
  <2>1. PICK g \in Flows : Admits(s, g)
    BY <1>3, Requests
  <2>2. PICK new : Admission(s, g, new)
    BY <2>1, AdmitsIs
  <2>3. QED BY <2>2 DEF Admission
<1>4. ASSUME NEW s \in Slots, Begin(s) \/ Finish(s) \/ ReadPorts(s) PROVE overlapped \subseteq overlapped'
  BY <1>4 DEF Begin, Finish, ReadPorts, hist
<1>5. ASSUME NEW s \in Slots, Fail(s) \/ Revert(s) PROVE overlapped \subseteq overlapped'
  BY <1>5 DEF Fail, Revert
<1>6. ASSUME NEW s \in Slots, Tasked(s) PROVE overlapped \subseteq overlapped'
  BY <1>6 DEF Tasked, PutCert, PutTemplate, UpdateTemplate, DeleteTemplate, DeleteCert, CreatePort, ReplacePort, DeletePort,
     PutScript, PutScriptWithout, Import, Bind, Unbind, DeleteScript, CreateVs, DeleteVs, WritePorts, MarkOne, MarkEarly,
     MarkActive, UpdateTls, DeleteRow, DeleteLbRow, hist
<1>7. QED BY <1>2, <1>3, <1>4, <1>5, <1>6, NextIs

LEMMA CertNext ==
  ASSUME ShapeAssumption, ObjectInv, CertInv, [Next]_vars
  PROVE  CertInv'
<1>1. SUFFICES ASSUME AllSettled' PROVE Certain'
  BY DEF CertInv, AllSettled, Settled
<1>2. Inv /\ AllSettled /\ Certain /\ \A l \in LBs : LbOK(l)
  <2>1. Inv /\ \A l \in LBs : LbOK(l)
    BY DEF ObjectInv
  <2>2. QED BY <1>1, <2>1, SettledBefore DEF CertInv
<1>3. CASE UNCHANGED vars
  <2>1. template' = template /\ tls' = tls /\ certs' = certs /\ left' = left /\ status' = status /\ flow' = flow
    BY <1>3 DEF vars, device, files, hist
  <2>2. QED BY <1>2, <2>1 DEF Certain, Kept, Keeps, Odd, HasRow, CertGone, Replacing, Placing
<1>4. CASE Next
  <2>1. PICK s \in Slots : Request(s) \/ Begin(s) \/ Tasked(s) \/ ReadPorts(s) \/ Finish(s) \/ Fail(s) \/ Revert(s)
    BY <1>4, NextIs
  <2>2. CASE Request(s)
    BY <1>2, <2>2, CertRequest
  <2>3. CASE Begin(s) \/ Finish(s)
    BY <1>2, <2>3, CertBegin
  <2>4. CASE Tasked(s)
    BY <1>2, <2>4, CertTasked
  <2>5. CASE ReadPorts(s)
    BY <1>2, <2>5, CertRead
  <2>6. CASE Fail(s)
    BY <1>2, <2>6, CertFail
  <2>7. CASE Revert(s)
    BY <1>1, <1>2, <2>7, CertRevert
  <2>8. QED BY <2>1, <2>2, <2>3, <2>4, <2>5, <2>6, <2>7
<1>5. QED BY <1>3, <1>4

(* No certificate file is left behind: as long as no two flows of a load   *)
(* balancer overlapped where one failed, a file on the device belongs to   *)
(* the row of a listener, or to an update at work, unless an update or the *)
(* clean-up of a failed creation left it.                                  *)
THEOREM NoOrphanCertificate == Spec => []NoOrphanCert
<1>1. Init => ObjectInv /\ CertInv
  BY ShapeAssumption, ObjectInit, CertInit
<1>2. ObjectInv /\ CertInv /\ [Next]_vars => ObjectInv' /\ CertInv'
  BY ShapeAssumption, ObjectNext, CertNext
<1>3. CertInv => NoOrphanCert
  <2>1. ASSUME NEW c, Kept(c)
        PROVE  (\E x \in Rows(Listeners) : tls[x] = c \/ template[x] = c) \/ \E s \in Slots : flow[s].cert = c
    BY <2>1 DEF Kept, Keeps, Rows, Replacing
  <2>2. QED BY <2>1 DEF CertInv, AllSettled, Certain, NoOrphanCert
<1>4. QED BY <1>1, <1>2, <1>3, PTL DEF Spec
=============================================================================

------------------------- MODULE ListenerInvariants -------------------------
(***************************************************************************)
(* Inductive invariants of ListenerObjects, which ListenerObjectsProofs    *)
(* proves: Inv for the types, ObjectInv for what is on the device by the   *)
(* progress of the flow at work on each load balancer, CertInv for the     *)
(* certificates that listeners of several load balancers share.            *)
(***************************************************************************)
EXTENDS ListenerObjects

Ops == {"create", "update", "delete"}
Parts == Listeners \cup Policies \cup Rules
Labels == {"cert", "template", "new_template", "vport", "replace", "tls_row", "no_template", "no_cert",
           "no_vport", "script", "script_without", "bind", "unbind", "no_script", "row", "active", "mark",
           "early_active", "vs", "no_vs", "lb_row", "read_ports", "write_ports", "end"}
Histories == SUBSET [do : Labels, on : Objects]
Flows == [op : Ops \cup {"none"}, on : Objects \cup {None}, cert : Certs \cup {None}, full : BOOLEAN,
          read : SUBSET Listeners, rest : SUBSET Parts, cur : Objects \cup {None}, at : Labels,
          done : Histories, step : {"idle", "queued", "run", "revert"}]

(* The tasks of each part of a flow.                                       *)
LbStages(op, full) ==
    CASE op = "create" -> IF full THEN {"vs", "active", "end"} ELSE {"early_active", "vs", "end"}
      [] op = "update" -> {"read_ports", "write_ports", "active", "end"}
      [] op = "delete" -> {"no_vs", "lb_row", "end"}
ListenerStages(op, whole) ==
    CASE op = "create" -> IF whole THEN {"cert", "template", "vport", "early_active"}
                          ELSE {"cert", "template", "vport", "active", "end"}
      [] op = "update" -> {"cert", "new_template", "replace", "tls_row", "active", "end"}
      [] op = "delete" -> IF whole THEN {"no_template", "no_cert", "row"}
                          ELSE {"no_template", "no_cert", "no_vport", "row", "active", "end"}
PolicyStages(op, whole) ==
    CASE op = "create" -> IF whole THEN {"script", "bind", "mark"} ELSE {"script", "bind", "active", "end"}
      [] op = "update" -> {"script", "bind", "active", "end"}
      [] op = "delete" -> IF whole THEN {"unbind", "no_script"}
                          ELSE {"unbind", "no_script", "row", "active", "end"}
RuleStages(op, whole) ==
    CASE op = "create" -> IF whole THEN {"script", "bind", "mark"} ELSE {"script", "bind", "active", "end"}
      [] op = "update" -> {"script", "bind", "active", "end"}
      [] op = "delete" -> {"script_without", "bind", "row", "active", "end"}
TlsTasks == {"cert", "template", "new_template", "no_template", "no_cert"}
Placed(f) ==
    /\ f.cur \in LBs => f.at \in LbStages(f.op, f.full)
    /\ f.cur \in Listeners =>
         f.at \in ListenerStages(f.op, f.on \in LBs) /\ (TlsOf[f.cur] = None => f.at \notin TlsTasks)
    /\ f.cur \in Policies => f.at \in PolicyStages(f.op, f.on \in LBs)
    /\ f.cur \in Rules => f.at \in RuleStages(f.op, f.on \in LBs)

(* In the creation of a load balancer with what is below it, the parts to  *)
(* come are those of the objects below the one it is at, and of others     *)
(* with all below them.                                                    *)
Under(o) == Below(o) \ {o}
Nested(f) ==
    /\ \A y \in Parts : Up(y) \in f.rest => y \in f.rest
    /\ \A y \in f.rest : Up(y) \in f.rest \cup Chain(f.cur)
    /\ f.at = "vs" => f.rest = Under(f.on)
    /\ f.at \in {"active", "end"} => f.rest = {}
    /\ f.at \in {"cert", "template", "vport", "script", "bind"} =>
         \A y \in Parts : Up(y) = f.cur => y \in f.rest
    /\ f.at \in {"early_active", "mark"} => \A y \in f.rest : Up(y) # f.cur

Shape(f) ==
    /\ f.step # "idle" /\ f.op \in Ops /\ f.on \in Objects /\ f.cur \in Below(f.on)
    /\ Placed(f)
    /\ f.on \in Listeners => (f.cert = None <=> TlsOf[f.on] = None)
    /\ f.on \notin LBs => f.cur = f.on /\ f.rest = {} /\ \A t \in f.done : t.on = f.on
    /\ f.on \in LBs =>
         /\ f.rest \subseteq Under(f.on) \ {f.cur}
         /\ f.op = "update" => f.cur = f.on /\ f.rest = {}
         /\ f.op = "delete" => f.cur \notin Rules /\ f.rest \cap Rules = {} /\ (f.cur = f.on => f.rest = {})
         /\ f.op = "create" /\ ~f.full => f.cur = f.on /\ f.rest = {}
         /\ f.op = "create" /\ f.full => Nested(f)
         /\ \A t \in f.done : t.on \in Below(f.on)
    /\ f.step = "queued" => f.at # "end"
    /\ Ending(f) /\ f.on \notin LBs => Task("active", f.on) \in f.done
FlowInv ==
    /\ flow \in [Slots -> Flows]
    /\ \A s \in Slots : flow[s] = Idle \/ Shape(flow[s])

-----------------------------------------------------------------------------
(* The types of the state.                                                 *)
TlsInv(x) == (tls[x] = None <=> TlsOf[x] = None) /\ (TlsOf[x] = None => template[x] = None)
Inv == TypeOK /\ FlowInv /\ scene \in Scenes /\ \A x \in Listeners : TlsInv(x)

-----------------------------------------------------------------------------
(* What holds of the objects.                                              *)
Rowed(o) ==
    /\ o \notin LBs /\ status[Up(o)] = "NEW" => status[o] = "NEW"
    /\ o \in Policies \cup Rules /\ status[Up(o)] = "GONE" => status[o] \in {"NEW", "GONE"}
    /\ \A s \in Slots : flow[s].step # "idle" /\ flow[s].on = o => status[o] # "NEW"

Creates(f, l) == f.op = "create" /\ f.on = l
Deletes(f, l) == f.op = "delete" /\ f.on = l

(* The flow f of the load balancer is at work, and no other; or, if it is  *)
(* Idle, none is.                                                          *)
AtWork(f, l) ==
    \/ f = Idle /\ \A t \in On(l) : Ending(flow[t])
    \/ \E s \in On(l) : f = flow[s] /\ ~Ending(f) /\ \A t \in On(l) \ {s} : Ending(flow[t])

(* A load balancer with a row that is not being deleted, nor left in ERROR.*)
Live(f, l) ==
    /\ HasRow(l)
    /\ ~Deletes(f, l)
    /\ status[l] = "ERROR" => f.on \in Under(l)

LbStatus(f, l) ==
    IF f = Idle THEN TRUE
    ELSE IF f.step = "revert" THEN Deletes(f, l) => status[l] # "ACTIVE"
    ELSE status[l] \in IF Creates(f, l) THEN {"PENDING", "ACTIVE"} ELSE {"PENDING"}

Served(x) ==
    x \in vports /\ (tls[x] # None /\ x \notin bare => x \in sslOn /\ template[x] = tls[x])
ListenerOK(f, x) ==
    /\ Live(f, LbOf[x]) /\ x \notin revived
    /\ status[x] = "ACTIVE" \/ (status[x] = "PENDING" /\ f.on \in Under(x))
    => Served(x)
Listed(p) == \A r \in RulesOf(p) : status[r] = "ACTIVE" => r \in inScript
PolicyOK(f, p) ==
    /\ Live(f, LbOf[ListenerOf[p]]) /\ p \notin revived
    /\ ListenerOf[p] \in vports
    /\ status[p] = "ACTIVE" \/ (status[p] \in {"PENDING", "ERROR"} /\ f.on \in RulesOf(p))
    => p \in bound \cup unbound /\ Listed(p)
Calm(f, o) ==
    Live(f, Lb(o)) /\ (f = Idle \/ o \notin Chain(f.on)) /\ ~Creates(f, Lb(o)) => status[o] # "PENDING"

(* The flow of a request for a listener, a policy or a rule.               *)
OwnStatus(f) == IF f.op = "delete" /\ f.at = "active" THEN "GONE" ELSE "PENDING"
PartGood(f) ==
    /\ status[f.on] = OwnStatus(f)
    /\ \A y \in Chain(f.on) \ {f.on} : status[y] = "PENDING"
ListenerGood(f, x) ==
    /\ f.op = "create" => f.cert = tls[x] /\ \A y \in Under(x) : status[y] = "NEW"
    /\ f.op = "create" /\ f.at \in {"cert", "template"} => template[x] = None
    /\ f.op = "create" /\ f.at \in {"vport", "active"} => template[x] = tls[x]
    /\ f.op = "create" /\ f.at = "active" => x \in vports /\ (tls[x] # None => x \in sslOn)
    /\ f.op = "update" /\ f.at \in {"replace", "tls_row", "active"} => template[x] \in {None, f.cert}
    /\ f.op = "update" /\ f.at \in {"tls_row", "active"} => x \in vports /\ (tls[x] # None => x \in sslOn)
    /\ f.op = "update" /\ f.at = "active" => tls[x] = f.cert
    /\ f.op = "delete" /\ f.at \in {"no_cert", "no_vport", "row"} => template[x] = None
    /\ f.op = "delete" /\ f.at = "row" => x \notin vports
PolicyGood(f, p) ==
    /\ f.op # "delete" /\ f.at \in {"bind", "active"} => p \in scripts /\ Listed(p)
    /\ f.op # "delete" /\ f.at = "active" => p \in bound
    /\ f.op = "delete" /\ f.at = "row" => p \notin scripts
RuleGood(f, r) ==
    IF f.op = "delete" THEN f.at \in {"bind", "row"} => r \notin inScript
    ELSE f.at \in {"bind", "active"} => r \in inScript

(* The flow of a request for a load balancer.                              *)
Passed(f, o, labels) == o \notin f.rest /\ (f.cur = o => f.at \notin labels)
CreateGood(f, l) ==
    /\ ~f.full => \A y \in Under(l) : status[y] = "NEW"
    /\ f.full =>
         /\ f.at # "vs" => l \in vs
         /\ \A y \in Under(l) : status[y] \in IF y \in f.rest \cup Chain(f.cur) THEN {"PENDING"}
                                              ELSE {"PENDING", "ACTIVE"}
         /\ \A x \in ListenersOf(l) :
              /\ ~Passed(f, x, {"cert", "template"}) => template[x] = None
              /\ Passed(f, x, {"cert", "template"}) => template[x] = tls[x]
              /\ Passed(f, x, {"cert", "template", "vport"}) => x \in vports /\ (tls[x] # None => x \in sslOn)
         /\ \A p \in Policies : LbOf[ListenerOf[p]] = l =>
              /\ Passed(f, p, {"script"}) => p \in scripts /\ RulesOf(p) \subseteq inScript
              /\ Passed(f, p, {"script", "bind"}) => p \in bound
UpdateGood(f, l) == f.at = "write_ports" => vports \cap ListenersOf(l) \subseteq f.read
DeleteGood(f, l) ==
    /\ f.at = "lb_row" => ListenersOf(l) \cap vports = {}
    /\ f.cur \in Listeners /\ f.at # "no_template" => template[f.cur] = None

FlowOK(f) ==
    /\ f.on \notin LBs => PartGood(f)
    /\ f.on \in Listeners => ListenerGood(f, f.on)
    /\ f.on \in Policies => PolicyGood(f, f.on)
    /\ f.on \in Rules => RuleGood(f, f.on)
    /\ f.on \in LBs /\ f.op = "create" => CreateGood(f, f.on)
    /\ f.on \in LBs /\ f.op = "update" => UpdateGood(f, f.on)
    /\ f.on \in LBs /\ f.op = "delete" => DeleteGood(f, f.on)

Falling(f, l) == status[l] \in {"PENDING", "ERROR"} /\ ~Live(f, l)
CleanListener(f, x) ==
    /\ status[x] = "GONE" => template[x] = None /\ (x \in vports => Falling(f, LbOf[x]))
    /\ status[x] = "NEW" => template[x] = None
CleanPolicy(p) ==
    status[ListenerOf[p]] # "GONE" =>
      /\ status[p] = "GONE" => p \notin scripts
      /\ \A r \in RulesOf(p) : status[r] = "GONE" => r \notin inScript

LbGood(f, l) ==
    /\ LbStatus(f, l)
    /\ Live(f, l) => l \in vs \/ Creates(f, l)
    /\ \A x \in ListenersOf(l) : ListenerOK(f, x) /\ CleanListener(f, x)
    /\ \A p \in Policies : LbOf[ListenerOf[p]] = l => PolicyOK(f, p) /\ CleanPolicy(p)
    /\ \A o \in Under(l) : Calm(f, o)
    /\ f # Idle /\ f.step # "revert" => FlowOK(f)
(* A flow that has only to save.                                           *)
Ended(f) ==
    /\ f.op = "delete" /\ f.on \in LBs => status[f.on] = "GONE"
    /\ f.on \in Parts => status[Lb(f.on)] # "ERROR"
    /\ f.on \in Rules => status[PolicyOf[f.on]] # "ERROR"
LbOK(l) ==
    Settled(l) =>
      /\ \E f \in Flows : AtWork(f, l) /\ LbGood(f, l)
      /\ \A s \in On(l), f \in Flows : f = flow[s] /\ Ending(f) => Ended(f)

ObjectInv ==
    /\ Inv
    /\ \A o \in Objects : Rowed(o)
    /\ \A l \in LBs : LbOK(l)

-----------------------------------------------------------------------------
(* The certificates.  The deletion of a listener has passed the point      *)
(* where it deletes the certificate.                                       *)
CertGone(f, z) ==
    f.step \in {"queued", "run"} /\ f.op = "delete" /\ f.cur = z /\ f.at \in {"no_vport", "row"}
(* An update of a listener is at work that brings the certificate c.       *)
Replacing(f, c) ==
    /\ f.step \in {"queued", "run"} /\ f.op = "update" /\ f.cert = c /\ f.on \in Listeners
    /\ f.at \in {"cert", "new_template", "replace", "tls_row"}
Placing(f, c) == Replacing(f, c) /\ f.at \in {"replace", "tls_row"}

Keeps(z, c) ==
    \/ template[z] = c
    \/ template[z] = None /\ tls[z] = c /\ \A s \in Slots : ~CertGone(flow[s], z)
Kept(c) ==
    \/ \E z \in Listeners : HasRow(z) /\ Keeps(z, c)
    \/ \E s \in Slots : Replacing(flow[s], c)
Odd(x) ==
    template[x] \notin {None, tls[x]} =>
      \/ template[x] \in left
      \/ \E s \in Slots : flow[s].on = x /\ Placing(flow[s], template[x])
Certain == (\A c \in certs \ left : Kept(c)) /\ \A x \in Listeners : Odd(x)
AllSettled == \A l \in LBs : Settled(l)
CertInv == AllSettled => Certain
=============================================================================

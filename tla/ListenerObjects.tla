--------------------------- MODULE ListenerObjects ---------------------------
(***************************************************************************)
(* Listeners with their TLS certificates, L7 policies and L7 rules, and    *)
(* the load balancer flows that create or delete them together.            *)
(*                                                                         *)
(* Every request becomes a linear flow: one task after the other, each a   *)
(* few device calls or database writes.  A flow that fails runs the        *)
(* reverts of the tasks it has executed.  The Octavia API admits a request when the   *)
(* load balancer is ACTIVE and makes it PENDING; but the flows write       *)
(* ACTIVE before their last tasks (the configuration is saved after it),   *)
(* so that the next request may start while the flow before it can still   *)
(* fail, and a fully populated creation does so after each listener.       *)
(*                                                                         *)
(* On the device a listener is a virtual port, an L7 policy is an aFleX    *)
(* script that lists its rules and is bound to the port, a certificate is  *)
(* a file that a client-ssl template names.  Default pools and persistence *)
(* are in PoolObjects.                                                     *)
(***************************************************************************)
EXTENDS Naturals

CONSTANTS
    LBs, Listeners, Policies, Rules, Certs,
    LbOf,        \* the load balancer of a listener
    ListenerOf,  \* the listener of an L7 policy
    PolicyOf,    \* the policy of an L7 rule
    TlsOf,       \* the certificate a listener is created with, or None
    Slots,       \* bound: the flows under way at a time
    Scenes,      \* bound: the requests that are made, <<operation, object>>,
                 \* the objects that exist from the start, and the kinds of
                 \* Thunder
    None

Objects == LBs \cup Listeners \cup Policies \cup Rules

ASSUME ShapeAssumption ==
    /\ LbOf \in [Listeners -> LBs]
    /\ ListenerOf \in [Policies -> Listeners]
    /\ PolicyOf \in [Rules -> Policies]
    /\ TlsOf \in [Listeners -> Certs \cup {None}]
    /\ LBs \cap (Listeners \cup Policies \cup Rules) = {}
    /\ Listeners \cap (Policies \cup Rules) = {} /\ Policies \cap Rules = {}
    /\ None \notin Certs \cup Objects
    /\ \A sc \in Scenes :
         /\ sc.exist \subseteq Objects /\ sc.rack \subseteq BOOLEAN
         /\ \A x \in sc.exist \cap Listeners : LbOf[x] \in sc.exist
         /\ \A p \in sc.exist \cap Policies : ListenerOf[p] \in sc.exist
         /\ \A r \in sc.exist \cap Rules : PolicyOf[r] \in sc.exist

VARIABLES
    scene,      \* the requests made in this behaviour
    rack,       \* a hardware Thunder: no flow takes the busy lock
    status,     \* provisioning_status of each row
    tls,        \* the tls_certificate_id of each listener row
    vs,         \* device: the load balancers with a virtual server
    vports,     \* device: the listeners with a virtual port
    sslOn,      \* device: the ports bound to their client-ssl template
    bound,      \* device: the policies listed in the aFleX of their port
    template,   \* device: the certificate in each client-ssl template
    certs,      \* device: certificate and key files
    scripts,    \* device: the policies that have an aFleX script
    inScript,   \* device: the rules the scripts contain
    flow,       \* the flow in each slot
    overlapped, \* history: load balancers with two flows where one failed,
                \* or where one was the creation of the load balancer
    revived,    \* history: objects that were in ERROR when a request for an
                \* object below them was admitted
    unbound,    \* history: policies whose port an update of the listener replaced
    bare,       \* history: listeners whose port a policy deletion replaced
    left        \* history: certificates whose clean-up was not complete

port == <<vports, sslOn, bound>>
files == <<template, certs, scripts, inScript>>
device == <<vs, port, files>>
hist == <<overlapped, revived, unbound, bare, left>>
vars == <<scene, rack, status, tls, device, flow, hist>>

Statuses == {"NEW", "PENDING", "ACTIVE", "ERROR", "GONE"}

PoliciesOf(x) == {p \in Policies : ListenerOf[p] = x}
RulesOf(p) == {r \in Rules : PolicyOf[r] = p}
ListenersOf(l) == {x \in Listeners : LbOf[x] = l}

(* The policy, the listener and the load balancer of an object.            *)
PolicyAt(o) == IF o \in Rules THEN PolicyOf[o] ELSE o
ListenerAt(o) == IF o \in Rules \cup Policies THEN ListenerOf[PolicyAt(o)] ELSE o
Lb(o) == IF o \in LBs THEN o ELSE LbOf[ListenerAt(o)]
(* An object with those above it: the ones a request makes PENDING.        *)
Chain(o) == {o, PolicyAt(o), ListenerAt(o), Lb(o)}
Below(o) == {x \in Objects : o \in Chain(x)}
Up(o) == IF o \in Rules THEN PolicyOf[o] ELSE IF o \in Policies THEN ListenerOf[o] ELSE LbOf[o]

HasRow(o) == status[o] \notin {"NEW", "GONE"}
Rows(S) == {o \in S : HasRow(o)}

Task(do, on) == [do |-> do, on |-> on]
(* The flow of a request for the object on is at the task named at of the  *)
(* object cur; of the objects in rest it has still to do its part.         *)
Idle == [op |-> "none", on |-> None, cert |-> None, full |-> FALSE, read |-> {},
         rest |-> {}, cur |-> None, at |-> "end", done |-> {}, step |-> "idle"]

On(l) == {s \in Slots : flow[s].step # "idle" /\ Lb(flow[s].on) = l}
(* The flow has written its final status, and has only to save.            *)
Ending(f) == f.step = "run" /\ f.at = "end"

Init ==
    /\ scene \in Scenes
    /\ rack \in scene.rack
    /\ status = [o \in Objects |-> IF o \in scene.exist THEN "ACTIVE" ELSE "NEW"]
    /\ tls = TlsOf
    /\ vs = scene.exist \cap LBs
    /\ vports = scene.exist \cap Listeners
    /\ sslOn = {x \in scene.exist \cap Listeners : TlsOf[x] # None}
    /\ bound = scene.exist \cap Policies
    /\ template = [x \in Listeners |-> IF x \in scene.exist THEN TlsOf[x] ELSE None]
    /\ certs = {TlsOf[x] : x \in scene.exist \cap Listeners} \ {None}
    /\ scripts = scene.exist \cap Policies
    /\ inScript = scene.exist \cap Rules
    /\ flow = [s \in Slots |-> Idle]
    /\ overlapped = {} /\ revived = {} /\ unbound = {} /\ bare = {} /\ left = {}

-----------------------------------------------------------------------------
(* The flows: after which task comes which.  Tasks that neither change the *)
(* state nor fail in a way of their own (look-ups, quotas, the NAT pool,   *)
(* the VIP) are left out; "plain" is the first task for a listener without *)
(* a certificate, "below" stands for the parts of the objects below.       *)
RuleCreateFlow == [start |-> "script", script |-> "bind", bind |-> "active", active |-> "end"]
RuleUpdateFlow == [start |-> "script", script |-> "bind", bind |-> "active", active |-> "end"]
RuleDeleteFlow ==
    [start |-> "script_without", script_without |-> "bind", bind |-> "row", row |-> "active",
     active |-> "end"]
PolicyCreateFlow == [start |-> "script", script |-> "bind", bind |-> "active", active |-> "end"]
PolicyUpdateFlow == [start |-> "script", script |-> "bind", bind |-> "active", active |-> "end"]
(* Mutant: the policy is only taken off the port.                          *)
PolicyDeleteFlowKeepsScript ==
    [start |-> "unbind", unbind |-> "row", row |-> "active", active |-> "end"]
PolicyDeleteFlow ==
    [start |-> "unbind", unbind |-> "no_script", no_script |-> "row", row |-> "active",
     active |-> "end"]
(* Mutant: ACTIVE before the port is there.                                *)
ListenerCreateFlowMarksFirst ==
    [start |-> "cert", plain |-> "active", cert |-> "template", template |-> "active",
     active |-> "vport", vport |-> "end"]
ListenerCreateFlow ==
    [start |-> "cert", plain |-> "vport", cert |-> "template", template |-> "vport",
     vport |-> "active", active |-> "end"]
ListenerUpdateFlow ==
    [start |-> "cert", plain |-> "replace", cert |-> "new_template", new_template |-> "replace",
     replace |-> "tls_row", tls_row |-> "active", active |-> "end"]
(* Mutant: the files are deleted while the template still names them.      *)
ListenerDeleteFlowCertFirst ==
    [start |-> "no_cert", plain |-> "no_vport", no_cert |-> "no_template",
     no_template |-> "no_vport", no_vport |-> "row", row |-> "active", active |-> "end"]
ListenerDeleteFlow ==
    [start |-> "no_template", plain |-> "no_vport", no_template |-> "no_cert",
     no_cert |-> "no_vport", no_vport |-> "row", row |-> "active", active |-> "end"]
LbUpdateFlow ==
    [start |-> "read_ports", read_ports |-> "write_ports", write_ports |-> "active",
     active |-> "end"]

(* The creation of a load balancer, without listeners or fully populated.  *)
LbCreateFlow == [start |-> "early_active", early_active |-> "vs", vs |-> "end"]
LbCreateFullFlow == [start |-> "vs", vs |-> "below", below |-> "active", active |-> "end"]
ListenerSubflow ==
    [start |-> "cert", plain |-> "vport", cert |-> "template", template |-> "vport",
     vport |-> "below", below |-> "early_active", early_active |-> "end"]
PolicySubflow ==
    [start |-> "script", script |-> "bind", bind |-> "below", below |-> "mark", mark |-> "end"]
RuleSubflow == [start |-> "script", script |-> "bind", bind |-> "mark", mark |-> "end"]

(* The cascading deletion.                                                 *)
LbDeleteFlow == [start |-> "below", below |-> "no_vs", no_vs |-> "lb_row", lb_row |-> "end"]
PolicyCascade == [start |-> "unbind", unbind |-> "no_script", no_script |-> "end"]
ListenerCascade ==
    [start |-> "no_template", plain |-> "row", no_template |-> "no_cert", no_cert |-> "row",
     row |-> "end"]

(* The part of the flow f that is about the object o.                      *)
OfLb(f) ==
    CASE f.op = "create" /\ f.full -> LbCreateFullFlow
      [] f.op = "create" /\ ~f.full -> LbCreateFlow
      [] f.op = "update" -> LbUpdateFlow
      [] f.op = "delete" -> LbDeleteFlow
OfListener(f) ==
    CASE f.op = "create" -> IF f.on \in LBs THEN ListenerSubflow ELSE ListenerCreateFlow
      [] f.op = "update" -> ListenerUpdateFlow
      [] f.op = "delete" -> IF f.on \in LBs THEN ListenerCascade ELSE ListenerDeleteFlow
OfPolicy(f) ==
    CASE f.op = "create" -> IF f.on \in LBs THEN PolicySubflow ELSE PolicyCreateFlow
      [] f.op = "update" -> PolicyUpdateFlow
      [] f.op = "delete" -> IF f.on \in LBs THEN PolicyCascade ELSE PolicyDeleteFlow
OfRule(f) ==
    CASE f.op = "create" -> IF f.on \in LBs THEN RuleSubflow ELSE RuleCreateFlow
      [] f.op = "update" -> RuleUpdateFlow
      [] f.op = "delete" -> RuleDeleteFlow
Tasks(f, o) ==
    CASE o \in LBs -> OfLb(f)
      [] o \in Listeners -> OfListener(f)
      [] o \in Policies -> OfPolicy(f)
      [] o \in Rules -> OfRule(f)
First(f, o) ==
    IF o \in Listeners /\ TlsOf[o] = None THEN Tasks(f, o).plain ELSE Tasks(f, o).start

(* What comes next of the objects below o: in a creation those just below  *)
(* it; in a cascading deletion the policies, then the listeners.           *)
Coming(f, o) ==
    IF f.op = "create" THEN {x \in f.rest : Up(x) = o}
    ELSE IF f.rest \cap Policies # {} THEN f.rest \cap Policies
    ELSE f.rest
Descend(f, o) ==
    IF Coming(f, o) = {} THEN {[f EXCEPT !.cur = o, !.at = Tasks(f, o).below]}
    ELSE {[f EXCEPT !.cur = x, !.rest = @ \ {x}, !.at = First(f, x)] : x \in Coming(f, o)}
(* The flow f where the task named next of the object o comes.             *)
Come(f, o, next) ==
    IF next = "below" THEN Descend(f, o)
    ELSE IF next = "end" /\ o # f.on THEN Descend(f, IF f.op = "create" THEN Up(o) ELSE f.on)
    ELSE {[f EXCEPT !.cur = o, !.at = next]}

-----------------------------------------------------------------------------
(* The Octavia API admits a request when the load balancer is ACTIVE (to   *)
(* delete it, in ERROR too); everything above the object becomes PENDING.  *)
(* The handler makes the flow from the rows it reads.                      *)
Flow(op, o, cert) ==
    [Idle EXCEPT !.op = op, !.on = o, !.cert = cert, !.cur = o, !.step = "queued"]
Admit(s, f, new) ==
    LET l == Lb(f.on)
    IN  /\ flow[s] = Idle
        /\ <<f.op, f.on>> \in scene.requests
        /\ status' = [x \in Objects |-> IF x \in Chain(f.on) \cup new THEN "PENDING" ELSE status[x]]
        /\ \E g \in Come(f, f.on, First(f, f.on)) : flow' = [flow EXCEPT ![s] = g]
        /\ revived' = revived \cup {x \in Chain(f.on) \ {f.on} : status[x] = "ERROR"}
        /\ overlapped' =
             IF \E t \in On(l) : \/ flow[t].step = "revert"
                                 \/ flow[t].on = l /\ (~Ending(flow[t]) \/ flow[t].op = "create")
             THEN overlapped \cup {l} ELSE overlapped
        /\ UNCHANGED <<scene, rack, tls, device, unbound, bare, left>>

MayCreate(o) == status[o] = "NEW" /\ HasRow(Up(o)) /\ status[Lb(o)] = "ACTIVE"
MayChange(o) == HasRow(o) /\ status[Lb(o)] = "ACTIVE"

CreateListener(s, x) == MayCreate(x) /\ Admit(s, Flow("create", x, tls[x]), {})
UpdateListener(s, x) ==
    /\ MayChange(x)
    /\ \E cert \in IF TlsOf[x] = None THEN {None} ELSE Certs :
          Admit(s, Flow("update", x, cert), {})
DeleteListener(s, x) == MayChange(x) /\ Admit(s, Flow("delete", x, tls[x]), {})

CreatePolicy(s, p) == MayCreate(p) /\ Admit(s, Flow("create", p, None), {})
UpdatePolicy(s, p) == MayChange(p) /\ Admit(s, Flow("update", p, None), {})
DeletePolicy(s, p) == MayChange(p) /\ Admit(s, Flow("delete", p, None), {})

CreateRule(s, r) == MayCreate(r) /\ Admit(s, Flow("create", r, None), {})
UpdateRule(s, r) == MayChange(r) /\ Admit(s, Flow("update", r, None), {})
DeleteRule(s, r) == MayChange(r) /\ Admit(s, Flow("delete", r, None), {})

(* With listeners, their policies and rules, or without.                   *)
CreateLb(s, l) ==
    /\ status[l] = "NEW"
    /\ \E new \in {{}, Below(l) \ {l}} :
          Admit(s, [Flow("create", l, None) EXCEPT !.full = (new # {}), !.rest = new], new)
UpdateLb(s, l) == MayChange(l) /\ Admit(s, Flow("update", l, None), {})
(* The cascading flow makes the part of the policies anew for each         *)
(* listener, and only that of the last one is added.                       *)
DeleteLb(s, l) ==
    LET listeners == Rows(ListenersOf(l))
    IN  /\ status[l] \in {"ACTIVE", "ERROR"}
        /\ \E last \in IF listeners = {} THEN {None} ELSE listeners :
              Admit(s, [Flow("delete", l, None) EXCEPT
                           !.rest = listeners \cup Rows({p \in Policies : ListenerOf[p] = last})], {})

-----------------------------------------------------------------------------
(* On a vThunder a flow that creates or deletes a load balancer runs alone *)
(* (BusyLock).                                                             *)
Begin(s) ==
    /\ flow[s].step = "queued"
    /\ \A t \in Slots \ {s} : \/ rack
                             \/ flow[t].step \in {"idle", "queued"}
                             \/ ~(\E u \in {s, t} : flow[u].on \in LBs /\ flow[u].op # "update")
    /\ flow' = [flow EXCEPT ![s].step = "run"]
    /\ UNCHANGED <<scene, rack, status, tls, device, hist>>

At(s, do) == flow[s].step = "run" /\ flow[s].at = do
Target(s) == flow[s].cur
(* Kept in done are the tasks with a revert.                               *)
Undoes(f) == IF f.op = "create" THEN {"cert", "template", "vport", "script", "vs", "active", "early_active"}
             ELSE {"active"}
Done(f) == f.done \cup {Task(do, f.cur) : do \in Undoes(f) \cap {f.at}}
Proceed(s, f) ==
    \E g \in Come([f EXCEPT !.done = Done(f)], f.cur, Tasks(f, f.cur)[f.at]) :
       flow' = [flow EXCEPT ![s] = g]
Advance(s) == Proceed(s, flow[s])

(* A listener's certificate in this flow: that of an update is the new one.*)
CertFor(s, x) == IF flow[s].on = x THEN flow[s].cert ELSE tls[x]

(* SSLCertCreate and SSLKeyCreate (or ...Update): imported, over a file    *)
(* that is there already too.                                              *)
PutCert(s) ==
    /\ At(s, "cert")
    /\ certs' = certs \cup {CertFor(s, Target(s))}
    /\ Advance(s)
    /\ UNCHANGED <<scene, rack, status, tls, vs, port, template, scripts, inScript, hist>>

PutTemplate(s) ==
    /\ At(s, "template")
    /\ CertFor(s, Target(s)) \in certs
    /\ template' = [template EXCEPT ![Target(s)] = CertFor(s, Target(s))]
    /\ Advance(s)
    /\ UNCHANGED <<scene, rack, status, tls, vs, port, certs, scripts, inScript, hist>>

Uses(t, c) == \E x \in Listeners : t[x] = c

(* ClientSSLTemplateUpdate: an existing template gets the new certificate, *)
(* and the old file is deleted with best effort.                           *)
UpdateTemplate(s) ==
    LET x == Target(s)
        old == template[x]
        new == CertFor(s, x)
    IN  /\ At(s, "new_template")
        /\ new \in certs
        /\ IF old = None THEN UNCHANGED <<template, certs, left>>
           ELSE /\ template' = [template EXCEPT ![x] = new]
                /\ \/ old # new /\ ~Uses(template', old) /\ certs' = certs \ {old} /\ UNCHANGED left
                   \/ old # new /\ UNCHANGED certs /\ left' = left \cup {old}
                   \/ old = new /\ UNCHANGED <<certs, left>>
        /\ Advance(s)
        /\ UNCHANGED <<scene, rack, status, tls, vs, port, scripts, inScript,
                       overlapped, revived, unbound, bare>>

DeleteTemplate(s) ==
    /\ At(s, "no_template")
    /\ template' = [template EXCEPT ![Target(s)] = None]
    /\ sslOn' = sslOn \ {Target(s)}
    /\ Advance(s)
    /\ UNCHANGED <<scene, rack, status, tls, vs, vports, bound, certs, scripts, inScript, hist>>

(* Mutant: the file goes though another template names it.                 *)
DeleteCertInUse(s) ==
    /\ At(s, "no_cert")
    /\ certs' = certs \ {tls[Target(s)]}
    /\ Advance(s)
    /\ UNCHANGED <<scene, rack, status, tls, vs, port, template, scripts, inScript, hist>>

(* SSLCertDelete and SSLKeyDelete: a file that is in use is let be.        *)
DeleteCert(s) ==
    LET c == tls[Target(s)]
    IN  /\ At(s, "no_cert")
        /\ certs' = IF Uses(template, c) THEN certs ELSE certs \ {c}
        /\ Advance(s)
        /\ UNCHANGED <<scene, rack, status, tls, vs, port, template, scripts, inScript, hist>>

(* ListenerCreate.                                                         *)
CreatePort(s) ==
    LET x == Target(s)
    IN  /\ At(s, "vport")
        /\ LbOf[x] \in vs /\ x \notin vports
        /\ tls[x] # None => template[x] # None
        /\ vports' = vports \cup {x}
        /\ sslOn' = IF tls[x] # None THEN sslOn \cup {x} ELSE sslOn
        /\ Advance(s)
        /\ UNCHANGED <<scene, rack, status, tls, vs, bound, files, hist>>

(* ListenerUpdate replaces the port: the aFleX scripts are not passed.     *)
ReplacePort(s) ==
    LET x == Target(s)
    IN  /\ At(s, "replace")
        /\ x \in vports
        /\ tls[x] # None => template[x] # None
        /\ bound' = bound \ PoliciesOf(x)
        /\ sslOn' = IF tls[x] # None THEN sslOn \cup {x} ELSE sslOn
        /\ unbound' = unbound \cup (bound \cap PoliciesOf(x))
        /\ bare' = bare \ {x}
        /\ Advance(s)
        /\ UNCHANGED <<scene, rack, status, tls, vs, vports, files, overlapped, revived, left>>

DeletePort(s) ==
    LET x == Target(s)
    IN  /\ At(s, "no_vport")
        /\ x \in vports
        /\ vports' = vports \ {x}
        /\ sslOn' = sslOn \ {x}
        /\ bound' = bound \ PoliciesOf(x)
        /\ Advance(s)
        /\ UNCHANGED <<scene, rack, status, tls, vs, files, hist>>

-----------------------------------------------------------------------------
(* The script is made from every rule of the policy in the database.       *)
Import(s, rules) ==
    LET p == PolicyAt(Target(s))
    IN  /\ scripts' = scripts \cup {p}
        /\ inScript' = (inScript \ RulesOf(p)) \cup rules
        /\ Advance(s)
        /\ UNCHANGED <<scene, rack, status, tls, vs, port, template, certs, hist>>

(* Mutant: only the rules that are ACTIVE.                                 *)
PutScriptActiveOnly(s) ==
    At(s, "script") /\ Import(s, {r \in RulesOf(PolicyAt(Target(s))) : status[r] = "ACTIVE"})
PutScript(s) == At(s, "script") /\ Import(s, Rows(RulesOf(PolicyAt(Target(s)))))
PutScriptWithout(s) ==
    At(s, "script_without") /\ Import(s, Rows(RulesOf(PolicyAt(Target(s)))) \ {Target(s)})

(* The port is read and updated with the script added to its list.         *)
Bind(s) ==
    LET p == PolicyAt(Target(s))
    IN  /\ At(s, "bind")
        /\ ListenerOf[p] \in vports /\ p \in scripts
        /\ bound' = bound \cup {p}
        /\ unbound' = unbound \ {p}
        /\ Advance(s)
        /\ UNCHANGED <<scene, rack, status, tls, vs, vports, sslOn, files,
                       overlapped, revived, bare, left>>

(* DeleteL7Policy replaces the port: the scripts are passed, the client-ssl*)
(* template is not.                                                        *)
Unbind(s) ==
    LET p == Target(s)
    IN  /\ At(s, "unbind")
        /\ ListenerOf[p] \in vports
        /\ bound' = bound \ {p}
        /\ sslOn' = sslOn \ {ListenerOf[p]}
        /\ bare' = bare \cup {ListenerOf[p]}
        /\ Advance(s)
        /\ UNCHANGED <<scene, rack, status, tls, vs, vports, files,
                       overlapped, revived, unbound, left>>

DeleteScript(s) ==
    /\ At(s, "no_script")
    /\ scripts' = scripts \ {Target(s)}
    /\ inScript' = inScript \ RulesOf(Target(s))
    /\ bound' = bound \ {Target(s)}
    /\ Advance(s)
    /\ UNCHANGED <<scene, rack, status, tls, vs, vports, sslOn, template, certs, hist>>

-----------------------------------------------------------------------------
CreateVs(s) ==
    /\ At(s, "vs")
    /\ vs' = vs \cup {Target(s)}
    /\ Advance(s)
    /\ UNCHANGED <<scene, rack, status, tls, port, files, hist>>

DropVs(l) ==
    /\ vs' = vs \ {l}
    /\ vports' = vports \ ListenersOf(l)
    /\ sslOn' = sslOn \ ListenersOf(l)
    /\ bound' = {p \in bound : LbOf[ListenerOf[p]] # l}

DeleteVs(s) ==
    /\ At(s, "no_vs")
    /\ Target(s) \in vs
    /\ DropVs(Target(s))
    /\ Advance(s)
    /\ UNCHANGED <<scene, rack, status, tls, files, hist>>

(* UpdateVirtualServerTask reads the ports of the virtual server and       *)
(* replaces it with what it read.                                          *)
ReadPorts(s) ==
    /\ At(s, "read_ports")
    /\ Target(s) \in vs
    /\ Proceed(s, [flow[s] EXCEPT !.read = vports \cap ListenersOf(Target(s))])
    /\ UNCHANGED <<scene, rack, status, tls, device, hist>>

WritePorts(s) ==
    LET gone == (vports \cap ListenersOf(Target(s))) \ flow[s].read
    IN  /\ At(s, "write_ports")
        /\ Target(s) \in vs
        /\ vports' = vports \ gone
        /\ sslOn' = sslOn \ gone
        /\ bound' = {p \in bound : ListenerOf[p] \notin gone}
        /\ Advance(s)
        /\ UNCHANGED <<scene, rack, status, tls, vs, files, hist>>

-----------------------------------------------------------------------------
(* MarkLBAndListener(s)ActiveInDB keep a listener that is in ERROR.        *)
Activated(S) == [x \in Objects |->
    IF x \in Rows(S) /\ ~(x \in Listeners /\ status[x] = "ERROR") THEN "ACTIVE" ELSE status[x]]

(* MarkL7RuleActiveInDB, MarkL7PolicyActiveInDB in a subflow.              *)
MarkOne(s) ==
    /\ At(s, "mark")
    /\ status' = Activated({Target(s)})
    /\ Advance(s)
    /\ UNCHANGED <<scene, rack, tls, device, hist>>

(* The load balancer is ACTIVE before its creation is complete.            *)
MarkEarly(s) ==
    /\ At(s, "early_active")
    /\ status' = Activated(Chain(Target(s)))
    /\ Advance(s)
    /\ UNCHANGED <<scene, rack, tls, device, hist>>

(* The object and those above it; for the creation of a load balancer also *)
(* those below (mark_subobjects).                                          *)
MarkActive(s) ==
    /\ At(s, "active")
    /\ status' = Activated(Chain(Target(s)) \cup
                   IF flow[s].op = "create" /\ Target(s) \in LBs THEN Below(Target(s)) ELSE {})
    /\ Advance(s)
    /\ UNCHANGED <<scene, rack, tls, device, hist>>

UpdateTls(s) ==
    /\ At(s, "tls_row")
    /\ tls' = [tls EXCEPT ![Target(s)] = flow[s].cert]
    /\ Advance(s)
    /\ UNCHANGED <<scene, rack, status, device, hist>>

(* Delete...InDB: the rows below go too.                                   *)
DeleteRow(s) ==
    /\ At(s, "row")
    /\ status' = [x \in Objects |-> IF x \in Below(Target(s)) THEN "GONE" ELSE status[x]]
    /\ Advance(s)
    /\ UNCHANGED <<scene, rack, tls, device, hist>>

DeleteLbRow(s) ==
    /\ At(s, "lb_row")
    /\ status' = [status EXCEPT ![Target(s)] = "GONE"]
    /\ Advance(s)
    /\ UNCHANGED <<scene, rack, tls, device, hist>>

(* WriteMemory and SetThunderUpdatedAt end the flow.                       *)
Finish(s) ==
    /\ Ending(flow[s])
    /\ flow' = [flow EXCEPT ![s] = Idle]
    /\ UNCHANGED <<scene, rack, status, tls, device, hist>>

-----------------------------------------------------------------------------
(* A task raises: the busy wait, a device call, or WriteMemory, which must *)
(* reach the device.  The reverts of the tasks that write ACTIVE write     *)
(* ERROR first.                                                            *)
Fail(s) ==
    LET f == flow[s]
        marked == {t.on : t \in {d \in f.done : d.do \in {"active", "early_active"}}}
        chain == UNION {Chain(o) : o \in marked}
    IN  /\ f.step \in {"queued", "run"}
        /\ flow' = [flow EXCEPT ![s].step = "revert",
                                ![s].done = IF f.step = "run" THEN Done(f) ELSE @]
        /\ status' = [x \in Objects |-> IF x \in Rows(chain) THEN "ERROR" ELSE status[x]]
        /\ overlapped' = IF On(Lb(f.on)) # {s} THEN overlapped \cup {Lb(f.on)} ELSE overlapped
        /\ left' = left \cup (IF f.op = "update" /\ f.cert # None THEN {f.cert} ELSE {})
        /\ UNCHANGED <<scene, rack, tls, device, revived, unbound, bare>>

(* The ...ToErrorOnRevert tasks: the object of the request goes to ERROR,  *)
(* those above it to ACTIVE.  In a fully populated creation every object   *)
(* whose subflow was reached goes to ERROR, and the load balancer.         *)
EndInError(s) ==
    LET f == flow[s]
        failed == {f.on} \cup (IF f.op = "create" /\ f.on \in LBs THEN {t.on : t \in f.done} ELSE {})
    IN  status' = [x \in Objects |->
                     IF x \in failed \cap (LBs \cup Rows(Objects)) THEN "ERROR"
                     ELSE Activated(Chain(f.on))[x]]

(* ListenerCreate, SSLCertCreate, SSLKeyCreate, ClientSSLTemplateCreate,   *)
(* CreateL7Policy and CreateVirtualServerTask delete what they made, and   *)
(* only log an error; kept are the objects whose deletion failed.          *)
Revert(s) ==
    LET f == flow[s]
        Made(do) == IF f.op = "create" THEN {t.on : t \in {d \in f.done : d.do = do}} ELSE {}
    IN  /\ f.step = "revert"
        /\ \E kept \in SUBSET (Made("vport") \cup Made("template") \cup Made("vs")
                                \cup (Made("script") \cap Policies)) :
             LET ports == Made("vport") \ kept
                 temps == Made("template") \ kept
                 lbs == Made("vs") \ kept
             IN  /\ vs' = vs \ lbs
                 /\ vports' = {x \in vports \ ports : LbOf[x] \notin lbs}
                 /\ template' = [x \in Listeners |-> IF x \in temps THEN None ELSE template[x]]
                 /\ sslOn' = {x \in (sslOn \ temps) : x \in vports'}
                 /\ scripts' = scripts \ ((Made("script") \cap Policies) \ kept)
                 /\ inScript' = {r \in inScript : PolicyOf[r] \in scripts'}
                 /\ bound' = {p \in bound : p \in scripts' /\ ListenerOf[p] \in vports'}
        /\ LET made == {CertFor(s, x) : x \in Made("cert")}
           IN  \E kept \in SUBSET made :
                 /\ \A c \in made \ kept : ~Uses(template', c)
                 /\ certs' = certs \ (made \ kept)
                 /\ left' = left \cup kept
        /\ EndInError(s)
        /\ flow' = [flow EXCEPT ![s] = Idle]
        /\ overlapped' = IF On(Lb(f.on)) # {s} THEN overlapped \cup {Lb(f.on)} ELSE overlapped
        /\ UNCHANGED <<scene, rack, tls, revived, unbound, bare>>

-----------------------------------------------------------------------------
Run(s) ==
    \/ PutCert(s) \/ PutTemplate(s) \/ UpdateTemplate(s) \/ DeleteTemplate(s) \/ DeleteCert(s)
    \/ CreatePort(s) \/ ReplacePort(s) \/ DeletePort(s)
    \/ PutScript(s) \/ PutScriptWithout(s) \/ Bind(s) \/ Unbind(s) \/ DeleteScript(s)
    \/ CreateVs(s) \/ DeleteVs(s) \/ ReadPorts(s) \/ WritePorts(s)
    \/ MarkOne(s) \/ MarkEarly(s) \/ MarkActive(s)
    \/ UpdateTls(s) \/ DeleteRow(s) \/ DeleteLbRow(s)

Next == \E s \in Slots :
    \/ \E x \in Listeners : CreateListener(s, x) \/ UpdateListener(s, x) \/ DeleteListener(s, x)
    \/ \E p \in Policies : CreatePolicy(s, p) \/ UpdatePolicy(s, p) \/ DeletePolicy(s, p)
    \/ \E r \in Rules : CreateRule(s, r) \/ UpdateRule(s, r) \/ DeleteRule(s, r)
    \/ \E l \in LBs : CreateLb(s, l) \/ UpdateLb(s, l) \/ DeleteLb(s, l)
    \/ Begin(s) \/ Run(s) \/ Finish(s) \/ Fail(s) \/ Revert(s)

Spec == Init /\ [][Next]_vars

-----------------------------------------------------------------------------
(* Every variable has its type, and what is bound is there.                *)
TypeOK ==
    /\ status \in [Objects -> Statuses]
    /\ tls \in [Listeners -> Certs \cup {None}]
    /\ vs \subseteq LBs /\ vports \subseteq Listeners
    /\ sslOn \subseteq {x \in vports : template[x] # None}
    /\ bound \subseteq {p \in scripts : ListenerOf[p] \in vports}
    /\ template \in [Listeners -> certs \cup {None}]
    /\ certs \subseteq Certs /\ scripts \subseteq Policies
    /\ inScript \subseteq {r \in Rules : PolicyOf[r] \in scripts}
    /\ \A s \in Slots : flow[s].on \in Objects \cup {None}

(* No two flows of the load balancer overlapped where one of them failed.  *)
Settled(l) == l \notin overlapped

(* A load balancer that is ACTIVE has its virtual server, once its own     *)
(* creation is over, and a listener that is ACTIVE its virtual port with   *)
(* its certificate.                                                        *)
ActiveListenerServed ==
    \A l \in LBs : Settled(l) /\ status[l] = "ACTIVE" =>
        /\ l \in vs \/ \E s \in On(l) : flow[s].op = "create"
        /\ \A x \in ListenersOf(l) : status[x] = "ACTIVE" /\ x \notin revived =>
             /\ x \in vports
             /\ tls[x] # None /\ x \notin bare => x \in sslOn /\ template[x] = tls[x]

(* A policy that is ACTIVE is bound to its port, and its script holds the  *)
(* rules that are ACTIVE.                                                  *)
ActivePolicyEnforced ==
    \A p \in Policies :
        /\ \A o \in Chain(p) : status[o] = "ACTIVE"
        /\ Settled(LbOf[ListenerOf[p]])
        /\ {p, ListenerOf[p]} \cap revived = {} /\ p \notin unbound
        => /\ p \in bound
           /\ {r \in RulesOf(p) : status[r] = "ACTIVE"} \subseteq inScript

(* What has no row any more has nothing on the device; only the scripts of *)
(* policies that went with their listener stay.                            *)
NoOrphanConfig ==
    \A x \in Listeners : Settled(LbOf[x]) =>
        /\ status[x] = "GONE" =>
             template[x] = None /\ (x \in vports => status[LbOf[x]] \in {"PENDING", "ERROR"})
        /\ status[x] # "GONE" =>
             /\ \A p \in PoliciesOf(x) \cap scripts : status[p] # "GONE"
             /\ \A r \in inScript : ListenerOf[PolicyOf[r]] = x => status[r] # "GONE"

(* A certificate file belongs to a listener's row, unless an update or a   *)
(* clean-up failed.                                                        *)
NoOrphanCert ==
    (\A l \in LBs : Settled(l)) =>
        \A c \in certs \ left :
            \/ \E x \in Rows(Listeners) : tls[x] = c \/ template[x] = c
            \/ \E s \in Slots : flow[s].cert = c
=============================================================================

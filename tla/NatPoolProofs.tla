---------------------------- MODULE NatPoolProofs ----------------------------
(***************************************************************************)
(* Proofs about NatPool for any finite set of members of any load          *)
(* balancers and any number of ports.                                      *)
(***************************************************************************)
EXTENDS NatPool, FiniteSetTheorems, TLAPS

\* The members of a request f are of its load balancer l; the one in work is
\* to be deleted or created, and its reference is not handled yet.
FlowOk(l, f) ==
    /\ f.drop \subseteq MembersOf(l)
    /\ f.add \subseteq MembersOf(l)
    /\ f.drop \cap f.add = {}
    /\ f.add # {} => f.op # "pool"
    /\ f.step \in {"release", "entry"} => f.cur \in f.drop \cap f.nat
    /\ f.step \in {"reserve", "update"} => f.cur \in f.add \cap f.nat
    /\ f.port # 0 <=> f.step = "update" /\ f.read = NoRow

\* Members to create have a row from the start.
FlowInv ==
    \A l \in LBs : /\ FlowOk(l, flow[l])
                   /\ \A m \in flow[l].add : status[m] # "NONE"

\* Ports are numbered as they are made.
MadeInv ==
    /\ row.port <= made
    /\ ports \subseteq 1..made
    /\ \A l \in LBs : flow[l].read.port <= made /\ flow[l].port <= made

\* The last reference is given back after its port is gone.
ReleasedInv ==
    "port" \notin blame =>
        \A l \in LBs : flow[l].step = "entry" /\ flow[l].read.count = 1
                           => flow[l].read.port \notin ports

PortInv == MadeInv /\ ReleasedInv /\ NoPortLeft

\* Who holds a reference: never a member without a row, nor one that is
\* about to take it.
HolderInv ==
    /\ \A m \in Members : status[m] = "NONE" => m \notin users
    /\ \A l \in LBs : \A m \in flow[l].add \cap flow[l].nat : m \notin users

\* One flow at a time is between reading and writing the row, and what it
\* read is still so; it gives back what its member took.
AloneInv ==
    /\ \A l, k \in LBs : Inside(l) /\ Inside(k) => l = k
    /\ \A l \in LBs : Inside(l) => flow[l].read = row
    /\ \A l \in LBs : flow[l].step \in {"release", "entry"} /\ flow[l].read # NoRow
                          => flow[l].cur \in users
    /\ \A l \in LBs : flow[l].step = "update" /\ flow[l].read = NoRow => flow[l].port \in ports

\* The row counts its users, and its port is there while the last of them
\* has not given it back.
RowCounts ==
    /\ row = NoRow <=> users = {}
    /\ row.count = Cardinality(users)
    /\ users # {} => \/ row.port \in ports
                     \/ \E l \in LBs : flow[l].step = "entry" /\ users = {flow[l].cur}

CountInv == blame = {} => HolderInv /\ AloneInv /\ RowCounts

-----------------------------------------------------------------------------
\* What the API may ask for load balancer l.
GoodRequest(l, r) ==
    /\ FlowOk(l, r)
    /\ r.step = "queued" /\ r.read = NoRow /\ r.port = 0
    /\ \A m \in r.add : m \in r.nat /\ status[m] = "NONE"

LEMMA RequestShape ==
    ASSUME NEW l \in LBs, NEW op \in {"create", "delete", "batch", "pool"},
           NEW drop \in SUBSET MembersOf(l), NEW add \in SUBSET MembersOf(l),
           drop \cap add = {}, op = "pool" => add = {},
           \A m \in add : status[m] = "NONE"
    PROVE  Request(op, drop, add) \in Flows /\ GoodRequest(l, Request(op, drop, add))
<1> DEFINE r == Request(op, drop, add)
<1>1. drop \subseteq Members /\ add \subseteq Members
  BY DEF MembersOf
<1>2. r \in Flows
  BY <1>1, ShapeAssumption DEF Request, Flows
<1>3. GoodRequest(l, r)
  BY DEF GoodRequest, FlowOk, Request, NoRow
<1> QED
  BY <1>2, <1>3

LEMMA IdleShape ==
    /\ Idle \in Flows
    /\ \A l \in LBs : FlowOk(l, Idle)
    /\ Idle.step = "idle" /\ Idle.read = NoRow /\ Idle.port = 0 /\ Idle.add = {}
BY ShapeAssumption DEF Idle, Request, Flows, FlowOk, NoRow

\* A request of the API is admitted, or a listener comes or goes.
LEMMA ApiShape ==
    Api => \/ \E l \in LBs, r \in Flows : GoodRequest(l, r) /\ Admit(l, r)
           \/ \E l \in LBs : ChangeListener(l)
<1> SUFFICES ASSUME Api
             PROVE  \/ \E l \in LBs, r \in Flows : GoodRequest(l, r) /\ Admit(l, r)
                    \/ \E l \in LBs : ChangeListener(l)
  OBVIOUS
<1>1. ASSUME NEW m \in Members, CreateMember(m) \/ DeleteMember(m)
      PROVE  \E l \in LBs, r \in Flows : GoodRequest(l, r) /\ Admit(l, r)
  <2>1. LbOf[m] \in LBs /\ {m} \subseteq MembersOf(LbOf[m])
    BY ShapeAssumption DEF MembersOf
  <2>2. CASE CreateMember(m)
    <3>1. LET r == Request("create", {}, {m}) IN r \in Flows /\ GoodRequest(LbOf[m], r)
      BY <2>1, <2>2, RequestShape DEF CreateMember
    <3> QED
      BY <2>1, <2>2, <3>1 DEF CreateMember
  <2>3. CASE DeleteMember(m)
    <3>1. LET r == Request("delete", {m}, {}) IN r \in Flows /\ GoodRequest(LbOf[m], r)
      BY <2>1, RequestShape
    <3> QED
      BY <2>1, <2>3, <3>1 DEF DeleteMember
  <2> QED
    BY <1>1, <2>2, <2>3
<1>2. ASSUME NEW l \in LBs, DeletePool(l)
      PROVE  \E r \in Flows : GoodRequest(l, r) /\ Admit(l, r)
  <2>1. LET r == Request("pool", Present(l), {}) IN r \in Flows /\ GoodRequest(l, r)
    BY RequestShape DEF Present
  <2> QED
    BY <1>2, <2>1 DEF DeletePool
<1>3. ASSUME NEW l \in LBs, NEW drop \in SUBSET MembersOf(l), NEW add \in SUBSET MembersOf(l),
             BatchUpdate(l, drop, add)
      PROVE  \E r \in Flows : GoodRequest(l, r) /\ Admit(l, r)
  <2>1. drop \cap add = {} /\ \A m \in add : status[m] = "NONE"
    BY <1>3 DEF BatchUpdate, Present
  <2>2. LET r == Request("batch", drop, add) IN r \in Flows /\ GoodRequest(l, r)
    BY <2>1, RequestShape
  <2> QED
    BY <1>3, <2>2 DEF BatchUpdate
<1> QED
  BY <1>1, <1>2, <1>3 DEF Api

-----------------------------------------------------------------------------
\* Types, and the shape of the flows.

LEMMA InitFlows == Init => TypeOK /\ FlowInv
BY IdleShape, ShapeAssumption DEF Init, TypeOK, FlowInv

LEMMA AdmitFlows ==
    ASSUME TypeOK, FlowInv, NEW l \in LBs, NEW r \in Flows, GoodRequest(l, r), Admit(l, r)
    PROVE  TypeOK' /\ FlowInv'
<1>1. flow \in [LBs -> Flows] /\ flow' = [flow EXCEPT ![l] = r]
  BY DEF Admit, TypeOK
<1>2. status' \in [Members -> {"NONE", "ACTIVE", "OTHER"}]
  BY DEF Admit, TypeOK
<1>3. TypeOK'
  BY <1>1, <1>2 DEF Admit, TypeOK
<1>4. ASSUME NEW k \in LBs
      PROVE  FlowOk(k, flow'[k]) /\ \A m \in flow'[k].add : status'[m] # "NONE"
  <2>1. CASE k = l
    <3>1. flow'[k] = r /\ r.add \subseteq Members
      BY <1>1, <2>1 DEF Flows
    <3>2. \A m \in r.add : m \in r.nat /\ r.op # "pool"
      BY DEF GoodRequest, FlowOk
    <3>3. \A m \in r.add : status'[m] = "OTHER"
      BY <3>1, <3>2 DEF Admit
    <3> QED
      BY <3>1, <3>3, <2>1 DEF GoodRequest
  <2>2. CASE k # l
    <3>1. flow'[k] = flow[k] /\ flow[k].add \subseteq Members
      BY <1>1, <2>2 DEF Flows
    <3>2. \A m \in Members : status[m] # "NONE" => status'[m] # "NONE"
      BY DEF Admit
    <3> QED
      BY <3>1, <3>2 DEF FlowInv
  <2> QED
    BY <2>1, <2>2
<1> QED
  BY <1>3, <1>4 DEF FlowInv

\* A step of a flow changes only its own record, which stays well-formed,
\* takes no row of a member about to be created, and the types follow.
LEMMA FlowStep ==
    ASSUME TypeOK, FlowInv, NEW l \in LBs, NEW f \in Flows, FlowOk(l, f),
           flow' = [flow EXCEPT ![l] = f], f.add \subseteq flow[l].add,
           \A m \in Members : status[m] # "NONE" /\ m \notin flow[l].drop => status'[m] # "NONE"
    PROVE  FlowInv' /\ flow' \in [LBs -> Flows]
<1>1. flow \in [LBs -> Flows]
  BY DEF TypeOK
<1>2. ASSUME NEW k \in LBs
      PROVE  FlowOk(k, flow'[k]) /\ \A m \in flow'[k].add : status'[m] # "NONE"
  <2>1. FlowOk(k, flow'[k]) /\ flow'[k].add \subseteq flow[k].add
    BY <1>1 DEF FlowInv
  <2>2. flow[k].add \subseteq Members /\ flow[k].add \cap flow[l].drop = {}
    BY <1>1 DEF FlowInv, FlowOk, MembersOf
  <2> QED
    BY <2>1, <2>2 DEF FlowInv
<1> QED
  BY <1>1, <1>2 DEF FlowInv

LEMMA GetFlows ==
    ASSUME TypeOK, FlowInv, NEW l \in LBs, NEW m \in Members, GetNatPoolEntry(l, m),
           m \in flow[l].drop \cup flow[l].add
    PROVE  TypeOK' /\ FlowInv'
<1> DEFINE g == [flow[l] EXCEPT !.cur = m, !.read = row,
                                !.step = IF m \in flow[l].drop THEN "release" ELSE "reserve"]
           h == [flow[l] EXCEPT !.nat = @ \ {m}]
<1>1. flow \in [LBs -> Flows] /\ flow[l] \in Flows /\ FlowOk(l, flow[l])
  BY DEF TypeOK, FlowInv
<1>2. flow[l].step = "next" /\ m \in flow[l].nat /\ flow[l].port = 0
  BY <1>1 DEF GetNatPoolEntry, NatTurn, FlowOk
<1>3. CASE l \in natted
  <2>1. g \in Flows
    BY <1>1 DEF Flows, TypeOK
  <2>2. FlowOk(l, g)
    BY <1>1, <1>2 DEF FlowOk, Flows
  <2>3. flow' = [flow EXCEPT ![l] = g] /\ g.add = flow[l].add /\ status' = status
    BY <1>1, <1>3 DEF GetNatPoolEntry, Flows
  <2>4. blame' \subseteq {"overlap", "unpaired", "port"}
    BY <1>3 DEF GetNatPoolEntry, TypeOK
  <2> HIDE DEF g
  <2>5. FlowInv' /\ flow' \in [LBs -> Flows]
    BY <2>1, <2>2, <2>3, FlowStep
  <2> QED
    BY <2>5, <2>4 DEF GetNatPoolEntry, TypeOK
<1>4. CASE l \notin natted
  <2>1. h \in Flows
    BY <1>1 DEF Flows
  <2>2. FlowOk(l, h)
    BY <1>1, <1>2 DEF FlowOk, Flows
  <2>3. flow' = [flow EXCEPT ![l] = h] /\ h.add = flow[l].add /\ status' = status
    BY <1>1, <1>4 DEF GetNatPoolEntry, Flows
  <2> HIDE DEF h
  <2>4. FlowInv' /\ flow' \in [LBs -> Flows]
    BY <2>1, <2>2, <2>3, FlowStep
  <2> QED
    BY <2>4, <1>4 DEF GetNatPoolEntry, TypeOK
<1> QED
  BY <1>3, <1>4

\* The tasks between reading and writing the row, and the start of a flow.
LEMMA StepFlows ==
    ASSUME TypeOK, FlowInv, NEW l \in LBs,
           \/ Begin(l) \/ ReleaseSubnetAddress(l) \/ ReserveSubnetAddress(l)
    PROVE  TypeOK' /\ FlowInv'
<1>1. flow \in [LBs -> Flows] /\ flow[l] \in Flows /\ FlowOk(l, flow[l])
  BY DEF TypeOK, FlowInv
<1>2. CASE Begin(l)
  <2> DEFINE f == [flow[l] EXCEPT !.step = "next"]
  <2>1. f \in Flows /\ FlowOk(l, f)
    BY <1>1, <1>2 DEF Flows, FlowOk, Begin
  <2>2. flow' = [flow EXCEPT ![l] = f] /\ f.add = flow[l].add /\ status' = status
    BY <1>1, <1>2 DEF Begin, Flows
  <2> HIDE DEF f
  <2> QED
    BY <2>1, <2>2, <1>2, FlowStep DEF Begin, TypeOK
<1>3. CASE ReleaseSubnetAddress(l)
  <2> DEFINE f == [flow[l] EXCEPT !.step = "entry"]
  <2>1. f \in Flows /\ FlowOk(l, f)
    BY <1>1, <1>3 DEF Flows, FlowOk, ReleaseSubnetAddress
  <2>2. flow' = [flow EXCEPT ![l] = f] /\ f.add = flow[l].add /\ status' = status
    BY <1>1, <1>3 DEF ReleaseSubnetAddress, Flows
  <2>3. ports' \subseteq ports /\ blame' \subseteq blame \cup {"port"}
    BY <1>3 DEF ReleaseSubnetAddress
  <2> HIDE DEF f
  <2> QED
    BY <2>1, <2>2, <2>3, <1>3, FlowStep DEF ReleaseSubnetAddress, TypeOK
<1>4. CASE ReserveSubnetAddress(l) /\ flow[l].read # NoRow
  <2> DEFINE f == [flow[l] EXCEPT !.step = "update"]
  <2>1. f \in Flows /\ FlowOk(l, f)
    BY <1>1, <1>4 DEF Flows, FlowOk, ReserveSubnetAddress
  <2>2. flow' = [flow EXCEPT ![l] = f] /\ f.add = flow[l].add /\ status' = status
    BY <1>1, <1>4 DEF ReserveSubnetAddress, Flows
  <2> HIDE DEF f
  <2> QED
    BY <2>1, <2>2, <1>4, FlowStep DEF ReserveSubnetAddress, TypeOK
<1>5. CASE ReserveSubnetAddress(l) /\ flow[l].read = NoRow
  <2> DEFINE f == [flow[l] EXCEPT !.step = "update", !.port = made + 1]
  <2>1. made + 1 \in 1..MaxPorts
    BY <1>5, ShapeAssumption DEF ReserveSubnetAddress, TypeOK
  <2>2. f \in Flows /\ FlowOk(l, f)
    BY <1>1, <1>5, <2>1, ShapeAssumption DEF Flows, FlowOk, ReserveSubnetAddress
  <2>3. flow' = [flow EXCEPT ![l] = f] /\ f.add = flow[l].add /\ status' = status
    BY <1>1, <1>5 DEF ReserveSubnetAddress, Flows
  <2>4. made' = made + 1 /\ ports' = {made + 1}
    BY <1>5 DEF ReserveSubnetAddress
  <2>5. made' \in 0..MaxPorts /\ ports' \subseteq 1..MaxPorts
    BY <2>1, <2>4, ShapeAssumption
  <2> HIDE DEF f
  <2> QED
    BY <2>2, <2>3, <2>5, <1>5, FlowStep DEF ReserveSubnetAddress, TypeOK
<1> QED
  BY <1>2, <1>3, <1>4, <1>5

LEMMA WriteFlows ==
    ASSUME TypeOK, FlowInv, NEW l \in LBs, DeleteNatPoolEntry(l) \/ UpdateNatPoolDB(l)
    PROVE  TypeOK' /\ FlowInv'
<1> DEFINE f == [flow[l] EXCEPT !.step = "next", !.nat = @ \ {flow[l].cur}, !.cur = None,
                                !.read = NoRow, !.port = 0]
<1>1. flow \in [LBs -> Flows] /\ flow[l] \in Flows /\ FlowOk(l, flow[l])
  BY DEF TypeOK, FlowInv
<1>2. f \in Flows /\ FlowOk(l, f)
  <2>1. f \in Flows
    <3>1. flow[l].nat \ {flow[l].cur} \in SUBSET Members /\ 0 \in 0..MaxPorts
      BY <1>1, ShapeAssumption DEF Flows
    <3> DEFINE g == [flow[l] EXCEPT !.step = "next", !.nat = flow[l].nat \ {flow[l].cur},
                                    !.cur = None]
    <3>2. g \in Flows
      BY <1>1, <3>1 DEF Flows
    <3>3. f = [g EXCEPT !.read = NoRow, !.port = 0]
      BY <1>1 DEF Flows
    <3> HIDE DEF f, g
    <3> QED
      BY <3>1, <3>2, <3>3 DEF Flows
  <2>2. /\ f.drop = flow[l].drop /\ f.add = flow[l].add /\ f.op = flow[l].op
        /\ f.step = "next" /\ f.port = 0
    BY <1>1 DEF Flows
  <2> HIDE DEF f
  <2>3. FlowOk(l, f)
    BY <1>1, <2>2 DEF FlowOk
  <2> QED
    BY <2>1, <2>3
<1>3. flow' = [flow EXCEPT ![l] = f] /\ f.add = flow[l].add /\ status' = status
  BY <1>1 DEF DeleteNatPoolEntry, UpdateNatPoolDB, NatDone, Flows
<1> HIDE DEF f
<1>4. FlowInv' /\ flow' \in [LBs -> Flows]
  BY <1>2, <1>3, FlowStep
<1>5. flow[l].step \in {"entry", "update"} /\ flow[l].cur \in Members
  BY <1>1 DEF DeleteNatPoolEntry, UpdateNatPoolDB, FlowOk, MembersOf
<1>6. users' \subseteq Members
  BY <1>5 DEF DeleteNatPoolEntry, UpdateNatPoolDB, TypeOK
<1>7. row' \in Rows \cup {NoRow}
  <2>1. flow[l].read \in Rows \cup {NoRow} /\ row \in Rows \cup {NoRow} /\ NoRow \notin Rows
    BY <1>1 DEF Flows, TypeOK, Rows, NoRow
  <2>2. ASSUME NEW c \in Nat \ {0}, flow[l].read # NoRow, row.port = flow[l].read.port
        PROVE  [row EXCEPT !.count = c] \in Rows
    <3>1. row # NoRow
      BY <2>1, <2>2 DEF Rows, NoRow
    <3> QED
      BY <2>1, <3>1 DEF Rows
  <2>3. CASE DeleteNatPoolEntry(l)
    <3>1. flow[l].read # NoRow => flow[l].read.count \in Nat \ {0}
      BY <2>1 DEF Rows
    <3>2. flow[l].read # NoRow /\ flow[l].read.count > 1 => flow[l].read.count - 1 \in Nat \ {0}
      BY <3>1
    <3> QED
      BY <2>1, <2>2, <2>3, <3>2 DEF DeleteNatPoolEntry
  <2>4. CASE UpdateNatPoolDB(l) /\ flow[l].read # NoRow
    <3>1. flow[l].read.count + 1 \in Nat \ {0}
      BY <2>1, <2>4 DEF Rows
    <3> QED
      BY <2>1, <2>2, <2>4, <3>1 DEF UpdateNatPoolDB
  <2>5. CASE UpdateNatPoolDB(l) /\ flow[l].read = NoRow
    <3>1. flow[l].port \in 1..MaxPorts
      BY <1>1, <2>5, ShapeAssumption DEF UpdateNatPoolDB, FlowOk, Flows
    <3> QED
      BY <2>5, <3>1 DEF UpdateNatPoolDB, Rows
  <2> QED
    BY <2>3, <2>4, <2>5
<1> QED
  BY <1>4, <1>6, <1>7 DEF DeleteNatPoolEntry, UpdateNatPoolDB, TypeOK

\* The work on the servers, the end of a flow and its failure.
LEMMA EndFlows ==
    ASSUME TypeOK, FlowInv, NEW l \in LBs,
           Finish(l) \/ Fail(l) \/ (\E m \in Members : Work(l, m))
    PROVE  TypeOK' /\ FlowInv'
<1>1. flow \in [LBs -> Flows] /\ flow[l] \in Flows /\ FlowOk(l, flow[l])
  BY DEF TypeOK, FlowInv
<1>2. /\ status' \in [Members -> {"NONE", "ACTIVE", "OTHER"}]
      /\ \A m \in Members : status[m] # "NONE" /\ m \notin flow[l].drop => status'[m] # "NONE"
  <2>1. CASE Finish(l)
    BY <2>1 DEF Finish, DeleteRows, TypeOK
  <2>2. CASE Fail(l)
    BY <2>2 DEF Fail, TypeOK
  <2>3. CASE \E m \in Members : Work(l, m)
    BY <2>3 DEF Work, DeleteRows, TypeOK
  <2> QED
    BY <2>1, <2>2, <2>3
<1>3. blame' \subseteq {"overlap", "unpaired", "port"}
  BY DEF Finish, Fail, Work, DeleteRows, TypeOK
<1>4. CASE Finish(l) \/ Fail(l)
  <2>1. flow' = [flow EXCEPT ![l] = Idle]
    BY <1>4 DEF Finish, Fail
  <2> QED
    BY <2>1, <1>2, <1>3, <1>4, IdleShape, FlowStep DEF Finish, Fail, TypeOK
<1>5. ASSUME NEW m \in Members, Work(l, m)
      PROVE  TypeOK' /\ FlowInv'
  <2> DEFINE f == [flow[l] EXCEPT !.work = @ \ {m}]
  <2>1. f \in Flows /\ FlowOk(l, f)
    BY <1>1 DEF Flows, FlowOk
  <2>2. flow' = [flow EXCEPT ![l] = f] /\ f.add = flow[l].add
    BY <1>1, <1>5 DEF Work, Flows
  <2> HIDE DEF f
  <2> QED
    BY <2>1, <2>2, <1>2, <1>3, <1>5, FlowStep DEF Work, TypeOK
<1> QED
  BY <1>4, <1>5

LEMMA NextFlows == TypeOK /\ FlowInv /\ [Next]_vars => TypeOK' /\ FlowInv'
<1> SUFFICES ASSUME TypeOK, FlowInv, [Next]_vars
             PROVE  TypeOK' /\ FlowInv'
  OBVIOUS
<1>1. CASE Api
  <2>1. ASSUME NEW l \in LBs, ChangeListener(l)
        PROVE  TypeOK' /\ FlowInv'
    BY <2>1 DEF ChangeListener, TypeOK, FlowInv
  <2> QED
    BY <1>1, <2>1, ApiShape, AdmitFlows
<1>2. ASSUME NEW l \in LBs, Worker(l)
      PROVE  TypeOK' /\ FlowInv'
  <2>1. flow[l].add \subseteq Members /\ flow[l].drop \subseteq Members
    BY DEF TypeOK, Flows
  <2> QED
    BY <1>2, <2>1, GetFlows, StepFlows, WriteFlows, EndFlows DEF Worker, Take, GiveBack
<1>3. CASE UNCHANGED vars
  BY <1>3 DEF vars, TypeOK, FlowInv
<1> QED
  BY <1>1, <1>2, <1>3 DEF Next

\* The values of the variables and of the requests are of their types at
\* every moment, whatever fails and however flows interleave.
THEOREM TypeCorrect == Spec => []TypeOK
<1>1. TypeOK /\ FlowInv /\ [Next]_vars => (TypeOK /\ FlowInv)'
  BY NextFlows
<1> QED
  BY <1>1, InitFlows, PTL DEF Spec

-----------------------------------------------------------------------------
\* Ports and the row that names them.

LEMMA InitPorts == Init => PortInv
BY IdleShape, ShapeAssumption DEF Init, PortInv, MadeInv, ReleasedInv, NoPortLeft, NoRow

\* A step that keeps the row and every port, and that lets go of a port just
\* made only when it says so.
LEMMA QuietPorts ==
    ASSUME TypeOK, PortInv, NEW l \in LBs, NEW f \in Flows,
           flow' = [flow EXCEPT ![l] = f], f.step # "entry",
           f.read = flow[l].read \/ f.read = row \/ f.read = NoRow,
           f.port = flow[l].port \/ (f.port = 0 /\ "port" \in blame'),
           row' = row, ports' = ports, made' = made, blame \subseteq blame'
    PROVE  PortInv'
<1>1. flow \in [LBs -> Flows] /\ row \in Rows \cup {NoRow} /\ made \in Nat
  BY ShapeAssumption DEF TypeOK
<1>2. \A k \in LBs : flow'[k] = IF k = l THEN f ELSE flow[k]
  BY <1>1
<1>3. NoRow.port <= made
  BY <1>1 DEF NoRow
<1>4. MadeInv'
  BY <1>1, <1>2, <1>3 DEF PortInv, MadeInv
<1>5. ReleasedInv'
  BY <1>1, <1>2 DEF PortInv, ReleasedInv
<1>6. NoPortLeft'
  BY <1>1, <1>2 DEF PortInv, NoPortLeft
<1> QED
  BY <1>4, <1>5, <1>6 DEF PortInv

LEMMA ReleasePorts ==
    ASSUME TypeOK, PortInv, NEW l \in LBs, ReleaseSubnetAddress(l)
    PROVE  PortInv'
<1> DEFINE f == [flow[l] EXCEPT !.step = "entry"]
<1>1. flow \in [LBs -> Flows] /\ flow[l] \in Flows
  BY DEF TypeOK
<1>2. f.read = flow[l].read /\ f.port = flow[l].port /\ flow' = [flow EXCEPT ![l] = f]
  BY <1>1 DEF Flows, ReleaseSubnetAddress
<1> HIDE DEF f
<1>3. \A k \in LBs : flow'[k] = IF k = l THEN f ELSE flow[k]
  BY <1>1, <1>2
<1>4. /\ row' = row /\ made' = made /\ ports' \subseteq ports
      /\ "port" \notin blame' =>
            /\ "port" \notin blame
            /\ flow[l].read.count = 1 => flow[l].read.port \notin ports'
  BY DEF ReleaseSubnetAddress
<1>5. MadeInv'
  BY <1>2, <1>3, <1>4 DEF PortInv, MadeInv
<1>6. ReleasedInv'
  BY <1>2, <1>3, <1>4 DEF PortInv, ReleasedInv
<1>7. NoPortLeft'
  BY <1>2, <1>3, <1>4 DEF PortInv, NoPortLeft
<1> QED
  BY <1>5, <1>6, <1>7 DEF PortInv

LEMMA ReservePorts ==
    ASSUME TypeOK, PortInv, NEW l \in LBs, ReserveSubnetAddress(l), flow[l].read = NoRow
    PROVE  PortInv'
<1> DEFINE f == [flow[l] EXCEPT !.step = "update", !.port = made + 1]
<1>1. flow \in [LBs -> Flows] /\ flow[l] \in Flows /\ made \in Nat
  BY ShapeAssumption DEF TypeOK
<1>2. /\ f.read = flow[l].read /\ f.port = made + 1 /\ f.step = "update"
      /\ flow' = [flow EXCEPT ![l] = f]
  BY <1>1 DEF Flows, ReserveSubnetAddress
<1> HIDE DEF f
<1>3. \A k \in LBs : flow'[k] = IF k = l THEN f ELSE flow[k]
  BY <1>1, <1>2
<1>4. row' = row /\ made' = made + 1 /\ ports' = {made + 1} /\ blame' = blame
  BY DEF ReserveSubnetAddress
<1>5. row.port \in Nat /\ \A k \in LBs : flow[k].read.port \in Nat /\ flow[k].port \in Nat
  BY <1>1, ShapeAssumption DEF TypeOK, Flows, Rows, NoRow
<1>6. MadeInv'
  BY <1>1, <1>2, <1>3, <1>4, <1>5 DEF PortInv, MadeInv
<1>7. ReleasedInv'
  <2>1. SUFFICES ASSUME NEW k \in LBs, flow'[k].step = "entry"
                 PROVE  flow'[k].read.port \notin ports'
    BY DEF ReleasedInv
  <2>2. k # l /\ flow'[k] = flow[k] /\ flow[k].read.port <= made
    BY <1>2, <1>3, <2>1 DEF PortInv, MadeInv
  <2> QED
    BY <1>1, <1>4, <1>5, <2>2
<1>8. NoPortLeft'
  BY <1>2, <1>3, <1>4 DEF NoPortLeft
<1> QED
  BY <1>6, <1>7, <1>8 DEF PortInv

LEMMA WritePorts ==
    ASSUME TypeOK, FlowInv, PortInv, NEW l \in LBs, DeleteNatPoolEntry(l) \/ UpdateNatPoolDB(l)
    PROVE  PortInv'
<1> DEFINE f == [flow[l] EXCEPT !.step = "next", !.nat = @ \ {flow[l].cur}, !.cur = None,
                                !.read = NoRow, !.port = 0]
           read == flow[l].read
<1>1. flow \in [LBs -> Flows] /\ flow[l] \in Flows /\ made \in Nat /\ FlowOk(l, flow[l])
  BY ShapeAssumption DEF TypeOK, FlowInv
<1>2. /\ f.read = NoRow /\ f.port = 0 /\ f.step = "next"
      /\ flow' = [flow EXCEPT ![l] = f]
  BY <1>1 DEF Flows, DeleteNatPoolEntry, UpdateNatPoolDB, NatDone
<1> HIDE DEF f
<1>3. \A k \in LBs : flow'[k] = IF k = l THEN f ELSE flow[k]
  BY <1>1, <1>2
<1>4. ports' = ports /\ made' = made /\ blame' = blame
  BY DEF DeleteNatPoolEntry, UpdateNatPoolDB
<1>5. row \in Rows \cup {NoRow} /\ read \in Rows \cup {NoRow} /\ NoRow.port = 0
  BY <1>1 DEF TypeOK, Flows, NoRow
<1>6. ReleasedInv'
  BY <1>2, <1>3, <1>4 DEF PortInv, ReleasedInv
<1>7. 0 \notin ports
  BY <1>1 DEF PortInv, MadeInv
<1>8. CASE DeleteNatPoolEntry(l)
  <2>1. \/ row'.port = row.port
        \/ row' = NoRow /\ row.port = read.port /\ read \in Rows /\ ~ (read.count > 1)
    <3>1. ASSUME NEW c, row # NoRow PROVE [row EXCEPT !.count = c].port = row.port
      BY <1>5, <3>1 DEF Rows
    <3>2. row = NoRow /\ read # NoRow => row.port # read.port
      BY <1>5, ShapeAssumption DEF Rows
    <3> QED
      BY <1>5, <1>8, <3>1, <3>2 DEF DeleteNatPoolEntry
  <2>2. MadeInv'
    BY <1>1, <1>2, <1>3, <1>4, <1>5, <2>1 DEF PortInv, MadeInv
  <2>3. "port" \notin blame => row'.port = row.port \/ row.port \notin ports
    <3>1. read \in Rows /\ ~ (read.count > 1) => read.count = 1
      BY DEF Rows
    <3> QED
      BY <1>8, <2>1, <3>1 DEF PortInv, ReleasedInv, DeleteNatPoolEntry
  <2>4. flow[l].port = 0
    BY <1>1, <1>8 DEF FlowOk, DeleteNatPoolEntry
  <2>5. NoPortLeft'
    BY <1>2, <1>3, <1>4, <1>7, <2>3, <2>4 DEF PortInv, NoPortLeft
  <2> QED
    BY <1>6, <2>2, <2>5 DEF PortInv
<1>9. CASE UpdateNatPoolDB(l) /\ read # NoRow
  <2>1. row'.port = row.port
    <3>1. row.port = read.port => row \in Rows
      BY <1>5, <1>9, ShapeAssumption DEF Rows
    <3>2. row \in Rows => [row EXCEPT !.count = read.count + 1].port = row.port
      BY DEF Rows
    <3> QED
      BY <1>9, <3>1, <3>2 DEF UpdateNatPoolDB
  <2>2. MadeInv'
    BY <1>1, <1>2, <1>3, <1>4, <1>5, <2>1 DEF PortInv, MadeInv
  <2>3. flow[l].port = 0
    BY <1>1, <1>9 DEF FlowOk
  <2>4. NoPortLeft'
    BY <1>2, <1>3, <1>4, <1>7, <2>1, <2>3 DEF PortInv, NoPortLeft
  <2> QED
    BY <1>6, <2>2, <2>4 DEF PortInv
<1>10. CASE UpdateNatPoolDB(l) /\ read = NoRow
  <2>1. row = NoRow /\ row'.port = flow[l].port
    BY <1>10 DEF UpdateNatPoolDB
  <2>2. MadeInv'
    BY <1>1, <1>2, <1>3, <1>4, <1>5, <2>1 DEF PortInv, MadeInv
  <2>3. NoPortLeft'
    BY <1>2, <1>3, <1>4, <1>5, <1>7, <2>1 DEF PortInv, NoPortLeft
  <2> QED
    BY <1>6, <2>2, <2>3 DEF PortInv
<1> QED
  BY <1>8, <1>9, <1>10

LEMMA NextPorts == TypeOK /\ FlowInv /\ PortInv /\ [Next]_vars => PortInv'
<1> SUFFICES ASSUME TypeOK, FlowInv, PortInv, [Next]_vars
             PROVE  PortInv'
  OBVIOUS
<1>0. flow \in [LBs -> Flows] /\ \A l \in LBs : flow[l] \in Flows
  BY DEF TypeOK
<1>1. ASSUME NEW l \in LBs, NEW r \in Flows, GoodRequest(l, r), Admit(l, r)
      PROVE  PortInv'
  <2>1. flow[l].port = 0
    BY <1>1, IdleShape DEF Admit
  <2> QED
    BY <1>1, <2>1, QuietPorts DEF Admit, GoodRequest
<1>2. ASSUME NEW l \in LBs, ChangeListener(l)
      PROVE  PortInv'
  BY <1>2 DEF ChangeListener, PortInv, MadeInv, ReleasedInv, NoPortLeft
<1>3. ASSUME NEW l \in LBs, NEW m \in Members, GetNatPoolEntry(l, m)
      PROVE  PortInv'
  <2> DEFINE g == [flow[l] EXCEPT !.cur = m, !.read = row,
                                  !.step = IF m \in flow[l].drop THEN "release" ELSE "reserve"]
             h == [flow[l] EXCEPT !.nat = @ \ {m}]
  <2>1. CASE l \in natted
    <3>1. g \in Flows /\ g.step # "entry" /\ g.read = row /\ g.port = flow[l].port
      BY <1>0 DEF Flows, TypeOK
    <3>2. flow' = [flow EXCEPT ![l] = g] /\ blame \subseteq blame'
      BY <1>0, <1>3, <2>1 DEF GetNatPoolEntry, Flows
    <3> HIDE DEF g
    <3> QED
      BY <1>3, <3>1, <3>2, QuietPorts DEF GetNatPoolEntry
  <2>2. CASE l \notin natted
    <3>1. h \in Flows /\ h.step # "entry" /\ h.read = flow[l].read /\ h.port = flow[l].port
      BY <1>0, <1>3 DEF Flows, GetNatPoolEntry, NatTurn
    <3>2. flow' = [flow EXCEPT ![l] = h] /\ blame \subseteq blame'
      BY <1>0, <1>3, <2>2 DEF GetNatPoolEntry, Flows
    <3> HIDE DEF h
    <3> QED
      BY <1>3, <3>1, <3>2, QuietPorts DEF GetNatPoolEntry
  <2> QED
    BY <2>1, <2>2
<1>4. ASSUME NEW l \in LBs, NEW s \in {"next", "update"}, flow' = [flow EXCEPT ![l].step = s],
             row' = row, ports' = ports, made' = made, blame' = blame
      PROVE  PortInv'
  <2> DEFINE f == [flow[l] EXCEPT !.step = s]
  <2>1. f \in Flows /\ f.step # "entry" /\ f.read = flow[l].read /\ f.port = flow[l].port
    BY <1>0 DEF Flows
  <2>2. flow' = [flow EXCEPT ![l] = f]
    BY <1>0, <1>4 DEF Flows
  <2> HIDE DEF f
  <2> QED
    BY <1>4, <2>1, <2>2, QuietPorts
<1>5. ASSUME NEW l \in LBs, Begin(l) \/ ReserveSubnetAddress(l)
      PROVE  PortInv'
  BY <1>4, <1>5, ReservePorts DEF Begin, ReserveSubnetAddress
<1>6. ASSUME NEW l \in LBs, NEW m \in Members, Work(l, m)
      PROVE  PortInv'
  <2> DEFINE f == [flow[l] EXCEPT !.work = @ \ {m}]
  <2>1. f \in Flows /\ f.step # "entry" /\ f.read = flow[l].read /\ f.port = flow[l].port
    BY <1>0, <1>6 DEF Flows, Work
  <2>2. flow' = [flow EXCEPT ![l] = f] /\ blame \subseteq blame'
    BY <1>0, <1>6 DEF Work, DeleteRows, Flows
  <2> HIDE DEF f
  <2> QED
    BY <1>6, <2>1, <2>2, QuietPorts DEF Work
<1>7. ASSUME NEW l \in LBs, Finish(l) \/ Fail(l)
      PROVE  PortInv'
  <2>1. flow[l].port # 0 => "port" \in blame'
    BY <1>7 DEF FlowInv, FlowOk, Finish, Fail
  <2>2. blame \subseteq blame'
    BY <1>7 DEF Finish, Fail, DeleteRows
  <2> QED
    BY <1>7, <2>1, <2>2, IdleShape, QuietPorts DEF Finish, Fail
<1>8. ASSUME NEW l \in LBs, Worker(l)
      PROVE  PortInv'
  <2>1. flow[l].add \subseteq Members /\ flow[l].drop \subseteq Members
    BY <1>0 DEF Flows
  <2> QED
    BY <1>3, <1>5, <1>6, <1>7, <1>8, <2>1, ReleasePorts, WritePorts DEF Worker, Take, GiveBack
<1>9. CASE UNCHANGED vars
  BY <1>9 DEF vars, PortInv, MadeInv, ReleasedInv, NoPortLeft
<1> QED
  BY <1>1, <1>2, <1>8, <1>9, ApiShape DEF Next

\* However flows interleave, a reserved port is named by the row, or by the
\* flow that is about to write it there; otherwise a call failed between the
\* two (ReserveSubnetAddressForMember and UpdateNatPoolDB, or
\* ReleaseSubnetAddressForMember and DeleteNatPoolEntry).
THEOREM PortsNamed == Spec => []NoPortLeft
<1>1. TypeOK /\ FlowInv /\ PortInv /\ [Next]_vars => (TypeOK /\ FlowInv /\ PortInv)'
  BY NextFlows, NextPorts
<1>2. PortInv => NoPortLeft
  BY DEF PortInv
<1> QED
  BY <1>1, <1>2, InitFlows, InitPorts, PTL DEF Spec

-----------------------------------------------------------------------------
\* The count of the row and its users.

LEMMA InitCount == Init => CountInv
BY IdleShape, FS_EmptySet, ShapeAssumption
   DEF Init, CountInv, HolderInv, AloneInv, RowCounts, Inside, NoRow

LEMMA UsersFinite ==
    ASSUME TypeOK
    PROVE  /\ IsFiniteSet(users)
           /\ Cardinality(users) \in Nat
           /\ Cardinality(users) = 0 <=> users = {}
           /\ \A m : /\ m \in users => Cardinality(users \ {m}) = Cardinality(users) - 1
                     /\ m \notin users => Cardinality(users \cup {m}) = Cardinality(users) + 1
           /\ \A m : users = {m} => Cardinality(users) = 1
<1>1. IsFiniteSet(users)
  BY FS_Subset, ShapeAssumption DEF TypeOK
<1>2. Cardinality(users) \in Nat /\ (Cardinality(users) = 0 <=> users = {})
  BY <1>1, FS_CardinalityType, FS_EmptySet
<1>3. \A m : /\ m \in users => Cardinality(users \ {m}) = Cardinality(users) - 1
             /\ m \notin users => Cardinality(users \cup {m}) = Cardinality(users) + 1
  BY <1>1, FS_AddElement, FS_RemoveElement
<1>4. \A m : Cardinality({m}) = 1
  BY FS_Singleton
<1> QED
  BY <1>1, <1>2, <1>3, <1>4

\* A step that leaves the row alone and does not enter the tasks around it.
LEMMA QuietCount ==
    ASSUME TypeOK, CountInv, NEW l \in LBs, NEW f \in Flows,
           flow' = [flow EXCEPT ![l] = f],
           f.step \notin {"release", "entry", "reserve", "update"},
           flow[l].step = "entry" /\ flow[l].read.count = 1 => blame' # {},
           \A m \in Members : status'[m] = "NONE" =>
               status[m] = "NONE" \/ m \notin users \/ blame' # {},
           \A m \in f.add \cap f.nat : m \in flow[l].add \cap flow[l].nat \/ status[m] = "NONE",
           row' = row, ports' = ports, users' = users, blame \subseteq blame'
    PROVE  CountInv'
<1> SUFFICES ASSUME blame' = {}
             PROVE  HolderInv' /\ AloneInv' /\ RowCounts'
  BY DEF CountInv
<1>1. HolderInv /\ AloneInv /\ RowCounts
  BY DEF CountInv
<1>2. flow \in [LBs -> Flows]
  BY DEF TypeOK
<1>3. \A k \in LBs : flow'[k] = IF k = l THEN f ELSE flow[k]
  BY <1>2
<1>4. HolderInv'
  <2>1. f.add \subseteq Members
    BY DEF Flows
  <2> QED
    BY <1>1, <1>3, <2>1 DEF HolderInv
<1>5. AloneInv'
  BY <1>1, <1>3 DEF AloneInv, Inside
<1>6. RowCounts'
  <2>1. ASSUME NEW k \in LBs, flow[k].step = "entry", users = {flow[k].cur}
        PROVE  k # l
    <3>1. flow[k].read.count = 1
      BY <1>1, <2>1, UsersFinite DEF AloneInv, RowCounts, Inside
    <3> QED
      BY <2>1, <3>1
  <2> QED
    BY <1>1, <1>3, <2>1 DEF RowCounts
<1> QED
  BY <1>4, <1>5, <1>6

LEMMA GetCount ==
    ASSUME TypeOK, CountInv, NEW l \in LBs, NEW m \in Members, GetNatPoolEntry(l, m),
           m \in flow[l].drop \cup flow[l].add
    PROVE  CountInv'
<1> DEFINE g == [flow[l] EXCEPT !.cur = m, !.read = row,
                                !.step = IF m \in flow[l].drop THEN "release" ELSE "reserve"]
           h == [flow[l] EXCEPT !.nat = @ \ {m}]
<1>1. flow \in [LBs -> Flows] /\ flow[l] \in Flows /\ flow[l].step = "next"
  BY DEF TypeOK, GetNatPoolEntry, NatTurn
<1>2. CASE l \notin natted
  <2>1. /\ h \in Flows /\ h.step = "next"
        /\ h.add = flow[l].add /\ h.nat \subseteq flow[l].nat
    BY <1>1 DEF Flows
  <2>2. flow' = [flow EXCEPT ![l] = h] /\ blame' = blame
    BY <1>1, <1>2 DEF GetNatPoolEntry, Flows
  <2> HIDE DEF h
  <2> QED
    BY <1>1, <2>1, <2>2, QuietCount DEF GetNatPoolEntry
<1>3. CASE l \in natted
  <2> SUFFICES ASSUME blame' = {}
               PROVE  HolderInv' /\ AloneInv' /\ RowCounts'
    BY DEF CountInv
  <2>1. /\ blame = {} /\ \A k \in LBs \ {l} : ~Inside(k)
        /\ m \in flow[l].drop /\ row # NoRow => m \in users
    BY <1>3 DEF GetNatPoolEntry
  <2>2. HolderInv /\ AloneInv /\ RowCounts
    BY <2>1 DEF CountInv
  <2>3. /\ g.cur = m /\ g.read = row /\ g.add = flow[l].add /\ g.nat = flow[l].nat
        /\ g.step = IF m \in flow[l].drop THEN "release" ELSE "reserve"
        /\ flow' = [flow EXCEPT ![l] = g]
    BY <1>1, <1>3 DEF GetNatPoolEntry, Flows
  <2> HIDE DEF g
  <2>4. \A k \in LBs : flow'[k] = IF k = l THEN g ELSE flow[k]
    BY <1>1, <2>3
  <2>5. row' = row /\ ports' = ports /\ users' = users /\ status' = status
    BY DEF GetNatPoolEntry
  <2>6. HolderInv'
    BY <2>2, <2>3, <2>4, <2>5 DEF HolderInv
  <2>7. AloneInv'
    BY <2>1, <2>2, <2>3, <2>4, <2>5 DEF AloneInv, Inside
  <2>8. RowCounts'
    BY <1>1, <2>1, <2>2, <2>4, <2>5 DEF RowCounts, Inside
  <2> QED
    BY <2>6, <2>7, <2>8
<1> QED
  BY <1>2, <1>3

LEMMA ReleaseCount ==
    ASSUME TypeOK, FlowInv, CountInv, NEW l \in LBs, ReleaseSubnetAddress(l)
    PROVE  CountInv'
<1> DEFINE f == [flow[l] EXCEPT !.step = "entry"]
<1> SUFFICES ASSUME blame' = {}
             PROVE  HolderInv' /\ AloneInv' /\ RowCounts'
  BY DEF CountInv
<1>1. flow \in [LBs -> Flows] /\ flow[l] \in Flows /\ flow[l].step = "release"
  BY DEF TypeOK, ReleaseSubnetAddress
<1>2. /\ blame = {} /\ row' = row /\ users' = users /\ status' = status
      /\ \/ flow[l].read.count = 1
         \/ ports' = ports
  BY DEF ReleaseSubnetAddress
<1>3. HolderInv /\ AloneInv /\ RowCounts
  BY <1>2 DEF CountInv
<1>4. /\ f.cur = flow[l].cur /\ f.read = flow[l].read /\ f.step = "entry"
      /\ f.add = flow[l].add /\ f.nat = flow[l].nat
      /\ flow' = [flow EXCEPT ![l] = f]
  BY <1>1 DEF ReleaseSubnetAddress, Flows
<1> HIDE DEF f
<1>5. \A k \in LBs : flow'[k] = IF k = l THEN f ELSE flow[k]
  BY <1>1, <1>4
<1>6. \A k \in LBs \ {l} : ~Inside(k)
  BY <1>1, <1>3 DEF AloneInv, Inside
<1>7. HolderInv'
  BY <1>2, <1>3, <1>4, <1>5 DEF HolderInv
<1>8. AloneInv'
  BY <1>1, <1>2, <1>3, <1>4, <1>5, <1>6 DEF AloneInv, Inside
<1>9. RowCounts'
  <2>1. row = flow[l].read /\ (users # {} => flow[l].cur \in users)
    BY <1>1, <1>3 DEF AloneInv, RowCounts, Inside
  <2>2. CASE ports' = ports
    <3>1. ~ \E k \in LBs : flow[k].step = "entry"
      BY <1>1, <1>6 DEF Inside
    <3> QED
      BY <1>2, <1>3, <2>2, <3>1 DEF RowCounts
  <2>3. CASE flow[l].read.count = 1
    <3>1. users # {} => users = {flow[l].cur}
      <4>1. Cardinality(users) = 1
        BY <1>3, <2>1, <2>3 DEF RowCounts
      <4>2. \A m \in users : Cardinality(users \ {m}) = 0
        BY <4>1, UsersFinite
      <4>3. \A m \in users : users \ {m} = {}
        BY <4>2, UsersFinite, FS_RemoveElement, FS_EmptySet
      <4> QED
        BY <2>1, <4>3
    <3> QED
      BY <1>2, <1>3, <1>4, <1>5, <3>1 DEF RowCounts
  <2> QED
    BY <1>2, <2>2, <2>3
<1> QED
  BY <1>7, <1>8, <1>9

LEMMA ReserveCount ==
    ASSUME TypeOK, FlowInv, CountInv, NEW l \in LBs, ReserveSubnetAddress(l)
    PROVE  CountInv'
<1> SUFFICES ASSUME blame' = {}
             PROVE  HolderInv' /\ AloneInv' /\ RowCounts'
  BY DEF CountInv
<1>1. flow \in [LBs -> Flows] /\ flow[l] \in Flows /\ flow[l].step = "reserve"
  BY DEF TypeOK, ReserveSubnetAddress
<1>2. blame = {} /\ row' = row /\ users' = users /\ status' = status
  BY DEF ReserveSubnetAddress
<1>3. HolderInv /\ AloneInv /\ RowCounts
  BY <1>2 DEF CountInv
<1>4. /\ flow'[l].cur = flow[l].cur /\ flow'[l].read = flow[l].read
      /\ flow'[l].step = "update"
      /\ flow'[l].add = flow[l].add /\ flow'[l].nat = flow[l].nat
      /\ \A k \in LBs : k # l => flow'[k] = flow[k]
  BY <1>1 DEF ReserveSubnetAddress, Flows
<1>5. \A k \in LBs \ {l} : ~Inside(k)
  BY <1>1, <1>3 DEF AloneInv, Inside
<1>6. \/ flow[l].read # NoRow /\ ports' = ports
      \/ flow[l].read = NoRow /\ flow'[l].port \in ports'
  BY <1>1 DEF ReserveSubnetAddress, Flows
<1>7. HolderInv'
  BY <1>2, <1>3, <1>4 DEF HolderInv
<1>8. AloneInv'
  BY <1>1, <1>2, <1>3, <1>4, <1>5, <1>6 DEF AloneInv, Inside
<1>9. RowCounts'
  <2>1. row = flow[l].read
    BY <1>1, <1>3 DEF AloneInv, Inside
  <2>2. ~ \E k \in LBs : flow[k].step = "entry"
    BY <1>1, <1>5 DEF Inside
  <2> QED
    BY <1>2, <1>3, <1>6, <2>1, <2>2 DEF RowCounts
<1> QED
  BY <1>7, <1>8, <1>9

LEMMA WriteCount ==
    ASSUME TypeOK, FlowInv, CountInv, NEW l \in LBs,
           DeleteNatPoolEntry(l) \/ UpdateNatPoolDB(l)
    PROVE  CountInv'
<1> SUFFICES ASSUME blame' = {}
             PROVE  HolderInv' /\ AloneInv' /\ RowCounts'
  BY DEF CountInv
<1>1. /\ flow \in [LBs -> Flows] /\ flow[l] \in Flows
      /\ flow[l].step \in {"entry", "update"}
  BY DEF TypeOK, DeleteNatPoolEntry, UpdateNatPoolDB
<1>2. blame = {} /\ ports' = ports /\ status' = status
  BY DEF DeleteNatPoolEntry, UpdateNatPoolDB
<1>3. HolderInv /\ AloneInv /\ RowCounts
  BY <1>2 DEF CountInv
<1>4. /\ flow'[l].step = "next" /\ flow'[l].add = flow[l].add
      /\ flow'[l].nat = flow[l].nat \ {flow[l].cur}
      /\ \A k \in LBs : k # l => flow'[k] = flow[k]
  BY <1>1 DEF DeleteNatPoolEntry, UpdateNatPoolDB, NatDone, Flows
<1>5. \A k \in LBs \ {l} : ~Inside(k)
  BY <1>1, <1>3 DEF AloneInv, Inside
<1>6. row = flow[l].read /\ row \in Rows \cup {NoRow} /\ NoRow \notin Rows
  BY <1>1, <1>3 DEF AloneInv, Inside, TypeOK, Rows, NoRow
<1>7. AloneInv'
  BY <1>3, <1>4, <1>5 DEF AloneInv, Inside
<1>8. CASE DeleteNatPoolEntry(l)
  <2>1. users' = users \ {flow[l].cur} /\ flow[l].step = "entry"
    BY <1>8 DEF DeleteNatPoolEntry
  <2>2. HolderInv'
    BY <1>2, <1>3, <1>4, <2>1 DEF HolderInv
  <2>3. CASE row = NoRow
    <3>1. row' = row /\ users = {} /\ users' = {}
      BY <1>3, <1>6, <1>8, <2>1, <2>3 DEF DeleteNatPoolEntry, RowCounts
    <3> QED
      BY <1>3, <1>7, <2>2, <3>1 DEF RowCounts
  <2>4. CASE row # NoRow
    <3>1. flow[l].cur \in users /\ row \in Rows
      BY <1>3, <1>6, <2>1, <2>4 DEF AloneInv
    <3>2. Cardinality(users') = Cardinality(users) - 1
      BY <2>1, <3>1, UsersFinite
    <3>3. CASE row.count > 1
      <4>1. row' = [row EXCEPT !.count = row.count - 1]
        BY <1>6, <1>8, <2>4, <3>3 DEF DeleteNatPoolEntry
      <4>2. row'.count = row.count - 1 /\ row'.port = row.port /\ row'.port # 0
        BY <3>1, <4>1, ShapeAssumption DEF Rows
      <4>3. users # {flow[l].cur} /\ users' # {}
        BY <1>3, <2>1, <3>3, UsersFinite DEF RowCounts
      <4>4. row.port \in ports
        BY <1>3, <1>5, <3>1, <4>3 DEF RowCounts, Inside
      <4> QED
        BY <1>2, <1>3, <1>7, <2>2, <3>2, <4>2, <4>3, <4>4 DEF RowCounts, NoRow
    <3>4. CASE ~ (row.count > 1)
      <4>1. row' = NoRow
        BY <1>6, <1>8, <2>4, <3>4 DEF DeleteNatPoolEntry
      <4>2. Cardinality(users) = 1
        BY <1>3, <3>1, <3>4 DEF RowCounts, Rows
      <4>3. users' = {}
        <5>1. IsFiniteSet(users')
          BY <2>1, UsersFinite, FS_Subset
        <5> QED
          BY <3>2, <4>2, <5>1, FS_EmptySet
      <4> QED
        BY <1>7, <2>2, <3>2, <4>1, <4>2, <4>3 DEF RowCounts, NoRow
    <3> QED
      BY <3>3, <3>4
  <2> QED
    BY <2>3, <2>4
<1>9. CASE UpdateNatPoolDB(l)
  <2>1. /\ users' = users \cup {flow[l].cur} /\ flow[l].step = "update"
        /\ FlowOk(l, flow[l])
    BY <1>9 DEF UpdateNatPoolDB, FlowInv
  <2>2. /\ flow[l].cur \in flow[l].add \cap flow[l].nat
        /\ flow[l].cur \in Members /\ LbOf[flow[l].cur] = l
    BY <2>1 DEF FlowOk, MembersOf
  <2>3. flow[l].cur \notin users /\ status[flow[l].cur] # "NONE"
    BY <1>3, <2>2 DEF HolderInv, FlowInv
  <2>4. Cardinality(users') = Cardinality(users) + 1
    BY <2>1, <2>3, UsersFinite
  <2>5. HolderInv'
    <3>1. \A k \in LBs : k # l => flow[l].cur \notin flow[k].add
      BY <2>2 DEF FlowInv, FlowOk, MembersOf
    <3> QED
      BY <1>2, <1>3, <1>4, <2>1, <2>3, <3>1 DEF HolderInv
  <2>6. CASE row = NoRow
    <3>1. row' = [port |-> flow[l].port, count |-> 1]
      BY <1>6, <1>9, <2>6 DEF UpdateNatPoolDB
    <3>2. flow[l].port \in ports /\ flow[l].port # 0
      BY <1>3, <1>6, <2>1, <2>6 DEF AloneInv, FlowOk
    <3>3. Cardinality(users) = 0
      BY <1>3, <2>6, UsersFinite DEF RowCounts
    <3> QED
      BY <1>2, <1>7, <2>1, <2>4, <2>5, <3>1, <3>2, <3>3 DEF RowCounts, NoRow
  <2>7. CASE row # NoRow
    <3>1. row' = [row EXCEPT !.count = row.count + 1] /\ row \in Rows
      BY <1>6, <1>9, <2>7 DEF UpdateNatPoolDB
    <3>2. row'.count = row.count + 1 /\ row'.port = row.port /\ row'.port # 0
      BY <3>1, ShapeAssumption DEF Rows
    <3>3. users # {} /\ ~ \E k \in LBs : flow[k].step = "entry"
      BY <1>3, <1>5, <2>1, <2>7 DEF RowCounts, Inside
    <3>4. row.port \in ports
      BY <1>3, <3>3 DEF RowCounts
    <3> QED
      BY <1>2, <1>3, <1>7, <2>1, <2>4, <2>5, <3>2, <3>4 DEF RowCounts, NoRow
  <2> QED
    BY <2>6, <2>7
<1> QED
  BY <1>8, <1>9

LEMMA NextCount == TypeOK /\ FlowInv /\ CountInv /\ [Next]_vars => CountInv'
<1> SUFFICES ASSUME TypeOK, FlowInv, CountInv, [Next]_vars
             PROVE  CountInv'
  OBVIOUS
<1>0. flow \in [LBs -> Flows] /\ \A l \in LBs : flow[l] \in Flows
  BY DEF TypeOK
<1>1. ASSUME NEW l \in LBs, NEW r \in Flows, GoodRequest(l, r), Admit(l, r)
      PROVE  CountInv'
  <2>1. flow[l].step = "idle"
    BY <1>1, IdleShape DEF Admit
  <2>2. \A m \in Members : status'[m] = "NONE" => status[m] = "NONE"
    BY <1>1 DEF Admit
  <2> QED
    BY <1>1, <2>1, <2>2, QuietCount DEF Admit, GoodRequest
<1>2. ASSUME NEW l \in LBs, ChangeListener(l)
      PROVE  CountInv'
  BY <1>2 DEF ChangeListener, CountInv, HolderInv, AloneInv, RowCounts, Inside
<1>3. ASSUME NEW l \in LBs, Begin(l)
      PROVE  CountInv'
  <2> DEFINE f == [flow[l] EXCEPT !.step = "next"]
  <2>1. f \in Flows /\ f.step = "next" /\ f.add = flow[l].add /\ f.nat = flow[l].nat
    BY <1>0 DEF Flows
  <2>2. flow' = [flow EXCEPT ![l] = f] /\ flow[l].step = "queued"
    BY <1>0, <1>3 DEF Begin, Flows
  <2> HIDE DEF f
  <2> QED
    BY <1>3, <2>1, <2>2, QuietCount DEF Begin
<1>4. ASSUME NEW gone \in SUBSET Members, DeleteRows(gone)
      PROVE  /\ blame \subseteq blame'
             /\ \A m \in Members : status'[m] = "NONE" =>
                    status[m] = "NONE" \/ m \notin users \/ blame' # {}
  BY <1>4 DEF DeleteRows
<1>5. ASSUME NEW l \in LBs, NEW m \in Members, Work(l, m)
      PROVE  CountInv'
  <2> DEFINE f == [flow[l] EXCEPT !.work = @ \ {m}]
  <2>1. f \in Flows /\ f.step = "next" /\ f.add = flow[l].add /\ f.nat = flow[l].nat
    BY <1>0, <1>5 DEF Flows, Work
  <2>2. flow' = [flow EXCEPT ![l] = f] /\ flow[l].step = "next"
    BY <1>0, <1>5 DEF Work, Flows
  <2>3. /\ blame \subseteq blame'
        /\ \A n \in Members : status'[n] = "NONE" =>
               status[n] = "NONE" \/ n \notin users \/ blame' # {}
    BY <1>4, <1>5 DEF Work, TypeOK
  <2> HIDE DEF f
  <2> QED
    BY <1>5, <2>1, <2>2, <2>3, QuietCount DEF Work
<1>6. ASSUME NEW l \in LBs, Finish(l)
      PROVE  CountInv'
  <2>1. /\ blame \subseteq blame'
        /\ \A n \in Members : status'[n] = "NONE" =>
               status[n] = "NONE" \/ n \notin users \/ blame' # {}
    <3>1. flow[l].drop \in SUBSET Members /\ {} \in SUBSET Members
      BY <1>0 DEF Flows
    <3> QED
      BY <1>4, <1>6, <3>1 DEF Finish
  <2> QED
    BY <1>6, <2>1, IdleShape, QuietCount DEF Finish
<1>7. ASSUME NEW l \in LBs, Fail(l)
      PROVE  CountInv'
  <2>1. /\ blame \subseteq blame'
        /\ \A n \in Members : status'[n] = "NONE" => status[n] = "NONE"
        /\ flow[l].step = "entry" /\ flow[l].read.count = 1 => blame' # {}
    BY <1>7 DEF Fail
  <2> QED
    BY <1>7, <2>1, IdleShape, QuietCount DEF Fail
<1>8. ASSUME NEW l \in LBs, Worker(l)
      PROVE  CountInv'
  <2>1. flow[l].add \subseteq Members /\ flow[l].drop \subseteq Members
    BY <1>0 DEF Flows
  <2> QED
    BY <1>3, <1>5, <1>6, <1>7, <1>8, <2>1, GetCount, ReleaseCount, ReserveCount, WriteCount
       DEF Worker, Take, GiveBack
<1>9. CASE UNCHANGED vars
  BY <1>9 DEF vars, CountInv, HolderInv, AloneInv, RowCounts, Inside
<1> QED
  BY <1>1, <1>2, <1>8, <1>9, ApiShape DEF Next

\* As long as no two flows were between reading and writing the row at once,
\* every member gave back what it took and nothing else, and no call failed
\* between port and row, the count of UpdateNatPoolDB and DeleteNatPoolEntry
\* is the number of members that use the pool, and only the deletion of the
\* last of them releases its port.
THEOREM UsersCounted == Spec => []UsersKeepPool
<1>1. TypeOK /\ FlowInv /\ CountInv /\ [Next]_vars => (TypeOK /\ FlowInv /\ CountInv)'
  BY NextFlows, NextCount
<1>2. CountInv => UsersKeepPool
  BY DEF CountInv, RowCounts, UsersKeepPool
<1> QED
  BY <1>1, <1>2, InitFlows, InitCount, PTL DEF Spec
=============================================================================

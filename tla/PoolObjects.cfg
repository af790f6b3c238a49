SPECIFICATION Spec
CONSTANTS
    l1 = l1  l2 = l2  l3 = l3  p1 = p1  p2 = p2  p3 = p3
    v1 = v1  v2 = v2  s1 = s1  s2 = s2
    LBs = {l1, l2, l3}
    Pools = {p1, p2, p3}
    Servers = {v1, v2}
    LbOf <- MCLbOf
    ProjectOf <- MCProjectOf
    Default = {p1, p2, p3}
    Proxied = {p1, p2, p3}
    ServersOf <- MCServersOf
    Slots = {s1, s2}
    Scenes <- MCScenes
    None = None
SYMMETRY Symmetry
CONSTRAINT NoneOverlapped
INVARIANTS
    TypeOK
    ActivePoolServed
    ActiveMonitorChecks
    NoOrphanPool
CHECK_DEADLOCK FALSE

SPECIFICATION Spec
CONSTANTS
    l1 = l1  l2 = l2  p1 = p1  p2 = p2  m1 = m1  m2 = m2  m3 = m3
    a1 = a1  w80 = w80  w81 = w81
    LBs = {l1, l2}
    Pools = {p1, p2}
    Members = {m1, m2, m3}
    Addrs = {a1}
    Ports = {w80, w81}
    LbOf <- MCLbOf
    PoolOf <- MCPoolOf
    AddrOf <- MCAddrOf
    PortOf <- MCPortOf
    NlbaasMemberNames = FALSE
    Ops <- Creations
    None = None
PROPERTIES
    FailedCreateSparesOthers
CHECK_DEADLOCK FALSE

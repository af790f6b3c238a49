SPECIFICATION Spec
CONSTANTS
    l1 = l1  l2 = l2  m1 = m1  m2 = m2  m3 = m3
    LBs = {l1, l2}
    Members = {m1, m2, m3}
    LbOf <- MCLbOf
    MaxPorts = 2
    None = None
SYMMETRY Symmetry
CONSTRAINT Bounds
INVARIANTS
    TypeOK
    UsersKeepPool
    NoPortLeft
CHECK_DEADLOCK FALSE

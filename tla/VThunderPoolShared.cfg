SPECIFICATION Spec
CONSTANTS
    a1 = a1
    a2 = a2
    a3 = a3
    b1 = b1
    A = A
    B = B
    ProjectOf <- OfProject
    None = None
    Projects = {A, B}
    LBs = {a1, b1}
    Computes = {c1, c2}
    Ops = {"CREATE"}
    PoolSize = 1
    MayRemain = {}
    MayBeStale = {}
SYMMETRY Symmetry
INVARIANTS
    TenantsShareNoDevice
\* the system rests when every load balancer is deleted
CHECK_DEADLOCK FALSE

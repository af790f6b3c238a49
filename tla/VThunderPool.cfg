SPECIFICATION FairSpec
CONSTANTS
    a1 = a1
    a2 = a2
    b1 = b1
    a3 = a3
    A = A
    B = B
    ProjectOf <- OfProject
    None = None
    Projects = {A}
    LBs = {a1, a2}
    Computes = {c1, c2}
    Ops = {"CREATE", "UPDATE", "DELETE"}
    PoolSize = 0
    MayRemain = {c1, c2}
    MayBeStale = {}
INVARIANTS
    TypeOK
    ActiveLbHasDevice
    NoOrphanDevice
PROPERTIES
    BootsOnlyWithoutActiveLb
    PendingEnds
\* the system rests when every load balancer is deleted
CHECK_DEADLOCK FALSE

SPECIFICATION Spec
CONSTANTS
    a1 = a1
    a2 = a2
    a3 = a3
    b1 = b1
    A = A
    B = B
    ProjectOf <- OfProject
    None = None
    Projects = {A, B}
    LBs = {a1, a2, b1}
    Computes = {c1, c2, c3}
    Ops = {"CREATE"}
    PoolSize = 1
    MayRemain = {}
    MayBeStale = {c1, c2, c3}
SYMMETRY Symmetry
INVARIANTS
    PoolNotOverfilled
    SharedSparesWereRaced
\* the system rests when every load balancer is deleted
CHECK_DEADLOCK FALSE

SPECIFICATION Spec
CONSTANTS
    l1 = l1  l2 = l2  t1 = t1  t2 = t2
    LBs = {l1, l2}
    Threads = {t1, t2}
    MaxClock = 2
    MaxChanges = 2
    None = None
SYMMETRY Symmetry
CONSTRAINT Bounds
INVARIANTS
    TypeOK
    ChangeFound
    LossFound
PROPERTIES
    HousekeeperSparesRequests
CHECK_DEADLOCK FALSE

SPECIFICATION Spec
CONSTANTS
    t1 = t1
    t2 = t2
    t3 = t3
    w1 = w1
    w2 = w2
    Threads = {t1, t2, t3}
    Workers = {w1, w2}
    WorkerOf <- TwoProcesses
    Projects = {p1, p2}
    AmpBusyWaitSec = 5
    MayCrash = {w1}
    CrashInSection = TRUE
    Free = Free
    NoRequest = NoRequest
SYMMETRY Symmetry
INVARIANTS
    TypeOK
    ReloadRunsAlone
    CountersMatchHolds
    BusyRequestStandsDown
    CountersNeverReset
PROPERTIES
    OneReleasePerHold
    ImplementsReadersWriters
\* a process killed while it holds ctx_lock blocks every other one for ever
CHECK_DEADLOCK FALSE

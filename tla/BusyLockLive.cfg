SPECIFICATION FairSpec
CONSTANTS
    t1 = t1
    t2 = t2
    t3 = t3
    w1 = w1
    w2 = w2
    Threads = {t1, t2, t3}
    Workers = {w1, w2}
    WorkerOf <- TwoProcesses
    Projects = {p1}
    AmpBusyWaitSec = 3
    MayCrash = {w1}
    CrashInSection = FALSE
    Free = Free
    NoRequest = NoRequest
PROPERTIES
    EveryRequestReturns
    ReloadHoldEnds

CONSTANTS
    c1 = c1
    c2 = c2
    c3 = c3
    p1 = p1
    p2 = p2
    p3 = p3
    NoOne = NoOne
    Callers = {c1, c2, c3}
    Pids = {p1, p2, p3}
    PidOf <- OneEach
    MaxFaults = 1
    ExitDuringProbe = FALSE

SPECIFICATION FairSpec
INVARIANTS
    TypeOK
    MutualExclusion
    LockInv
PROPERTIES
    LiveLockKept
    MutexSpec
    BoundedWait
    DeadOwnerRecovered

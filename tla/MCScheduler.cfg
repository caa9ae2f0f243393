\* Two replicas and a lock of two units that can expire while it is held.
SPECIFICATION Spec
CONSTANTS
    j1 = j1
    j2 = j2
    t1 = t1
    t2 = t2
    t3 = t3
    NoToken = NoToken
    Job <- MCJob
    Token <- MCToken
    LockTTL = 2
    TryTimeout = 1
    UnlockTimeout = 1
INVARIANTS
    TypeOK
    WorksUnderLock
    OverlapNeedsStall
PROPERTIES
    JobKeepsRunning

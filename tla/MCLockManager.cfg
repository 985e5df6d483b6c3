SPECIFICATION MCSpec
CONSTANTS
    t1 = t1
    t2 = t2
    t3 = t3
    NoFilename = NoFilename
    Task = {t1, t2, t3}
    Plan <- Plans
    Name <- Names
    Path <- Paths
INVARIANTS
    NoDeadlock
    MutualExclusion
    WaiterIsBlockedByOther
    BodyIsLocked
    NoLeakedHolder
PROPERTIES
    EveryTaskFinishes
    ImplementsSubtreeLock

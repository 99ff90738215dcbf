CONSTANTS
    t1 = t1
    t2 = t2
    t3 = t3
    m1 = m1
    m2 = m2
    NoThread = NoThread
    NoMutex = NoMutex
    Threads <- MCThreads
    InitPrio <- MCPrio
    Mutexes = {m1, m2}
    NoPrio = 4
    HoldMax = 2
    Ceilings = {2}
    Rounds = 12
    WaitsEnd = TRUE
    Detaches = TRUE
    Deletes = TRUE
SPECIFICATION MutexSpec
INVARIANTS MutexTypeOK OwnershipAgrees InheritanceHolds
PROPERTIES RefinesLock DueKept
CHECK_DEADLOCK FALSE
SYMMETRY MCSymmetry

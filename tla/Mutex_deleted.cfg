CONSTANTS
    t1 = t1
    t2 = t2
    t3 = t3
    m1 = m1
    m2 = m2
    NoThread = NoThread
    NoMutex = NoMutex
    Threads <- MCPair
    InitPrio <- MCPairPrio
    Mutexes = {m1}
    NoPrio = 3
    HoldMax = 2
    Ceilings = {}
    Rounds = 6
    WaitsEnd = TRUE
    Detaches = FALSE
    Deletes = TRUE
SPECIFICATION MutexSpec
INVARIANTS GoneOwnNothing
CHECK_DEADLOCK FALSE

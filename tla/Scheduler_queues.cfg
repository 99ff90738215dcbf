CONSTANTS
    idle = idle
    a = a
    b = b
    c = c
    Threads <- MCThreads
    Idle = idle
    Main = b
    PrioMax = 3
    InitPrio <- MCPrio
    Slice <- MCSlice
    Repriority = TRUE
    Ends = TRUE
    Suspends = TRUE
    NestMax = 2
SPECIFICATION FairSpec
INVARIANTS TypeOK QueuesAgree
PROPERTIES LockKeepsProcessor NoForgottenSwitch EqualsTakeTurns
CHECK_DEADLOCK FALSE

CONSTANTS
    t1 = t1
    t2 = t2
    a = a
    b = b
    NoThread = NoThread
    Threads <- MCPair
    InitPrio <- MCPairPrio
    Flag = "PRIO"
    Bits = {a, b}
    Demands <- MCAll
SPECIFICATION Spec
INVARIANTS TypeOK NoFlagLost ServedAsAsked
CHECK_DEADLOCK FALSE

CONSTANTS
    t1 = t1
    t2 = t2
    v1 = v1
    v2 = v2
    s1 = s1
    s2 = s2
    NoThread = NoThread
    Null = Null
    NoMessage = NoMessage
    Threads <- MCThreads
    InitPrio <- MCPrio
    Flag = "FIFO"
    Size = 2
    Slots = {s1, s2}
    Messages = {v1, v2}
SPECIFICATION MCSpec
INVARIANTS TypeOK ChainsSound NobodyForgotten BoxTypeOK BoxNobodyForgotten
PROPERTIES RefinesQueue BoxRefinesQueue
SYMMETRY MCSymmetry
CHECK_DEADLOCK FALSE

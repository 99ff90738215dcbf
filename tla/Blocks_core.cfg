CONSTANTS
    t1 = t1
    t2 = t2
    b1 = b1
    b2 = b2
    b3 = b3
    NoThread = NoThread
    NoBlock = NoBlock
    NoItem = NoBlock
    Isr = Isr
    Threads <- MCThreads
    Blocks <- MCBlocks
    InitPrio <- MCPrio
    Size = 2
    Lwm = 0
SPECIFICATION Spec
INVARIANTS TypeOK BlocksExclusive NobodyForgotten
PROPERTIES RefinesQueue
SYMMETRY MCSymmetry
CHECK_DEADLOCK FALSE

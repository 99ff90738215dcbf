CONSTANTS
    t1 = t1
    t2 = t2
    t3 = t3
    NoThread = NoThread
    Threads <- MCPair
    InitPrio <- MCPairPrio
    Priorities = {1, 2}
    Flag = "PRIO"
    ValueMax = 2
    InitValue = 1
    BalanceMax = 5
SPECIFICATION FairSpec
INVARIANTS TypeOK TakersServed
PROPERTIES OrderKept TimedTakeReturns
CHECK_DEADLOCK FALSE

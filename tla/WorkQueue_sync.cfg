CONSTANTS
    w1 = w1
    w2 = w2
    c1 = c1
    None = None
    Works <- MCWorks
    Cancellers = {c1}
    Delays = {1, 2}
    Ticks = 8
    MaxLate = 1
SPECIFICATION Spec
INVARIANTS SyncSleeperIsAwaited
CHECK_DEADLOCK FALSE

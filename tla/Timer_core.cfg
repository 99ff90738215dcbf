CONSTANTS
    h = h
    s1 = s1
    s2 = s2
    Off = Off
    Timers <- MCTimers
    Soft = {s1, s2}
    Times = {1, 2}
    Ticks = 8
    MaxLate = 1
SPECIFICATION TimerSpec
INVARIANTS TimerTypeOK RunsAsAsked OverdueIsAnnounced
PROPERTIES KeepsDeadlines
SYMMETRY MCSymmetry

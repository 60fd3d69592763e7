SPECIFICATION TimerFairSpec
CONSTANTS
    Timer = {t1, t2}
    Timeouts = {1, 2}
    MaxStart = 1
    MaxTime = 3
INVARIANTS
    WaitingIsArmed
PROPERTIES
    NotCalledEarly
    TimerEnds

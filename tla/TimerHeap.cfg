SPECIFICATION HeapSpec
CONSTANTS
    Signal = {s1, s2, s3, s4, s5, s6}
    Delays = {0, 1, 2, 3}
    MaxTime = 4
SYMMETRY Symmetry
INVARIANTS
    SleepExact
    NothingLost

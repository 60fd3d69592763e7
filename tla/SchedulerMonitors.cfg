SPECIFICATION Spec
CONSTANTS
    Coro = {c1, c2}
    Signal = {s1, s2}
    Monitor = {m1, m2}
    NoCoro = NoCoro
    NoSignal = NoSignal
    WaitArrays <- DistinctArrays
    MaxWaits = 1
SYMMETRY Symmetry
INVARIANTS
    MonitorsExact

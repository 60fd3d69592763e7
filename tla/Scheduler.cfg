SPECIFICATION Spec
CONSTANTS
    Coro = {c1, c2}
    Signal = {s1, s2, s3}
    Monitor = {}
    NoCoro = NoCoro
    NoSignal = NoSignal
    WaitArrays <- DistinctArrays
    MaxWaits = 2
SYMMETRY Symmetry
INVARIANTS
    TypeOK
    ScheduledOnce
    WakeAccounting
    SignalsHaveLivingOwner
    ExitHandlersValid
    CountersExact
    NothingAbandoned
PROPERTIES
    WakeJustified

SPECIFICATION FairSpec
CONSTANTS
    Item = {a, b}
    Size = 2
    IndexMod = 4
INVARIANTS
    NoLostWakeup
PROPERTIES
    ImplementsFifo
    CallReturns

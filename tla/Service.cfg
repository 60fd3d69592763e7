SPECIFICATION FairSpec
CONSTANTS
    Client = {c1, c2}
    Capacity = 1
    MaxCalls = 2
    NoMsg = NoMsg
INVARIANTS
    OutcomeExact
PROPERTIES
    ClientsReturn
CHECK_DEADLOCK FALSE

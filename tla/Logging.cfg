SPECIFICATION FairSpec
CONSTANTS
    Client = {c1, c2}
    Daemon = {c2}
    Logger = {l1, l2}
    Level = {0, 1}
    Capacity = 2
    MaxMsgs = 3
INVARIANTS
    DanglingOnlyOnOverlap
    TakenIsWritten
PROPERTIES
    LoggingEnds
CHECK_DEADLOCK FALSE

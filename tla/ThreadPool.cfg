SPECIFICATION FairSpec
CONSTANTS
    Job = {j1,j2,j3}
    NumThreads = 2
    QueueSize = 1
    MaxWaiters = 2
    Terminate = Terminate
    NoJob = NoJob
INVARIANTS
    LoadExact
    NoLostNotification
PROPERTIES
    JobSignalled
    CleanupReturns

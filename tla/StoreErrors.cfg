CONSTANTS
    s1 = s1
    s2 = s2
    Sensors <- MCSensors
    Time <- MCTime
    Statuses <- MCStatuses
    Incoming <- MCIncoming
    NumGpus = 1
    AutoRollback = FALSE
    MaxMessages = 2
    MaxPolls = 1
    MaxErrors = 1
    MaxCrashes = 0
SPECIFICATION FairSpec
CHECK_DEADLOCK FALSE
INVARIANTS
    RejectedLeavesNothing
    SamplesCovered
PROPERTIES
    AtomicSpec
    TransactionEnds
    AckedReachesFile

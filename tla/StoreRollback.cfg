CONSTANTS
    s1 = s1
    s2 = s2
    Sensors <- MCSensors
    Time <- MCTime
    Statuses <- MCStatuses
    Incoming <- MCRowMessages
    NumGpus = 1
    AutoRollback = TRUE
    MaxMessages = 2
    MaxPolls = 1
    MaxErrors = 1
    MaxCrashes = 1
SPECIFICATION Spec
CHECK_DEADLOCK FALSE
INVARIANTS
    TypeOK
    TransactionOwned
    AcceptedIsCommitted
    SamplesCatalogued
    AckedIsDurable
PROPERTIES
    NeverForgets

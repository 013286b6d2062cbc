CONSTANTS
    s1 = s1
    s2 = s2
    Sensors <- MCSensors
    Time <- MCTime
    Statuses <- MCStatuses
    Incoming <- MCIncoming
    HardwareType <- MCHardwareType
    SensorType <- MCSensorType
    Named <- MCNamed
    AnyType = AnyType
    Asked <- MCAsked
    DefaultLimit = 2
    LargestLimit = 2
    NumGpus = 0
    AutoRollback = FALSE
    MaxMessages = 3
    MaxPolls = 0
    MaxErrors = 1
    MaxCrashes = 0
    MaxFaults = 1
SPECIFICATION ApiSpec
CHECK_DEADLOCK FALSE
INVARIANTS
    ApiTypeOK
    AnswersAreComplete
    AnswersAgree
    ShownIsStored
PROPERTIES
    PushArrives

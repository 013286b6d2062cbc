CONSTANTS
    NumGpus = 2
    NumDevices = 3
    Bus <- MCBus
    MinInterval <- MCMinInterval
    Modes <- MCFastFull
    DriverFails = FALSE
    MaxNow = 14
    AppNow = 3
    Interval = 5
    MaxDelay = 2
    None = None
SPECIFICATION ClientSpec
CONSTRAINT ListedInOrder
CHECK_DEADLOCK FALSE
INVARIANTS
    TypeOK
    OwnDevice
    WholeRows
    SampleIsFresh
    LibrariesReleased
PROPERTIES
    RefusedOnlyWhenRead

CONSTANTS
    NumGpus = 2
    NumDevices = 3
    Bus <- MCBus
    MinInterval <- MCMinInterval
    Modes <- MCFull
    DriverFails = FALSE
    MaxNow = 0
    None = None
SPECIFICATION Spec
CHECK_DEADLOCK FALSE
INVARIANT
    IndexOnlyWithoutBusId

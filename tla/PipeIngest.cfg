CONSTANTS
    s1 = s1
    s2 = s2
    Sensors <- MCSensor
    Time <- MCTime
    Statuses <- MCStatuses
    Incoming <- MCIncoming1
    HardwareOrder <- MCOrder1
    WireCapacity = 4
    MaxFaults = 2
SPECIFICATION FairSpec
INVARIANTS
    TypeOK
    HelloThenCatalog
    ReaderWaitsForRest
PROPERTIES
    DeliverySpec
    SamplesArrive
    ComesBack

CONSTANTS
    s1 = s1
    s2 = s2
    Sensors <- MCSensors
    Time <- MCTime
    Statuses <- MCStatuses
    Incoming <- MCIncoming
    HardwareOrder <- MCOrder
    WireCapacity = 3
    MaxFaults = 1
SPECIFICATION Spec
INVARIANTS
    SampledAreAnnounced

CONSTANTS
    Starts <- MCStarts
    Years <- MCYears
    NoStamp = NoStamp
    Times <- MCTimes
    Fractions <- MCFractions
    Zones <- MCZones
    Machines <- MCMachines
    AlteredMachines <- MCAltered
    MessageDates <- MCMessageDates
    Uptimes = {0, 1001}
    IntMax = 1000
    Oddities <- MCOddities
    NoValue = NoValue
SPECIFICATION WireSpec
CHECK_DEADLOCK FALSE
INVARIANTS
    TypeOK
    ReadsTheInstant
    MeansWhatWasBuilt
    OneFieldAway

CONSTANTS
    Readings <- MCReadings
    Requests <- MCRequests
    NumGpus = 2
    Interval = 1
    RoundDelay = 1
    AnswerDelay = 1
    Threshold = 3
    MaxClock = 5
    MaxPolls = 2
    MaxErrors = 1
    MaxRestarts = 1
    MaxRequests = 1
SPECIFICATION Spec
CONSTRAINT Unanswered
CHECK_DEADLOCK FALSE
INVARIANTS
    TypeOK
    NeverOverstates
    FitsIsRecent
    NoFalseStale

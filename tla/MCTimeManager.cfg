SPECIFICATION FairSpec
CONSTANTS
    N = 3
    SectionOf <- MCSectionOf
    PartOf <- MCPartOf
    MaxTime <- MCMaxTime
    MinTime <- MCMinTime
    AllowLate <- MCAllowLate
    WarningThreshold = 0
    Submitted <- MCSubmitted
    ClockStart = 1
    Span = 4
INVARIANTS
    TypeOK
    ScopesAddUp
    StoppedByHardLimit
PROPERTIES
    KeepsStopwatch
    MarkedWhenPassed
    ExpiryNoticed
CHECK_DEADLOCK FALSE

SPECIFICATION TimedSpec
CONSTANTS
    N = 2
    SectionOf <- MCSectionOf
    PartOf <- MCPartOf
    MaxTime <- MCMaxTime
    MinTime <- MCMinTime
    AllowLate <- MCAllowLate
    WarningThreshold = 1
    Submitted = {}
    ClockStart = 1
    Span = 4
PROPERTIES
    LateRefused
CHECK_DEADLOCK FALSE

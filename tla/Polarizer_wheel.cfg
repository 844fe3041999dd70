CONSTANTS
    Turn = 36
    PerStep = 1
    EdgeToCenter = 1
    CloseMin = 2
    CloseMax = 5
    ExtraCenter = 20
    Half <- MCHalf
    Tolerance = 1
    Starts = {3, 20}
    Angles = {12, 24}
    SpinAttempts = 2
    NotchAttempts = 5
    MaxRequests = 2
    MaxFaults = 1
SPECIFICATION FairSpec
INVARIANTS
    ReportedIsThere
    CalibrationMeasuresItsBump
PROPERTIES
    CommandsEnd
CHECK_DEADLOCK FALSE

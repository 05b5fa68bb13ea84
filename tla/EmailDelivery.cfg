SPECIFICATION FairSpec
CONSTANTS
    Grid = grid
    FR24 = fr24
    OperatingPhase <- MCPhases
    MaxEvents = 2
    MaxAttempts = 2
    Batch = 1
    DailyCap = 1
    MaxCrashes = 1
    None = None
INVARIANTS TypeOK CapOvershoot OnlyLiveIsMailed NoDuplicate
PROPERTIES Settles
CHECK_DEADLOCK FALSE

SPECIFICATION Spec
CONSTANTS
    Grid = grid
    FR24 = fr24
    RegionOf <- MCRegionOf
    Provider <- MCProvider
    Region <- MCRegion
    Pos = {0, 1}
    Area = {1}
    Radius = 1
    OutsideConfirm = 2
    StopObservations = 2
    StopDuration = 1
    GoneObservations = 2
    GonePolls = 2
    None = None
    Report <- MCReport
    MaxAge = 1
    MaxTime = 2
    MaxMissing = 2
    MaxCrashes = 1
INVARIANTS TypeOK RowCoherent FlagsBacked
PROPERTIES CountsOnTop CountsCoveredRegion
CHECK_DEADLOCK FALSE

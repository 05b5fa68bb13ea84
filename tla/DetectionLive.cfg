SPECIFICATION FairSpec
CONSTANTS
    Grid = grid
    FR24 = fr24
    RegionOf <- MCRegionOf
    Provider <- MCProvider
    Region <- MCRegion
    Pos = {0, 1}
    Area = {1}
    Radius = 1
    OutsideConfirm = 2
    StopObservations = 2
    StopDuration = 1
    GoneObservations = 1
    GonePolls = 2
    None = None
    Report <- MCReport
    MaxAge = 1
    MaxTime = 1
    MaxMissing = 2
    MaxCrashes = 1
PROPERTIES GoneReported
CHECK_DEADLOCK FALSE

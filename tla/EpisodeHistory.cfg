SPECIFICATION Spec
CONSTANTS
    Pos <- MCPos
    Area <- MCArea
    Radius = 1
    Provider = {grid}
    Region = {region}
    OutsideConfirm = 2
    StopObservations = 2
    StopDuration = 2
    GoneObservations = 2
    GonePolls = 2
    None = None
    Report <- MCReport
    MaxTime = 4
    MaxMissing = 2
INVARIANTS StopJustified NoStopMissed GoneJustified
PROPERTIES ClosureConfirmed
CHECK_DEADLOCK FALSE

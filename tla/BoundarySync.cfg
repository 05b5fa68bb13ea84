SPECIFICATION FairSpec
CONSTANTS
    Territory = {t1, t2}
    icmbio = icmbio
    cnuc = cnuc
    u1 = u1
    x1 = x1
    Source = {icmbio, cnuc}
    Watched = u1
    UnitOf <- MCUnitOf
    MinTerritories = 1
    MaxQueryRegions = 2
    AutoSelectAll = FALSE
    AutoSelectNew = TRUE
    Backoff <- MCBackoff
    Interval = 3
    MaxAge = 3
    MaxFaults = 1
INVARIANTS TypeOK RegionsMatch ChoicesKept
PROPERTIES OneMapPerCycle AttemptsApart SyncRetried

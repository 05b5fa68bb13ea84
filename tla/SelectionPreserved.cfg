SPECIFICATION Spec
CONSTANTS
    Territory = {t1, t2}
    icmbio = icmbio
    cnuc = cnuc
    u1 = u1
    x1 = x1
    Source = {icmbio, cnuc}
    Watched = u1
    UnitOf <- MCUnitOf
    MinTerritories = 1
    MaxQueryRegions = 1
    AutoSelectAll = FALSE
    AutoSelectNew = TRUE
    Backoff <- MCBackoff
    Interval = 2
    MaxAge = 2
    MaxFaults = 1
INVARIANTS SelectionPreserved

SPECIFICATION FairSpec
CONSTANTS
    Hex = {h1}
    Writers = {coverage, fr24}
    Times <- MCTimes
    Value = {opened, advanced, closed}
    Closed = {closed}
    NoRow = NoRow
    NoPayload = NoPayload
    NoSeq = NoSeq
    MaxSeq = 3
INVARIANTS TypeOK GuardSeesOwnRevision
PROPERTIES WritesAreAtomic NeverStaler NoSilentDrop FunnelEnds
CHECK_DEADLOCK FALSE

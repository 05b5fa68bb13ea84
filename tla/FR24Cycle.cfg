SPECIFICATION FairSpec
CONSTANTS
    Episode = {e1, e2}
    Flight = {f1}
    BudgetPolicy = "pause_fr24"
    OperatingBudget = 1
    MaxAttempts = 2
    None = None
    Cluster = {north}
    ResponseLimit = 2
    BatchSize = 1
    Tester = {t1, t2}
    Buyer = {b1}
    MaxCrashes = 1
    MaxUsed = 2
INVARIANTS TypeOK Overshoot TriesBounded
PROPERTIES SettledStays EnrichmentSettles

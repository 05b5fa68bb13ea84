SPECIFICATION Spec
CONSTANTS
    Episode = {e1, e2}
    Flight = {f1, f2}
    BudgetPolicy = "pause_fr24"
    OperatingBudget = 1
    MaxAttempts = 2
    None = None
    Request = {r1, r2}
    Event = {v1, v2}
    EpisodeOf <- MCEpisodeOf
    MaxCrashes = 1
    v1 = v1
    v2 = v2
    e1 = e1
    e2 = e2
SYMMETRY MCSymmetry
INVARIANTS TypeOK PaidOnce Overshoot

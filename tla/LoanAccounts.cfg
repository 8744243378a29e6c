SPECIFICATION Spec
CONSTANTS
    t1 = t1
    t2 = t2
    a1 = a1
    a2 = a2
    b1 = b1
    Tenants = {t1, t2}
    Applications = {a1, a2, b1}
    TenantOf <- MCTenantOf
    Wait <- MCWait
    Cooldown = 0
    AutoApprove = TRUE
    Term = 2
    Workers = {w1, w2}
    NoWorker = NoWorker
    Moments = {0, 5}
    LastPress = 0
    MaxPresses = 0
    MaxCrashes = 1
SYMMETRY
    MCSymmetry
INVARIANTS
    OneActiveAccount
    ClosedMeansPaid
CHECK_DEADLOCK FALSE

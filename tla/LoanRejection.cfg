SPECIFICATION Spec
CONSTANTS
    t1 = t1
    t2 = t2
    a1 = a1
    a2 = a2
    b1 = b1
    Tenants = {t1, t2}
    Applications = {a1}
    TenantOf <- MCTenantOf
    Wait <- MCWait
    Cooldown = 1
    AutoApprove = TRUE
    Term = 1
    Workers = {w1, w2}
    NoWorker = NoWorker
    Moments = {0, 2, 3, 5}
    LastPress = 0
    MaxPresses = 1
    MaxCrashes = 0
INVARIANT
    RejectedIsTerminal
CHECK_DEADLOCK FALSE

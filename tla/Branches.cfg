SPECIFICATION Spec
CONSTANTS
    Workers = {w1, w2}
    NoPin = NoPin
    NoEmail = NoEmail
    NoShop = NoShop
    NoBranch = NoBranch
    NoRow = NoRow
    Limits <- MCLimits
    MaxTracked = 2
    Lower <- MCLower
    Scenes <- MCScenes
    LastInstant = 4
    MaxRestarts = 1
    Week = 1
INVARIANTS
    StaffSound
    LimitsHold
    LeaderboardTrue
CHECK_DEADLOCK FALSE

SPECIFICATION Spec
CONSTANTS
    p1 = p1
    p2 = p2
    Products = {p1, p2}
    Channels = {inapp, push}
    Pushed = {push}
    MaxAttempts = 2
    Repeat = 1
    DayLength = 3
    NoQuiet = NoQuiet
    NoRow = NoRow
    Scenes <- MCScenes
    Edits <- MCEdits
    LastHour = 4
    MaxCrashes = 1
    Workers = {w1, w2}
    NoWorker = NoWorker
INVARIANTS
    DigestsSound
    DeliveriesBounded
PROPERTIES
    AlertsArrive
CHECK_DEADLOCK FALSE

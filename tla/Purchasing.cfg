SPECIFICATION FairSpec
CONSTANTS
    o1 = o1
    o2 = o2
    i1 = i1
    i2 = i2
    i3 = i3
    j1 = j1
    p1 = p1
    p2 = p2
    p3 = p3
    Orders = {o1, o2}
    Items = {i1, i2, i3, j1}
    Products = {p1, p2, p3}
    Tracked = {p1, p2}
    ItemsOf <- MCItemsOf
    Product <- MCProduct
    Qty <- MCQty
    Bodies <- MCBodies
    Tenant = Tenant
    NoOrder = NoOrder
    Workers = {w1, w2}
    NoWorker = NoWorker
    MaxRequests = 5
    MaxCrashes = 1
INVARIANTS
    TypeOK
    OrderNumbersGapFree
    StockFollowsDeliveries
    StatusTellsWhatCame
PROPERTIES
    SettledStaysUnlessOverlapped
    DeliveriesFinish
CHECK_DEADLOCK FALSE

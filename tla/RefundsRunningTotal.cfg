SPECIFICATION Spec
CONSTANTS
    s1 = s1
    s2 = s2
    i1 = i1
    i2 = i2
    i3 = i3
    i4 = i4
    i5 = i5
    p1 = p1
    p2 = p2
    p3 = p3
    all1 = all1
    most = most
    double = double
    both = both
    Sales = {s1, s2}
    Items = {i1, i2, i3, i4, i5}
    Products = {p1, p2, p3}
    Tracked = {p1, p2}
    ItemsOf <- MCItemsOf
    Product <- MCProduct
    Qty <- MCQty
    Cash <- MCCash
    Tax <- MCTax
    Grain = 10
    SaleTotal <- MCSaleTotal
    SaleTax <- MCSaleTax
    Bodies = {all1, most, both, double}
    NoBody = NoBody
    SaleOf <- MCSaleOf
    Wanted <- MCWanted
    Workers = {w1, w2}
    NoWorker = NoWorker
    Deltas <- MCDeltas
    MaxSubmits = 3
    MaxCrashes = 1
    MaxMoves = 1
INVARIANT
    RunningTotalKept
CHECK_DEADLOCK FALSE

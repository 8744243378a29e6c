SPECIFICATION FairSpec
CONSTANTS
    c1 = c1
    c2 = c2
    c3 = c3
    walkIn = walkIn
    empty = empty
    p1 = p1
    p2 = p2
    m1 = m1
    auto = auto
    coupon = coupon
    Carts = {c1, c2, c3, walkIn, empty}
    Products = {p1, p2}
    Customers = {m1}
    Promos = {auto, coupon}
    NoCustomer = NoCustomer
    Tracked = {p1}
    Lines <- MCLines
    Buyer <- MCBuyer
    Redeem <- MCRedeem
    Offers <- MCOffers
    Coupons <- MCCoupons
    Total <- MCTotal
    MaxUses <- MCMaxUses
    LoyaltyEnabled = TRUE
    PointValue = 1
    BahtPerPoint = 20
    OpeningStock <- MCOpeningStock
    OpeningPoints <- MCOpeningPoints
    Workers = {w1, w2}
    NoWorker = NoWorker
    NoCart = NoCart
    Tenant = Tenant
    Deltas = {5}
    MaxSubmits = 3
    MaxCrashes = 1
    MaxAdjusts = 1
INVARIANTS
    TypeOK
    ReceiptsGapFree
    OneSalePerCart
    StockMatchesLedger
    PointsMatchSales
    UsesMatchSales
    UsesOvershootBounded
    OverdraftBounded
PROPERTIES
    ImplementsSaleBook
    RequestsFinish
CHECK_DEADLOCK FALSE

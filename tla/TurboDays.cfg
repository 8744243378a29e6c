SPECIFICATION Spec
CONSTANTS
    rice = rice
    tea = tea
    ann = ann
    bob = bob
    Goods = {rice, tea}
    Methods = {"cash", "qr"}
    Staff = {ann, bob}
    DayLength = 3
    Offset = 1
    Week = 2
    Month = 3
    QtyScale = 6
    NoPercent = NoPercent
    Ltv <- MCLtv
    PremiumRate <- MCPremiumRate
    Handlers = {w1, w2}
    Days = {1, 2, 3}
    Reasons = {"sick", "holiday"}
    Claimable = {"sick"}
    NoClose = NoClose
    Cash = "cash"
    CashWeight <- MCCashWeight
    BenefitRatio <- MCBenefitRatio
    StreakRequired = 2
    Tiers <- MCTiers
    Grace = 0
    PaidInstallments <- MCPaid
    Covers <- MCCovers
    LoanRequests <- MCLoanRequests
    Books <- MCBooks
    Receipts <- MCReceipts
    FirstHour = 7
    LastHour = 8
SYMMETRY MCSymmetry
INVARIANTS
    ReportsAgree
    SchedulePaysOff
    ClaimsSound
CHECK_DEADLOCK FALSE

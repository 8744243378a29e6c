SPECIFICATION PromoSpec
CONSTANTS
    p1 = p1
    p2 = p2
    drinks = drinks
    SAVE = SAVE
    save = save
    Products = {p1, p2}
    Categories = {drinks}
    Category <- MCCategory
    NoCategory = NoCategory
    Price <- MCPrice
    Codes = {SAVE, save}
    NoCode = NoCode
    Upper <- MCUpper
    NoPrice = NoPrice
    VatRate = 7
    PriceIncludesTax = FALSE
    Ids = {1, 2, 3}
    Shelves <- MCShelves
    NewRules <- MCNewRules
    Edits <- MCEdits
    TargetLists <- MCTargetLists
    Keep = Keep
    Carts <- MCCarts
    NoRule = NoRule
    NoCart = NoCart
    NoAnswer = NoAnswer
    Workers = {w1, w2}
    NoWorker = NoWorker
    EditsFrom <- MCEditsFrom
    MaxCarts = 1
SYMMETRY MCSymmetry
INVARIANTS
    TargetsOfOneRequest
    BestPromotionWins
    NothingLostInTheSplit
CHECK_DEADLOCK FALSE

------------------------------ MODULE SaleTerms ------------------------------
(***************************************************************************)
(* The fixed data of the checkouts of one shop (tenant): what each queued  *)
(* checkout body asks for, what the promotion engine and calc_totals       *)
(* charge for it, and the sale row it becomes.  A checkout is named by its *)
(* client_uuid; a client that retries resends the same body.               *)
(***************************************************************************)
EXTENDS Sums, Sequences, FiniteSets

CONSTANTS
    Carts,         \* the client_uuids of the checkouts, one body each
    Products, Customers, Promos,
    NoCustomer,    \* customer_id left null
    Tracked,       \* the products with track_stock set
    Lines,         \* Lines[c]: the resolved lines of body c, paid and free-gift
    Buyer,         \* Buyer[c]: the customer named by body c
    Redeem,        \* Redeem[c]: redeem_points of body c
    Offers,        \* Offers[c]: promotions that match body c while still valid
    Coupons,       \* Coupons[c]: the promotion of Offers[c] its coupon_code names
    Total,         \* Total[c][applied]: totals.total; < 0: discounts exceed the price
    MaxUses,       \* MaxUses[k]: max_uses of promotion k
    LoyaltyEnabled,\* tenant.loyalty_enabled
    PointValue,    \* tenant.point_value_baht
    BahtPerPoint,  \* tenant.baht_per_point
    OpeningStock,  \* stock_qty of each product when the behaviour starts
    OpeningPoints  \* points_balance of each customer when the behaviour starts

ASSUME SetsAssumption ==
    /\ NoCustomer \notin Customers
    /\ Tracked \subseteq Products

ASSUME BodyAssumption ==
    /\ IsFiniteSet(Carts)
    /\ Lines \in [Carts -> Seq([product : Products, qty : Nat \ {0}])]
    /\ Buyer \in [Carts -> Customers \cup {NoCustomer}]
    /\ Redeem \in [Carts -> Nat]
    /\ Offers \in [Carts -> SUBSET Promos]
    /\ Coupons \in [Carts -> SUBSET Promos]
    /\ Total \in [Carts -> [SUBSET Promos -> Int]]
    /\ \A c \in Carts : Coupons[c] \subseteq Offers[c]

ASSUME ShopAssumption ==
    /\ MaxUses \in [Promos -> Nat]
    /\ LoyaltyEnabled \in BOOLEAN
    /\ PointValue \in Nat
    /\ BahtPerPoint \in Nat
    /\ OpeningStock \in [Products -> Int]
    /\ OpeningPoints \in [Customers -> Nat]

-----------------------------------------------------------------------------
\* What is left to pay once points have been taken as a tender after tax.
FinalTotal(c, applied) ==
    LET pointsWorth == PointValue * Redeem[c]
        total == Total[c][applied]
    IN  total - (IF pointsWorth < total THEN pointsWorth ELSE total)

PointsEarned(c, applied) ==
    IF LoyaltyEnabled /\ Buyer[c] # NoCustomer /\ BahtPerPoint > 0
    THEN FinalTotal(c, applied) \div BahtPerPoint
    ELSE 0

PointsDelta(c, applied) == PointsEarned(c, applied) - Redeem[c]

\* Every resolved line leaves the shelf, the free-gift lines too.
UnitsSold(c, p) ==
    IF p \in Tracked
    THEN Sigma([i \in DOMAIN Lines[c] |-> Lines[c][i].qty],
               {i \in DOMAIN Lines[c] : Lines[c][i].product = p})
    ELSE 0

\* The row of table sales, as far as the properties tell two sales apart.
SaleRow(c, receipt, applied) ==
    [uuid |-> c, receipt |-> receipt, applied |-> applied,
     earned |-> PointsEarned(c, applied), redeemed |-> Redeem[c]]

SaleRows ==
    [uuid : Carts, receipt : Nat \ {0}, applied : SUBSET Promos,
     earned : Int, redeemed : Nat]
=============================================================================

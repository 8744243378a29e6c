----------------------------- MODULE MCCheckout -----------------------------
(***************************************************************************)
(* Two handlers serve five bodies.  Three redeem the whole balance of one  *)
(* customer, so a points check that passed can be stale.  An automatic     *)
(* promotion good for one sale matches every body that has lines, and one  *)
(* body adds a coupon good for one.  One sells the same product on two     *)
(* lines, one sells a product whose stock is not tracked, one is a         *)
(* walk-in's and one has no lines.                                         *)
(***************************************************************************)
EXTENDS Checkout, TLC

CONSTANTS c1, c2, c3, walkIn, empty, p1, p2, m1, auto, coupon

Line(p, n) == [product |-> p, qty |-> n]

MCLines ==
    (c1 :> <<Line(p1, 2), Line(p1, 1)>>) @@ (c2 :> <<Line(p2, 1), Line(p1, 1)>>)
    @@ (c3 :> <<Line(p1, 1)>>) @@ (walkIn :> <<Line(p1, 1)>>) @@ (empty :> <<>>)

MCBuyer == [c \in Carts |-> IF c \in {c1, c2, c3} THEN m1 ELSE NoCustomer]
MCRedeem == [c \in Carts |-> IF c \in {c1, c2, c3} THEN 4 ELSE 0]
MCOffers ==
    [c \in Carts |-> CASE c = c2 -> {auto, coupon}
                       [] c \in {c1, c3, walkIn} -> {auto}
                       [] OTHER -> {}]
MCCoupons == [c \in Carts |-> IF c = c2 THEN {coupon} ELSE {}]
MCTotal == [c \in Carts |-> [applied \in SUBSET Promos |-> 40 - 10 * Cardinality(applied)]]
MCMaxUses == [k \in Promos |-> 1]
MCOpeningStock == [p \in Products |-> 2]
MCOpeningPoints == [m \in Customers |-> 4]
=============================================================================

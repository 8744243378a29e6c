------------------------------ MODULE SaleBook ------------------------------
(***************************************************************************)
(* What the checkout promises: each checkout body becomes at most one      *)
(* sale, all at once.  The sale takes the next receipt number, moves its   *)
(* units off the shelf, moves the customer's points and counts one use of  *)
(* every promotion that discounted it, in one indivisible step.  Stock     *)
(* also moves by manual adjustments.                                       *)
(***************************************************************************)
EXTENDS SaleTerms

CONSTANT Deltas    \* the qty_delta values of manual stock adjustments

VARIABLES sales, receiptCounter, stock, points, uses

bookVars == <<sales, receiptCounter, stock, points, uses>>

Init ==
    /\ sales = {}
    /\ receiptCounter = 0
    /\ stock = OpeningStock
    /\ points = OpeningPoints
    /\ uses = [k \in Promos |-> 0]

\* The sale of cart c under the promotions `applied`.
Sell(c, applied) ==
    /\ \A s \in sales : s.uuid # c
    /\ applied \subseteq Offers[c]
    /\ Coupons[c] \subseteq applied
    /\ Total[c][applied] >= 0
    /\ receiptCounter' = receiptCounter + 1
    /\ sales' = sales \cup {SaleRow(c, receiptCounter + 1, applied)}
    /\ stock' = [p \in Products |-> stock[p] - UnitsSold(c, p)]
    /\ points' = [m \in Customers |->
                    IF m = Buyer[c] THEN points[m] + PointsDelta(c, applied)
                                    ELSE points[m]]
    /\ uses' = [k \in Promos |-> IF k \in applied THEN uses[k] + 1 ELSE uses[k]]

\* A manual correction of one product's stock.
Adjust(p, d) ==
    /\ stock' = [stock EXCEPT ![p] = @ + d]
    /\ UNCHANGED <<sales, receiptCounter, points, uses>>

Next ==
    \/ \E c \in Carts, applied \in SUBSET Promos : Sell(c, applied)
    \/ \E p \in Products, d \in Deltas : Adjust(p, d)

Spec == Init /\ [][Next]_bookVars
=============================================================================

---------------------------- MODULE MCPromotions ----------------------------
(***************************************************************************)
(* Rules of every kind and scope compete for carts of two products whose   *)
(* prices do not divide evenly; two are worth the same on some line, two   *)
(* have codes that differ in case alone, one holds at night and one is     *)
(* used up.                                                                *)
(***************************************************************************)
EXTENDS Promotions

CONSTANTS p1, p2, drinks, SAVE, save

MCCategory == (p1 :> drinks) @@ (p2 :> NoCategory)
MCPrice == (p1 :> 333) @@ (p2 :> 1000)
MCUpper == (SAVE :> SAVE) @@ (save :> SAVE)

Percent == [Blank EXCEPT !.off = 15]
Amount == [Blank EXCEPT !.kind = "amount_off", !.scope = "product", !.off = 150]
SameWorth == [Blank EXCEPT !.kind = "amount_off", !.off = 150, !.priority = 5]
FreeOne == [Blank EXCEPT !.kind = "buy_n_get_m", !.scope = "category", !.buy = 2, !.get = 1]
Bundle == [Blank EXCEPT !.kind = "buy_n_for_price", !.buy = 2, !.bundle = 601]
Coupon == [Blank EXCEPT !.off = 20, !.code = SAVE, !.stackable = TRUE]
LowerCoupon == [Blank EXCEPT !.kind = "amount_off", !.off = 500, !.code = save]
BundleCoupon == [Bundle EXCEPT !.code = save, !.bundle = 555]
Night == [Blank EXCEPT !.off = 50, !.hours = <<22, 2>>, !.weekdays = 0 .. 4]
UsedUp == [Blank EXCEPT !.off = 90, !.uses = 2, !.maxUses = 2]

Forms == {Percent, Amount, SameWorth, FreeOne, Bundle, Coupon, LowerCoupon,
          BundleCoupon, Night, UsedUp, NoRule}

\* Any two rules side by side, with a coupon or an empty place third.
MCShelves ==
    {s \in [Ids -> Forms] :
        /\ s[3] \in {NoRule, Coupon, LowerCoupon}
        /\ \A i, j \in Ids : i # j /\ s[i] # NoRule => s[i] # s[j]
        /\ \A i, j \in Ids : i # j /\ s[i] # NoRule /\ s[j] # NoRule =>
             s[i].code = NoCode \/ s[i].code # s[j].code}

\* Owners edit two of these shelves while tills price carts.
MCEditsFrom ==
    [s \in MCShelves |-> IF s \in {<<Percent, NoRule, NoRule>>, <<Bundle, Amount, Coupon>>}
                         THEN 2 ELSE 0]

MCNewRules == {LowerCoupon}
MCEdits == {[off |-> 30], [code |-> SAVE], [priority |-> 100]}
MCTargetLists == {{p1, drinks}, {p2}}

Item(p, qty, manual) == [product |-> p, qty |-> qty, manual |-> manual]
Ask(items, code, discount, at) ==
    [items |-> items, code |-> code, discount |-> discount, at |-> at]

MCCarts ==
    {Ask(<<Item(p1, 4, 0), Item(p2, 1, 0)>>, code, 0, 36) : code \in {NoCode, SAVE}}
    \cup {Ask(<<Item(p1, 3, 50)>>, save, 100, 23), Ask(<<Item(p2, 2, 0)>>, NoCode, 0, 146),
          Ask(<<Item(p1, 1, 0), Item(p1, 2, 0)>>, save, 0, 49)}
MCSymmetry == Permutations(Workers)
=============================================================================

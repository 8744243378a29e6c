---------------------------- MODULE MCPurchasing ----------------------------
(***************************************************************************)
(* Two orders share two tracked products, and o1 has an untracked one too. *)
(* Deliveries bring o1's items in either order, in part or in full; one of *)
(* o2's names its item twice.                                              *)
(***************************************************************************)
EXTENDS Purchasing

CONSTANTS o1, o2, i1, i2, i3, j1, p1, p2, p3

Bring(i, n) == [item |-> i, qty |-> n]

MCItemsOf == [o \in Orders |-> IF o = o1 THEN <<i1, i2, i3>> ELSE <<j1>>]
MCProduct == (i1 :> p1) @@ (i2 :> p2) @@ (i3 :> p3) @@ (j1 :> p1)
MCQty == [i \in Items |-> IF i = i1 THEN 2 ELSE 1]
MCBodies ==
    [o \in Orders |->
        IF o = o1
        THEN {<<Bring(i1, 1), Bring(i2, 1)>>, <<Bring(i3, 1), Bring(i2, 1), Bring(i1, 2)>>,
              <<Bring(i1, 2), Bring(i3, 1)>>}
        ELSE {<<Bring(j1, 1)>>, <<Bring(j1, 1), Bring(j1, 1)>>}]
=============================================================================

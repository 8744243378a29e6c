----------------------------- MODULE MCRefunds -----------------------------
(***************************************************************************)
(* Two handlers refund two sales.  Sale s1 has two units of i1 and one of  *)
(* i2, its lines worth fractions of a satang; s2 has the same products in  *)
(* the other order and an untracked one.  The bodies refund all that is    *)
(* left of s1, one unit of each of its items, the two tracked items of s2, *)
(* and i5 twice over.                                                      *)
(***************************************************************************)
EXTENDS Refunds

CONSTANTS s1, s2, i1, i2, i3, i4, i5, p1, p2, p3, all1, most, both, double

Want(i, n) == [item |-> i, qty |-> n]

MCItemsOf == (s1 :> <<i1, i2>>) @@ (s2 :> <<i3, i4, i5>>)
MCProduct == (i1 :> p1) @@ (i2 :> p2) @@ (i3 :> p2) @@ (i4 :> p1) @@ (i5 :> p3)
MCQty == [i \in Items |-> IF i = i1 THEN 2 ELSE 1]
MCCash == (i1 :> 25) @@ (i2 :> 10) @@ (i3 :> 20) @@ (i4 :> 20) @@ (i5 :> 20)
MCTax == (i1 :> 15) @@ (i2 :> 0) @@ (i3 :> 0) @@ (i4 :> 0) @@ (i5 :> 0)
MCSaleTotal == (s1 :> 4) @@ (s2 :> 6)
MCSaleTax == (s1 :> 2) @@ (s2 :> 0)
MCSaleOf == (all1 :> s1) @@ (most :> s1) @@ (both :> s2) @@ (double :> s2)
MCWanted ==
    (all1 :> <<>>) @@ (most :> <<Want(i1, 1), Want(i2, 1)>>)
    @@ (both :> <<Want(i3, 1), Want(i4, 1)>>)
    @@ (double :> <<Want(i5, 1), Want(i5, 1)>>)
MCDeltas == [p \in Products |-> IF p = p1 THEN {-1} ELSE {}]
=============================================================================

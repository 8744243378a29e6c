--------------------------- MODULE RefundsProofs ---------------------------
(***************************************************************************)
(* Theorems about Refunds for any number of handlers, sales, items,        *)
(* products and refund bodies.                                             *)
(***************************************************************************)
EXTENDS Refunds, DataTheorems

\* The steps at which a request may hold rows.
Writing == {"autoflush", "flush"}

NamesOnce(c) ==
    \A j, k \in DOMAIN Wanted[c] : Wanted[c][j].item = Wanted[c][k].item => j = k

\* No refund of the sale has committed since w read it.
Fresh(w) == \A r \in Committed(SaleOf[tx[w].body]) : r.uuid \in tx[w].after

\* Whether w refunds all that is left, by what it reckoned.
Empties(w) == \A i \in ItemSet(SaleOf[tx[w].body]) : tx[w].qty[i] = Qty[i]

\* What w has brought back to product p's row.
Brought(w, p) == {t \in Restocks(tx[w].targets) \ tx[w].restock : Product[t.item] = p}
QtyOf(targets) == [t \in targets |-> t.qty]

\* Rows are held only while writing, and a client is told of a refund that is there.
HoldsOK(w) ==
    /\ tx[w].step # "idle" => tx[w].body \in Bodies
    /\ tx[w].step \notin Writing =>
         /\ \A r \in Rows : lock[r] # w
         /\ ~tx[w].inserted
         /\ \A p \in Products : tx[w].returned[p] = 0
    /\ tx[w].step = "reply" => \E r \in refunds : r.uuid = tx[w].body

\* The items of a refund are those of its sale; the rows of those that are sent are
\* held, and so is the key of the refund, which no refund has.
TargetsOK(w) ==
    tx[w].step \in Writing =>
        /\ IsFiniteSet(tx[w].targets)
        /\ TargetItems(tx[w].targets) \subseteq ItemSet(SaleOf[tx[w].body])
        /\ tx[w].pending \subseteq TargetItems(tx[w].targets)
        /\ \A i \in Items :
             lock[i] = w <=> i \in TargetItems(tx[w].targets) \ tx[w].pending
        /\ tx[w].inserted => /\ tx[w].step = "flush"
                             /\ lock[tx[w].body] = w
                             /\ \A r \in refunds : r.uuid # tx[w].body
        /\ NamesOnce(tx[w].body) =>
             \A t, u \in tx[w].targets : t.item = u.item => t = u

\* The version of a product row is the committed row plus what w has brought.
ShelfOK(w) ==
    tx[w].step \in Writing =>
        /\ tx[w].restock \subseteq Restocks(tx[w].targets)
        /\ \A p \in Products :
             /\ tx[w].returned[p] = Sigma(QtyOf(tx[w].targets), Brought(w, p))
             /\ IF lock[p] = w THEN tx[w].stock[p] = stock[p] + tx[w].returned[p]
                               ELSE tx[w].returned[p] = 0

\* What w read of the sale, its items and its earlier refunds is still true, unless
\* another refund of the sale has committed since.
ReadOK(w) ==
    LET s == SaleOf[tx[w].body] IN
    /\ tx[w].step \in {"items"} \cup Writing =>
         /\ tx[w].after \subseteq {r.uuid : r \in refunds}
         /\ Fresh(w) => tx[w].seen = sale[s]
    /\ tx[w].step \in Writing =>
         /\ Fresh(w) => \A i \in ItemSet(s) :
                          tx[w].qty[i] = refundedQty[i] + Units(tx[w].targets, i)
         /\ Fresh(w) => \A t \in tx[w].targets : t.qty <= Qty[t.item] - refundedQty[t.item]
         /\ Empties(w) /\ At(w, "flush") =>
              /\ tx[w].amount = LastAmount(w)
              /\ Fresh(w) => tx[w].tax = SaleTax[s] - TaxBack(s)

RequestOK(w) == HoldsOK(w) /\ TargetsOK(w) /\ ShelfOK(w) /\ ReadOK(w)

\* A refund has units of its own sale only, and knows of earlier refunds only.
RefundsOK ==
    /\ IsFiniteSet(refunds)
    /\ \A r \in refunds :
         /\ r.after \subseteq {q.uuid : q \in refunds}
         /\ \A i \in Items \ ItemSet(r.sale) : r.units[i] = 0

\* The inductive invariant.
IInv ==
    /\ TypeOK
    /\ RefundsOK
    /\ OneRefundPerBody
    /\ StockFollowsRefunds
    /\ UnitsAddUp
    /\ MoneyAddsUp
    /\ \A w \in Workers : RequestOK(w)
-----------------------------------------------------------------------------
\* What the operators of the module return.

\* A handler without a request.
LEMMA IdleRequest ==
    /\ Idle \in Requests
    /\ Idle.step = "idle" /\ Idle.body = NoBody /\ ~Idle.inserted
    /\ \A p \in Products : Idle.returned[p] = 0
  BY DEF Idle, Requests, Steps, SaleRow, Status

\* A rounded amount is a number.
LEMMA QuantizeType ==
    ASSUME NEW n \in Int, NEW d \in Nat \ {0}
    PROVE  Quantize(n, d) \in Int
<1>1. n \div d \in Int
  OBVIOUS
<1> QED
  BY <1>1 DEF Quantize

\* The units a body asks of an item are a number.
LEMMA UnitsType ==
    ASSUME NEW targets \in SUBSET Target, IsFiniteSet(targets), NEW i
    PROVE  Units(targets, i) \in Nat
<1> DEFINE S == {t \in targets : t.item = i}
           f == [t \in targets |-> t.qty]
<1>1. IsFiniteSet(S)
  BY FS_Subset
<1>2. \A t \in S : f[t] \in Int /\ f[t] >= 0
  BY DEF Target
<1> HIDE DEF S, f
<1>3. Sigma(f, S) \in Int /\ Sigma(f, S) >= 0
  BY <1>1, <1>2, SigmaType
<1> QED
  BY <1>3 DEF Units, S, f

\* The shares of a body's entries add up to a number.
LEMMA ShareSumType ==
    ASSUME NEW targets \in SUBSET Target, IsFiniteSet(targets), NEW column \in [Items -> Nat]
    PROVE  ShareSum(column, targets) \in Int
<1> DEFINE f == [t \in targets |-> Share(column, t.item, t.qty)]
<1>1. ASSUME NEW t \in targets PROVE f[t] \in Int
  <2>1. /\ t.item \in Items /\ t.qty \in Nat /\ column[t.item] \in Nat
        /\ Qty[t.item] \in Nat \ {0} /\ Grain \in Nat \ {0}
    BY RefundAssumption DEF Target
  <2>2. column[t.item] * t.qty \in Int /\ Qty[t.item] * Grain \in Nat \ {0}
    BY <2>1
  <2>3. Share(column, t.item, t.qty) \in Int
    BY <2>2, QuantizeType DEF Share
  <2> QED
    BY <2>3
<1> HIDE DEF f
<1>2. Sigma(f, targets) \in Int
  BY <1>1, SigmaType
<1> QED
  BY <1>2 DEF ShareSum, f

\* What is left of a sale, and a body's own entries.
LEMMA TargetsType ==
    ASSUME NEW s \in Sales, NEW qty \in [Items -> Nat], NEW c \in Bodies
    PROVE  /\ Rest(s, qty) \in SUBSET Target /\ IsFiniteSet(Rest(s, qty))
           /\ \A t, u \in Rest(s, qty) : t.item = u.item => t = u
           /\ Entries(Wanted[c]) \in SUBSET Target /\ IsFiniteSet(Entries(Wanted[c]))
           /\ NamesOnce(c) => \A t, u \in Entries(Wanted[c]) : t.item = u.item => t = u
<1> DEFINE item == ItemsOf[s]
           body == Wanted[c]
           left == {k \in DOMAIN item : Qty[item[k]] - qty[item[k]] > 0}
           rest == [k \in left |-> [place |-> k, item |-> item[k], qty |-> Qty[item[k]] - qty[item[k]]]]
           entry == [k \in DOMAIN body |-> [place |-> k, item |-> body[k].item, qty |-> body[k].qty]]
<1>1. item \in Seq(Items) /\ DOMAIN item = 1 .. Len(item) /\ Len(item) \in Nat
  BY RefundAssumption
<1>2. /\ body \in Seq([item : Items, qty : Nat \ {0}])
      /\ DOMAIN body = 1 .. Len(body) /\ Len(body) \in Nat
  <2>1. body \in Seq([item : Items, qty : Nat \ {0}])
    BY RefundAssumption
  <2> HIDE DEF body
  <2> QED
    BY <2>1
<1>3. Rest(s, qty) = {rest[k] : k \in left} /\ Entries(body) = {entry[k] : k \in DOMAIN body}
  BY DEF Rest, Entries
<1>4. IsFiniteSet(left) /\ IsFiniteSet(DOMAIN body)
  <2>1. IsFiniteSet(1 .. Len(item)) /\ IsFiniteSet(1 .. Len(body))
    BY <1>1, <1>2, FS_Interval
  <2>2. left \subseteq 1 .. Len(item)
    BY <1>1
  <2>3. IsFiniteSet(left)
    <3> HIDE DEF left, item
    <3> QED
      BY <2>1, <2>2, FS_Subset
  <2>4. IsFiniteSet(DOMAIN body)
    <3> HIDE DEF body
    <3> QED
      BY <1>2, <2>1
  <2> QED
    BY <2>3, <2>4
<1>5. \A k \in left : rest[k] \in Target
  <2> SUFFICES ASSUME NEW k \in left PROVE rest[k] \in Target
    OBVIOUS
  <2>1. k \in Nat /\ item[k] \in Items
    BY <1>1
  <2> DEFINE n == Qty[item[k]] - qty[item[k]]
  <2>2. Qty[item[k]] \in Nat /\ qty[item[k]] \in Nat /\ n > 0
    BY <2>1, RefundAssumption
  <2>3. n \in Nat \ {0}
    BY <2>2
  <2>4. rest[k] = [place |-> k, item |-> item[k], qty |-> n]
    OBVIOUS
  <2> HIDE DEF n, rest
  <2> QED
    BY <2>1, <2>3, <2>4 DEF Target
<1>6. \A k \in DOMAIN body : entry[k] \in Target
  <2> SUFFICES ASSUME NEW k \in DOMAIN body PROVE entry[k] \in Target
    OBVIOUS
  <2> HIDE DEF body
  <2>1. k \in 1 .. Len(body)
    BY <1>2
  <2> DEFINE E == [item : Items, qty : Nat \ {0}]
  <2>2. body \in Seq(E)
    BY <1>2
  <2>3. body[k] \in E
    <3> HIDE DEF E
    <3> QED
      BY <2>1, <2>2, ElementIn
  <2>4. k \in Nat
    BY <2>1
  <2> QED
    BY <2>3, <2>4 DEF Target
<1>7. \A j, k \in left : rest[j].item = rest[k].item => rest[j] = rest[k]
  BY RefundAssumption
<1>8. NamesOnce(c) => \A j, k \in DOMAIN body : entry[j].item = entry[k].item => entry[j] = entry[k]
  BY DEF NamesOnce
<1> HIDE DEF left, rest, entry, item, body
<1>9. IsFiniteSet({rest[k] : k \in left}) /\ IsFiniteSet({entry[k] : k \in DOMAIN body})
  BY <1>4, ImageFinite
<1> QED
  BY <1>3, <1>5, <1>6, <1>7, <1>8, <1>9 DEF body

\* The entry that is brought back next.
LEMMA NextRestockIn ==
    ASSUME NEW w, tx[w].restock \in SUBSET Target, tx[w].restock # {}
    PROVE  NextRestock(w) \in tx[w].restock
<1> DEFINE places == {t.place : t \in tx[w].restock}
<1>1. places \in SUBSET Nat /\ places # {}
  BY DEF Target
<1>2. Min(places) \in places /\ \A n \in places : Min(places) <= n
  BY <1>1, MinOfNat
<1>3. \E t \in tx[w].restock : \A u \in tx[w].restock : t.place <= u.place
  BY <1>2
<1> QED
  BY <1>3 DEF NextRestock

\* The item whose UPDATE is sent next.
LEMMA NextPendingIn ==
    ASSUME NEW w, SaleOf[tx[w].body] \in Sales,
           tx[w].pending \subseteq ItemSet(SaleOf[tx[w].body]), tx[w].pending # {}
    PROVE  NextPending(w) \in tx[w].pending
<1> DEFINE item == ItemsOf[SaleOf[tx[w].body]]
           K == {k \in DOMAIN item : item[k] \in tx[w].pending}
<1>1. item \in Seq(Items)
  BY RefundAssumption
<1>2. K \in SUBSET Nat
  BY <1>1
<1>3. K # {}
  BY DEF ItemSet, Range
<1> HIDE DEF K
<1>4. Min(K) \in K
  BY <1>2, <1>3, MinOfNat
<1> QED
  BY <1>4 DEF NextPending, K
-----------------------------------------------------------------------------

\* Nothing is refunded yet.
LEMMA NoRefunds ==
    ASSUME refunds = {}
    PROVE  /\ \A i : Refunded(i) = 0
           /\ \A s : Committed(s) = {} /\ PaidBack(s) = 0 /\ TaxBack(s) = 0
<1>1. \A s : Committed(s) = {}
  BY DEF Committed
<1> QED
  BY <1>1, SigmaEmpty DEF Refunded, PaidBack, TaxBack

\* The invariant holds at first.
LEMMA InitInv == Init => IInv
<1> SUFFICES ASSUME Init PROVE IInv
  OBVIOUS
<1> USE DEF Init
<1>1. TypeOK
  BY IdleRequest DEF TypeOK, SaleRow, Status
<1>2. RefundsOK /\ OneRefundPerBody
  BY FS_EmptySet DEF RefundsOK, OneRefundPerBody
<1>3. StockFollowsRefunds
  <2>1. \A p \in Products : Sigma([i \in Items |-> Refunded(i)], {i \in Items : Product[i] = p}) = 0
    <3> TAKE p \in Products
    <3> DEFINE f == [i \in Items |-> Refunded(i)]
               S == {i \in Items : Product[i] = p}
    <3>1. IsFiniteSet(S)
      BY RefundAssumption, FS_Subset
    <3>2. \A i \in S : f[i] = 0
      BY NoRefunds
    <3> HIDE DEF f, S
    <3>3. Sigma(f, S) = 0
      BY <3>1, <3>2, SigmaZero
    <3> QED
      BY <3>3 DEF f, S
  <2> QED
    BY <2>1 DEF StockFollowsRefunds
<1>4. UnitsAddUp
  BY NoRefunds, RefundAssumption DEF UnitsAddUp, ItemSet, Range
<1>5. MoneyAddsUp
  <2>1. ASSUME NEW s \in Sales PROVE \E i \in ItemSet(s) : Refunded(i) # Qty[i]
    <3>1. ItemsOf[s] \in Seq(Items) /\ ItemsOf[s] # <<>>
      BY RefundAssumption
    <3>2. ItemsOf[s][1] \in Items /\ ItemsOf[s][1] \in ItemSet(s)
      BY <3>1 DEF ItemSet, Range
    <3>3. Refunded(ItemsOf[s][1]) = 0 /\ Qty[ItemsOf[s][1]] # 0
      BY <3>2, NoRefunds, RefundAssumption
    <3> QED
      BY <3>2, <3>3
  <2> QED
    BY <2>1, NoRefunds DEF MoneyAddsUp
<1>6. \A w \in Workers : RequestOK(w)
  BY IdleRequest, RefundAssumption DEF RequestOK, HoldsOK, TargetsOK, ShelfOK, ReadOK, Writing, At
<1> QED
  BY <1>1, <1>2, <1>3, <1>4, <1>5, <1>6 DEF IInv

\* The invariants of the tables rest on the tables.
LEMMA TablesOnly ==
    ASSUME UNCHANGED dbVars
    PROVE  /\ RefundsOK' = RefundsOK
           /\ StockFollowsRefunds' = StockFollowsRefunds
           /\ UnitsAddUp' = UnitsAddUp
           /\ MoneyAddsUp' = MoneyAddsUp
           /\ \A s : Committed(s)' = Committed(s) /\ TaxBack(s)' = TaxBack(s)
<1>0. UNCHANGED <<refunds, sale, refundedQty, stock, returned, otherMoves>>
  BY DEF dbVars
<1>1. \A s : Committed(s)' = Committed(s)
  BY <1>0 DEF Committed
<1>2. /\ \A i : Refunded(i)' = Refunded(i)
      /\ \A s : PaidBack(s)' = PaidBack(s) /\ TaxBack(s)' = TaxBack(s)
  BY <1>0, <1>1 DEF Refunded, PaidBack, TaxBack
<1>3. \A s : Clean(s)' = Clean(s)
  BY <1>1 DEF Clean
<1>4. RefundsOK' = RefundsOK
  BY <1>0 DEF RefundsOK
<1>5. StockFollowsRefunds' = StockFollowsRefunds
  BY <1>0, <1>2 DEF StockFollowsRefunds
<1>6. UnitsAddUp' = UnitsAddUp
  BY <1>0, <1>2, <1>3 DEF UnitsAddUp
<1>7. MoneyAddsUp' = MoneyAddsUp
  BY <1>0, <1>1, <1>2, <1>3 DEF MoneyAddsUp
<1> QED
  BY <1>1, <1>2, <1>4, <1>5, <1>6, <1>7

\* A request stays in order while others move, if its rows stay its own and what it
\* read is either still true or known to be stale.
LEMMA OtherRequest ==
    ASSUME NEW v \in Workers, RequestOK(v), tx[v] \in Requests, tx'[v] = tx[v],
           \A r \in Rows : lock'[r] = v <=> lock[r] = v,
           refunds \subseteq refunds',
           tx[v].inserted => \A r \in refunds' : r.uuid # tx[v].body,
           \A p \in Products : lock[p] = v => stock'[p] = stock[p],
           Fresh(v)' /\ tx[v].step \in {"items"} \cup Writing =>
             LET s == SaleOf[tx[v].body] IN
             /\ Fresh(v)
             /\ sale'[s] = sale[s]
             /\ \A i \in ItemSet(s) : refundedQty'[i] = refundedQty[i]
             /\ TaxBack(s)' = TaxBack(s)
    PROVE  RequestOK(v)'
<1> USE DEF RequestOK
<1>0. tx[v].targets \in SUBSET Target /\ tx[v].body \in Bodies \cup {NoBody}
  BY DEF Requests
<1>1. HoldsOK(v)'
  BY DEF HoldsOK
<1>2. TargetsOK(v)'
  <2>1. tx[v].step \in Writing => tx[v].body \in Bodies
    BY DEF HoldsOK, Writing
  <2> QED
    BY <2>1 DEF TargetsOK, Rows
<1>3. ShelfOK(v)'
  <2>1. \A p : Brought(v, p)' = Brought(v, p)
    BY DEF Brought
  <2> QED
    BY <2>1 DEF ShelfOK, Rows
<1>4. ReadOK(v)'
  <2> DEFINE s == SaleOf[tx[v].body]
  <2>0. Empties(v)' = Empties(v) /\ LastAmount(v)' = LastAmount(v) /\ At(v, "flush")' = At(v, "flush")
    BY DEF Empties, LastAmount, At
  <2>1. tx[v].step \in {"items"} \cup Writing =>
          /\ tx[v].after \subseteq {r.uuid : r \in refunds'}
          /\ Fresh(v)' => tx[v].seen = sale'[s]
    BY DEF ReadOK
  <2>2. ASSUME tx[v].step \in Writing
        PROVE  /\ Fresh(v)' => \A i \in ItemSet(s) :
                                 tx[v].qty[i] = refundedQty'[i] + Units(tx[v].targets, i)
               /\ Fresh(v)' => \A t \in tx[v].targets : t.qty <= Qty[t.item] - refundedQty'[t.item]
               /\ Empties(v)' /\ At(v, "flush") =>
                    /\ tx[v].amount = LastAmount(v)'
                    /\ Fresh(v)' => tx[v].tax = SaleTax[s] - TaxBack(s)'
    <3>1. \A t \in tx[v].targets : t.item \in ItemSet(s)
      BY <2>2 DEF TargetsOK, TargetItems
    <3>2. /\ Fresh(v) => \A i \in ItemSet(s) :
                           tx[v].qty[i] = refundedQty[i] + Units(tx[v].targets, i)
          /\ Fresh(v) => \A t \in tx[v].targets : t.qty <= Qty[t.item] - refundedQty[t.item]
          /\ Empties(v) /\ At(v, "flush") =>
               /\ tx[v].amount = LastAmount(v)
               /\ Fresh(v) => tx[v].tax = SaleTax[s] - TaxBack(s)
      BY <2>2 DEF ReadOK
    <3> QED
      BY <2>0, <2>2, <3>1, <3>2
  <2> QED
    BY <2>0, <2>1, <2>2 DEF ReadOK
<1> QED
  BY <1>1, <1>2, <1>3, <1>4

\* A step that leaves the tables alone.
LEMMA PrivateStep ==
    ASSUME IInv, NEW w \in Workers, NEW r \in Requests, Becomes(w, r), UNCHANGED dbVars,
           answers' \in [Bodies -> SUBSET {200, 400, 500}],
           \A c \in Bodies : 200 \in answers'[c] \ answers[c] => \E q \in refunds : q.uuid = c,
           submits' \in Nat, crashes' \in Nat, moves' \in Nat,
           \/ lock' = lock
           \/ \E row \in Rows : TakeRow(w, row)
           \/ ReleaseRows(w),
           RequestOK(w)'
    PROVE  IInv'
<1> USE DEF IInv
<1>1. /\ tx' \in [Workers -> Requests]
      /\ \A v \in Workers \ {w} : tx'[v] = tx[v]
  BY DEF TypeOK, Becomes
<1>2. /\ lock' \in [Rows -> Workers \cup {NoWorker}]
      /\ \A v \in Workers \ {w} : \A row \in Rows : lock'[row] = v <=> lock[row] = v
  <2>1. CASE lock' = lock
    BY <2>1 DEF TypeOK
  <2>2. ASSUME NEW row \in Rows, TakeRow(w, row)
        PROVE  /\ lock' \in [Rows -> Workers \cup {NoWorker}]
               /\ \A v \in Workers \ {w} : \A q \in Rows : lock'[q] = v <=> lock[q] = v
    BY <2>2, RefundAssumption DEF TypeOK, TakeRow
  <2>3. CASE ReleaseRows(w)
    BY <2>3, RefundAssumption DEF TypeOK, ReleaseRows
  <2> QED
    BY <2>1, <2>2, <2>3
<1>3. TypeOK'
  BY <1>1, <1>2 DEF TypeOK, dbVars
<1>4. OneRefundPerBody'
  BY DEF OneRefundPerBody, dbVars
<1>5. ASSUME NEW v \in Workers \ {w} PROVE RequestOK(v)'
  <2>1. RequestOK(v) /\ tx[v] \in Requests
    BY DEF TypeOK
  <2>2. Fresh(v)' = Fresh(v)
    BY <1>1, TablesOnly DEF Fresh
  <2>3. tx[v].inserted => \A q \in refunds' : q.uuid # tx[v].body
    <3>1. tx[v].inserted => tx[v].step \in Writing
      BY <2>1 DEF RequestOK, HoldsOK
    <3> QED
      BY <2>1, <3>1 DEF RequestOK, TargetsOK, dbVars
  <2>4. \A s : TaxBack(s)' = TaxBack(s)
    BY TablesOnly
  <2> QED
    BY <1>1, <1>2, <2>1, <2>2, <2>3, <2>4, OtherRequest DEF dbVars
<1> QED
  BY <1>3, <1>4, <1>5, TablesOnly

\* A request that is over.
LEMMA EndStep ==
    ASSUME IInv, NEW w \in Workers, Becomes(w, Idle), ReleaseRows(w), UNCHANGED dbVars,
           answers' \in [Bodies -> SUBSET {200, 400, 500}],
           \A c \in Bodies : 200 \in answers'[c] \ answers[c] => \E q \in refunds : q.uuid = c,
           submits' \in Nat, crashes' \in Nat, moves' \in Nat
    PROVE  IInv'
<1>1. tx'[w] = Idle
  BY DEF IInv, TypeOK, Becomes
<1>2. \A r \in Rows : lock'[r] # w
  BY RefundAssumption DEF IInv, TypeOK, ReleaseRows
<1>3. RequestOK(w)'
  BY <1>1, <1>2, IdleRequest DEF RequestOK, HoldsOK, TargetsOK, ShelfOK, ReadOK, Writing, At
<1> QED
  BY <1>3, IdleRequest, PrivateStep

\* The handler answers with an error, or with the refund that is there.
LEMMA AnswerStep ==
    ASSUME IInv, NEW w \in Workers, NEW code \in {200, 400, 500}, Answer(w, code),
           tx[w].step # "idle", code = 200 => tx[w].step = "reply"
    PROVE  IInv'
<1> USE DEF IInv
<1>1. tx[w].body \in Bodies
  BY DEF RequestOK, HoldsOK
<1>2. answers' = [answers EXCEPT ![tx[w].body] = @ \cup {code}]
  BY DEF Answer
<1>3. answers' \in [Bodies -> SUBSET {200, 400, 500}]
  BY <1>1, <1>2 DEF TypeOK
<1>4. \A c \in Bodies : 200 \in answers'[c] \ answers[c] => \E q \in refunds : q.uuid = c
  <2> SUFFICES ASSUME NEW c \in Bodies, 200 \in answers'[c] \ answers[c]
               PROVE  \E q \in refunds : q.uuid = c
    OBVIOUS
  <2>1. c = tx[w].body /\ code = 200
    BY <1>1, <1>2 DEF TypeOK
  <2> QED
    BY <2>1 DEF RequestOK, HoldsOK
<1>5. submits' \in Nat /\ crashes' \in Nat /\ moves' \in Nat
  BY DEF Answer, countVars, TypeOK
<1> QED
  BY <1>3, <1>4, <1>5, EndStep DEF Answer

\* A step that only reads, or takes a row, keeps answers and counts.
LEMMA QuietStep ==
    ASSUME IInv, NEW w \in Workers, NEW r \in Requests, Becomes(w, r),
           UNCHANGED <<dbVars, answers, countVars>>,
           lock' = lock \/ \E row \in Rows : TakeRow(w, row),
           RequestOK(w)'
    PROVE  IInv'
<1>1. /\ answers' = answers /\ submits' = submits /\ crashes' = crashes /\ moves' = moves
      /\ UNCHANGED dbVars
  BY DEF countVars
<1>2. /\ answers' \in [Bodies -> SUBSET {200, 400, 500}]
      /\ submits' \in Nat /\ crashes' \in Nat /\ moves' \in Nat
  BY <1>1 DEF IInv, TypeOK
<1>3. \A c \in Bodies : 200 \in answers'[c] \ answers[c] => \E q \in refunds : q.uuid = c
  BY <1>1
<1> QED
  BY <1>1, <1>2, <1>3, PrivateStep
-----------------------------------------------------------------------------
\* One lemma per action: first those that leave the tables alone.

\* Submit keeps the invariant.
LEMMA SubmitInv ==
    ASSUME IInv, NEW w \in Workers, NEW c \in Bodies, Submit(w, c)
    PROVE  IInv'
<1> USE DEF IInv
<1> DEFINE r == [Idle EXCEPT !.step = "find", !.body = c]
<1>1. /\ r \in Requests /\ r.step = "find" /\ r.body = c /\ ~r.inserted
      /\ \A p \in Products : r.returned[p] = 0
  BY IdleRequest DEF Requests, Steps
<1>2. Becomes(w, r) /\ UNCHANGED <<dbVars, lock, answers, crashes, moves>>
      /\ submits' = submits + 1 /\ tx[w].step = "idle"
  BY DEF Submit, At
<1> HIDE DEF r
<1>3. tx'[w] = r
  BY <1>2 DEF Becomes, TypeOK
<1>4. \A row \in Rows : lock'[row] # w
  BY <1>2 DEF RequestOK, HoldsOK, Writing
<1>5. RequestOK(w)'
  BY <1>1, <1>3, <1>4 DEF RequestOK, HoldsOK, TargetsOK, ShelfOK, ReadOK, Writing
<1>6. /\ answers' \in [Bodies -> SUBSET {200, 400, 500}]
      /\ submits' \in Nat /\ crashes' \in Nat /\ moves' \in Nat
  BY <1>2 DEF TypeOK
<1> QED
  BY <1>1, <1>2, <1>5, <1>6, PrivateStep

\* FindRefund keeps the invariant.
LEMMA FindRefundInv ==
    ASSUME IInv, NEW w \in Workers, FindRefund(w)
    PROVE  IInv'
<1> USE DEF IInv
<1> DEFINE found == \E q \in refunds : q.uuid = tx[w].body
           step == IF found THEN "reply" ELSE "sale"
           r == [tx[w] EXCEPT !.step = step]
<1>1. tx[w] \in Requests /\ tx[w].step = "find" /\ tx[w].body \in Bodies
  BY DEF FindRefund, At, TypeOK, RequestOK, HoldsOK
<1>2. step \in {"reply", "sale"} /\ (step = "reply" => found)
  OBVIOUS
<1>3. Becomes(w, r) /\ UNCHANGED <<dbVars, lock, answers, countVars>>
  BY DEF FindRefund, Reads
<1> HIDE DEF step
<1>4. /\ r \in Requests /\ r.step = step /\ r.body = tx[w].body
      /\ r.inserted = tx[w].inserted /\ r.returned = tx[w].returned
  BY <1>1, <1>2 DEF Requests, Steps
<1> HIDE DEF r
<1>5. tx'[w] = r
  BY <1>3 DEF Becomes, TypeOK
<1>6. ~tx[w].inserted /\ (\A row \in Rows : lock'[row] # w) /\ \A p \in Products : tx[w].returned[p] = 0
  BY <1>1, <1>3 DEF RequestOK, HoldsOK, Writing
<1>7. RequestOK(w)'
  BY <1>1, <1>2, <1>3, <1>4, <1>5, <1>6
     DEF RequestOK, HoldsOK, TargetsOK, ShelfOK, ReadOK, Writing, dbVars
<1> QED
  BY <1>3, <1>4, <1>7, QuietStep

\* ReadSale keeps the invariant.
LEMMA ReadSaleInv ==
    ASSUME IInv, NEW w \in Workers, ReadSale(w)
    PROVE  IInv'
<1> USE DEF IInv
<1> DEFINE s == SaleOf[tx[w].body]
           after == {q.uuid : q \in Committed(s)}
           r == [tx[w] EXCEPT !.step = "items", !.seen = sale[s], !.after = after]
<1>1. tx[w] \in Requests /\ tx[w].step = "sale" /\ tx[w].body \in Bodies /\ s \in Sales
  BY RefundAssumption DEF ReadSale, At, TypeOK, RequestOK, HoldsOK
<1>2. CASE Answer(w, 400)
  BY <1>1, <1>2, AnswerStep
<1>3. CASE Becomes(w, r) /\ UNCHANGED <<dbVars, lock, answers, countVars>>
  <2>1. after \in SUBSET Bodies /\ after \subseteq {q.uuid : q \in refunds} /\ sale[s] \in SaleRow
    BY <1>1 DEF Committed, TypeOK, RefundRow
  <2>2. \A q \in Committed(s) : q.uuid \in after
    OBVIOUS
  <2> HIDE DEF after
  <2>3. /\ r \in Requests /\ r.step = "items" /\ r.body = tx[w].body /\ r.seen = sale[s]
        /\ r.after = after /\ r.inserted = tx[w].inserted /\ r.returned = tx[w].returned
    BY <1>1, <2>1 DEF Requests, Steps
  <2> HIDE DEF r
  <2>4. tx'[w] = r
    BY <1>3 DEF Becomes, TypeOK
  <2>5. ~tx[w].inserted /\ (\A row \in Rows : lock'[row] # w) /\ \A p \in Products : tx[w].returned[p] = 0
    BY <1>1, <1>3 DEF RequestOK, HoldsOK, Writing
  <2>6. HoldsOK(w)'
    BY <1>1, <2>3, <2>4, <2>5 DEF HoldsOK
  <2>7. ReadOK(w)'
    BY <1>3, <2>1, <2>3, <2>4 DEF ReadOK, Writing, dbVars
  <2>8. RequestOK(w)'
    BY <2>3, <2>4, <2>6, <2>7 DEF RequestOK, TargetsOK, ShelfOK, Writing
  <2> QED
    BY <1>3, <2>3, <2>8, QuietStep
<1> QED
  BY <1>2, <1>3 DEF ReadSale, Reads

\* ReadItems keeps the invariant.
LEMMA ReadItemsInv ==
    ASSUME IInv, NEW w \in Workers, ReadItems(w)
    PROVE  IInv'
<1> USE DEF IInv
<1> DEFINE c == tx[w].body
           s == SaleOf[c]
           targets == IF Wanted[c] = <<>> THEN Rest(s, refundedQty) ELSE Entries(Wanted[c])
           qty == NewQty(s, targets)
           allRefunded == \A i \in ItemSet(s) : qty[i] = Qty[i]
           step == IF allRefunded THEN "autoflush" ELSE "flush"
           pending == TargetItems(targets)
           amount == ShareSum(Cash, targets)
           tax == ShareSum(Tax, targets)
           restock == Restocks(targets)
           r == [tx[w] EXCEPT !.step = step, !.qty = qty, !.targets = targets,
                              !.pending = pending, !.amount = amount, !.tax = tax,
                              !.restock = restock]
<1>1. tx[w] \in Requests /\ tx[w].step = "items" /\ c \in Bodies /\ s \in Sales
  BY RefundAssumption DEF ReadItems, At, TypeOK, RequestOK, HoldsOK
<1>2. CASE Answer(w, 400)
  BY <1>1, <1>2, AnswerStep
<1>3. CASE Refundable(s, refundedQty, targets)
           /\ Becomes(w, r) /\ UNCHANGED <<dbVars, lock, answers, countVars>>
  <2>1. /\ targets \in SUBSET Target /\ IsFiniteSet(targets)
        /\ NamesOnce(c) => \A t, u \in targets : t.item = u.item => t = u
    <3>1. refundedQty \in [Items -> Nat]
      BY DEF TypeOK
    <3>2. /\ Rest(s, refundedQty) \in SUBSET Target /\ IsFiniteSet(Rest(s, refundedQty))
          /\ \A t, u \in Rest(s, refundedQty) : t.item = u.item => t = u
          /\ Entries(Wanted[c]) \in SUBSET Target /\ IsFiniteSet(Entries(Wanted[c]))
          /\ NamesOnce(c) => \A t, u \in Entries(Wanted[c]) : t.item = u.item => t = u
      BY <1>1, <3>1, TargetsType
    <3> QED
      BY <3>2
  <2>2. \A t \in targets : t.item \in ItemSet(s) /\ t.qty <= Qty[t.item] - refundedQty[t.item]
    BY <1>3 DEF Refundable
  <2> HIDE DEF targets
  <2>3. /\ qty \in [Items -> Nat]
        /\ \A i \in ItemSet(s) : qty[i] = refundedQty[i] + Units(targets, i)
    <3>1. ItemSet(s) \subseteq Items
      BY <1>1, RefundAssumption DEF ItemSet, Range
    <3>2. \A i \in Items : Units(targets, i) \in Nat /\ refundedQty[i] \in Nat
      BY <2>1, UnitsType DEF TypeOK
    <3> QED
      BY <3>1, <3>2 DEF NewQty
  <2>4. pending \in SUBSET Items /\ pending = TargetItems(targets)
    BY <2>1 DEF TargetItems, Target
  <2>5. amount \in Int /\ tax \in Int
    BY <2>1, ShareSumType, RefundAssumption
  <2>6. restock \in SUBSET Target /\ restock = Restocks(targets)
    BY <2>1 DEF Restocks
  <2>7. step \in Writing /\ (step = "flush" => ~allRefunded)
    BY DEF Writing
  <2> HIDE DEF qty, step, pending, amount, tax, restock
  <2>8. /\ r \in Requests /\ r.step = step /\ r.body = c /\ r.seen = tx[w].seen
        /\ r.after = tx[w].after /\ r.inserted = tx[w].inserted /\ r.returned = tx[w].returned
        /\ r.qty = qty /\ r.targets = targets /\ r.pending = pending /\ r.restock = restock
    BY <1>1, <2>1, <2>3, <2>4, <2>5, <2>6, <2>7 DEF Requests, Steps, Writing
  <2>9. Becomes(w, r)
    BY <1>3
  <2> HIDE DEF r
  <2>10. tx'[w] = r
    BY <2>9 DEF Becomes, TypeOK
  <2>11. ~tx[w].inserted /\ (\A row \in Rows : lock'[row] # w) /\ \A p \in Products : tx[w].returned[p] = 0
    BY <1>1, <1>3 DEF RequestOK, HoldsOK, Writing
  <2>12. HoldsOK(w)'
    BY <1>1, <2>7, <2>8, <2>10 DEF HoldsOK, Writing
  <2>13. TargetsOK(w)'
    <3>1. TargetItems(targets) \subseteq ItemSet(s)
      BY <2>2 DEF TargetItems
    <3>2. \A i \in Items : lock'[i] # w
      BY <2>11 DEF Rows
    <3> QED
      BY <2>1, <2>4, <2>8, <2>10, <2>11, <3>1, <3>2 DEF TargetsOK
  <2>14. ShelfOK(w)'
    <3>1. ASSUME NEW p \in Products PROVE Brought(w, p)' = {}
      BY <2>6, <2>8, <2>10 DEF Brought
    <3>2. \A p \in Products : Sigma(QtyOf(targets), Brought(w, p)') = 0
      BY <3>1, SigmaEmpty
    <3>3. \A p \in Products : lock'[p] # w
      BY <2>11 DEF Rows
    <3> QED
      BY <2>6, <2>8, <2>10, <2>11, <3>2, <3>3 DEF ShelfOK
  <2>15. ReadOK(w)'
    <3>1. UNCHANGED <<refunds, sale, refundedQty>> /\ \A q : Committed(q)' = Committed(q)
      BY <1>3, TablesOnly DEF dbVars
    <3>2. Fresh(w)' = Fresh(w)
      BY <2>8, <2>10, <3>1 DEF Fresh
    <3>3. tx[w].after \subseteq {q.uuid : q \in refunds} /\ (Fresh(w) => tx[w].seen = sale[s])
      BY <1>1 DEF RequestOK, ReadOK
    <3>4. step = "flush" => ~Empties(w)'
      BY <2>7, <2>8, <2>10 DEF Empties
    <3> QED
      BY <2>2, <2>3, <2>8, <2>10, <3>1, <3>2, <3>3, <3>4 DEF ReadOK, At
  <2> QED
    BY <1>3, <2>8, <2>9, <2>12, <2>13, <2>14, <2>15, QuietStep DEF RequestOK
<1> QED
  BY <1>2, <1>3 DEF ReadItems, Reads

\* What a step of a refund that is being written does not change.
LEMMA WritingStep ==
    ASSUME IInv, NEW w \in Workers, tx[w].step \in Writing, NEW r \in Requests,
           Becomes(w, r), UNCHANGED <<dbVars, answers, countVars>>,
           r.step = tx[w].step, r.body = tx[w].body, r.seen = tx[w].seen,
           r.after = tx[w].after, r.qty = tx[w].qty, r.targets = tx[w].targets,
           r.amount = tx[w].amount, r.tax = tx[w].tax,
           lock' = lock \/ \E row \in Rows : TakeRow(w, row),
           TargetsOK(w)', ShelfOK(w)'
    PROVE  IInv'
<1> USE DEF IInv
<1>1. tx'[w] = r
  BY DEF Becomes, TypeOK
<1>2. HoldsOK(w)'
  BY <1>1 DEF RequestOK, HoldsOK, Writing
<1>3. UNCHANGED <<refunds, sale, refundedQty>>
      /\ \A q : Committed(q)' = Committed(q) /\ TaxBack(q)' = TaxBack(q)
  BY TablesOnly DEF dbVars
<1>4. /\ Fresh(w)' = Fresh(w) /\ Empties(w)' = Empties(w) /\ LastAmount(w)' = LastAmount(w)
      /\ At(w, "flush")' = At(w, "flush")
  BY <1>1, <1>3 DEF Fresh, Empties, LastAmount, At
<1>5. ReadOK(w)'
  BY <1>1, <1>3, <1>4 DEF RequestOK, ReadOK
<1> QED
  BY <1>2, <1>5, QuietStep DEF RequestOK

\* UpdateItem keeps the invariant.
LEMMA UpdateItemInv ==
    ASSUME IInv, NEW w \in Workers, UpdateItem(w)
    PROVE  IInv'
<1> USE DEF IInv
<1> DEFINE i == NextPending(w)
           pending == tx[w].pending \ {i}
           r == [tx[w] EXCEPT !.pending = pending]
<1>1. tx[w] \in Requests /\ tx[w].step \in Writing /\ tx[w].pending # {}
  BY DEF UpdateItem, Writing, TypeOK
<1>2. /\ tx[w].pending \subseteq TargetItems(tx[w].targets)
      /\ TargetItems(tx[w].targets) \subseteq ItemSet(SaleOf[tx[w].body])
      /\ tx[w].body \in Bodies /\ SaleOf[tx[w].body] \in Sales
      /\ tx[w].pending \subseteq Items
  BY <1>1, RefundAssumption DEF RequestOK, TargetsOK, HoldsOK, Writing, Requests
<1>3. i \in tx[w].pending /\ i \in Items
  BY <1>1, <1>2, NextPendingIn
<1>4. Becomes(w, r) /\ TakeRow(w, i) /\ UNCHANGED <<dbVars, answers, countVars>>
  BY DEF UpdateItem
<1> HIDE DEF i
<1>5. pending \in SUBSET Items
  BY <1>2
<1> HIDE DEF pending
<1>6. /\ r \in Requests /\ r.step = tx[w].step /\ r.body = tx[w].body /\ r.seen = tx[w].seen
      /\ r.after = tx[w].after /\ r.qty = tx[w].qty /\ r.targets = tx[w].targets
      /\ r.amount = tx[w].amount /\ r.tax = tx[w].tax
      /\ r.pending = pending /\ r.inserted = tx[w].inserted /\ r.restock = tx[w].restock
      /\ r.stock = tx[w].stock /\ r.returned = tx[w].returned
  BY <1>1, <1>5 DEF Requests
<1> HIDE DEF r
<1>7. tx'[w] = r
  BY <1>4 DEF Becomes, TypeOK
<1>8. i \in Rows /\ lock'[i] = w /\ \A row \in Rows \ {i} : lock'[row] = lock[row]
  BY <1>3, <1>4 DEF Rows, TakeRow, TypeOK
<1>9. TargetsOK(w)'
  <2>1. \A j \in Items : lock'[j] = w <=> j \in TargetItems(tx[w].targets) \ pending
    BY <1>1, <1>2, <1>3, <1>8 DEF RequestOK, TargetsOK, Rows, pending
  <2>2. pending \subseteq TargetItems(tx[w].targets)
    BY <1>2 DEF pending
  <2>3. tx[w].inserted => lock'[tx[w].body] = w
    BY <1>1, <1>2, <1>8 DEF RequestOK, TargetsOK, Rows
  <2> QED
    BY <1>1, <1>4, <1>6, <1>7, <2>1, <2>2, <2>3 DEF RequestOK, TargetsOK, dbVars
<1>10. ShelfOK(w)'
  <2>1. \A p \in Products : lock'[p] = lock[p]
    BY <1>3, <1>8, RefundAssumption DEF Rows
  <2>2. \A p \in Products : Brought(w, p)' = Brought(w, p)
    BY <1>6, <1>7 DEF Brought
  <2> QED
    BY <1>1, <1>4, <1>6, <1>7, <2>1, <2>2 DEF RequestOK, ShelfOK, dbVars
<1> QED
  BY <1>1, <1>4, <1>6, <1>8, <1>9, <1>10, WritingStep

\* ReadPriorRefunds keeps the invariant.
LEMMA ReadPriorRefundsInv ==
    ASSUME IInv, NEW w \in Workers, ReadPriorRefunds(w)
    PROVE  IInv'
<1> USE DEF IInv
<1>0. PICK s : s = SaleOf[tx[w].body]
  OBVIOUS
<1> DEFINE amount == LastAmount(w)
           tax == SaleTax[s] - TaxBack(s)
           r == [tx[w] EXCEPT !.step = "flush", !.amount = amount, !.tax = tax]
<1>1. /\ tx[w] \in Requests /\ tx[w].step = "autoflush" /\ tx[w].body \in Bodies /\ s \in Sales
  BY <1>0, RefundAssumption DEF ReadPriorRefunds, At, TypeOK, RequestOK, HoldsOK
<1>2. Becomes(w, r) /\ UNCHANGED <<dbVars, lock, answers, countVars>>
  BY <1>0 DEF ReadPriorRefunds, Reads
<1>3. amount \in Int /\ amount = SaleTotal[s] - tx[w].seen.refundedTotal
  BY <1>0, <1>1, RefundAssumption DEF LastAmount, Requests, SaleRow
<1>4. tax \in Int
  <2> DEFINE f == [q \in refunds |-> q.tax]
  <2>1. IsFiniteSet(Committed(s)) /\ \A q \in Committed(s) : f[q] \in Int
    BY FS_Subset DEF RefundsOK, Committed, TypeOK, RefundRow
  <2> HIDE DEF f
  <2>2. Sigma(f, Committed(s)) \in Int
    BY <2>1, SigmaType
  <2>3. TaxBack(s) \in Int
    BY <2>2 DEF TaxBack, f
  <2> QED
    BY <1>1, <2>3, RefundAssumption
<1> HIDE DEF amount, tax
<1>5. /\ r \in Requests /\ r.step = "flush" /\ r.body = tx[w].body /\ r.seen = tx[w].seen
      /\ r.after = tx[w].after /\ r.qty = tx[w].qty /\ r.targets = tx[w].targets
      /\ r.pending = tx[w].pending /\ r.inserted = tx[w].inserted /\ r.restock = tx[w].restock
      /\ r.stock = tx[w].stock /\ r.returned = tx[w].returned
      /\ r.amount = amount /\ r.tax = tax
  BY <1>1, <1>3, <1>4 DEF Requests, Steps
<1> HIDE DEF r
<1>6. tx'[w] = r
  BY <1>2 DEF Becomes, TypeOK
<1>7. HoldsOK(w)' /\ TargetsOK(w)'
  BY <1>1, <1>2, <1>5, <1>6 DEF RequestOK, HoldsOK, TargetsOK, Writing, dbVars
<1>8. ShelfOK(w)'
  <2>1. \A p \in Products : Brought(w, p)' = Brought(w, p)
    BY <1>5, <1>6 DEF Brought
  <2> QED
    BY <1>1, <1>2, <1>5, <1>6, <2>1 DEF RequestOK, ShelfOK, Writing, dbVars
<1>9. ReadOK(w)'
  <2>1. UNCHANGED <<refunds, sale, refundedQty>>
        /\ \A q : Committed(q)' = Committed(q) /\ TaxBack(q)' = TaxBack(q)
    BY <1>2, TablesOnly DEF dbVars
  <2>2. Fresh(w)' = Fresh(w)
    BY <1>5, <1>6, <2>1 DEF Fresh
  <2>3. LastAmount(w)' = amount
    BY <1>0, <1>3, <1>5, <1>6 DEF LastAmount
  <2>4. tax = SaleTax[s] - TaxBack(s)'
    BY <2>1 DEF tax
  <2> QED
    BY <1>0, <1>1, <1>5, <1>6, <2>1, <2>2, <2>3, <2>4 DEF RequestOK, ReadOK, Writing
<1> QED
  BY <1>2, <1>5, <1>7, <1>8, <1>9, QuietStep DEF RequestOK

\* InsertRefund keeps the invariant.
LEMMA InsertRefundInv ==
    ASSUME IInv, NEW w \in Workers, InsertRefund(w)
    PROVE  IInv'
<1> USE DEF IInv
<1> DEFINE c == tx[w].body
           r == [tx[w] EXCEPT !.inserted = TRUE]
<1>1. tx[w] \in Requests /\ tx[w].step = "flush" /\ c \in Bodies
  BY DEF InsertRefund, At, TypeOK, RequestOK, HoldsOK
<1>2. CASE Answer(w, 500)
  BY <1>1, <1>2, AnswerStep
<1>3. CASE /\ \A q \in refunds : q.uuid # c
           /\ TakeRow(w, c) /\ Becomes(w, r) /\ UNCHANGED <<dbVars, answers, countVars>>
  <2>1. /\ r \in Requests /\ r.step = "flush" /\ r.body = c /\ r.seen = tx[w].seen
        /\ r.after = tx[w].after /\ r.qty = tx[w].qty /\ r.targets = tx[w].targets
        /\ r.amount = tx[w].amount /\ r.tax = tx[w].tax
        /\ r.pending = tx[w].pending /\ r.restock = tx[w].restock
        /\ r.stock = tx[w].stock /\ r.returned = tx[w].returned
    BY <1>1 DEF Requests
  <2>2. Becomes(w, r)
    BY <1>3
  <2> HIDE DEF r
  <2>3. tx'[w] = r
    BY <2>2 DEF Becomes, TypeOK
  <2>4. c \in Rows /\ lock'[c] = w /\ \A row \in Rows \ {c} : lock'[row] = lock[row]
    BY <1>1, <1>3 DEF Rows, TakeRow, TypeOK
  <2>5. \A row \in Items \cup Products : lock'[row] = lock[row]
    BY <1>1, <2>4, RefundAssumption DEF Rows
  <2>6. TargetsOK(w)'
    BY <1>1, <1>3, <2>1, <2>3, <2>4, <2>5 DEF RequestOK, TargetsOK, Writing, dbVars
  <2>7. ShelfOK(w)'
    <3>1. \A p \in Products : Brought(w, p)' = Brought(w, p)
      BY <2>1, <2>3 DEF Brought
    <3> QED
      BY <1>1, <1>3, <2>1, <2>3, <2>5, <3>1 DEF RequestOK, ShelfOK, Writing, dbVars
  <2> QED
    BY <1>1, <1>3, <2>1, <2>2, <2>4, <2>6, <2>7, WritingStep DEF Writing
<1> QED
  BY <1>2, <1>3 DEF InsertRefund

\* Restock keeps the invariant.
LEMMA RestockInv ==
    ASSUME IInv, NEW w \in Workers, Restock(w)
    PROVE  IInv'
<1> USE DEF IInv
<1>0. PICK t : t = NextRestock(w)
  OBVIOUS
<1>a. PICK p : p = Product[t.item]
  OBVIOUS
<1> DEFINE restock == tx[w].restock \ {t}
           n == tx[w].returned[p] + t.qty
           m == ShelfSeenBy(w, p) + t.qty
           shelf == [tx[w].stock EXCEPT ![p] = m]
           back == [tx[w].returned EXCEPT ![p] = n]
           r == [tx[w] EXCEPT !.restock = restock, !.stock = shelf, !.returned = back]
<1>1. /\ tx[w] \in Requests /\ tx[w].step = "flush" /\ tx[w].body \in Bodies
      /\ tx[w].restock # {} /\ tx[w].restock \in SUBSET Target /\ tx[w].targets \in SUBSET Target
      /\ tx[w].restock \subseteq Restocks(tx[w].targets)
  BY DEF Restock, Flushed, At, TypeOK, RequestOK, HoldsOK, ShelfOK, Writing, Requests
<1>2. t \in tx[w].restock
  BY <1>0, <1>1, NextRestockIn
<1>3. Becomes(w, r) /\ TakeRow(w, p) /\ UNCHANGED <<dbVars, answers, countVars>>
  BY <1>0, <1>a DEF Restock
<1>4. /\ t \in Target /\ t \in tx[w].targets /\ t.item \in Items /\ t.qty \in Nat
      /\ p \in Products
  BY <1>a, <1>1, <1>2, RefundAssumption DEF Target, Restocks
<1>5. /\ tx[w].returned[p] = Sigma(QtyOf(tx[w].targets), Brought(w, p))
      /\ lock[p] \in {w, NoWorker}
      /\ IF lock[p] = w THEN tx[w].stock[p] = stock[p] + tx[w].returned[p]
                        ELSE tx[w].returned[p] = 0
  BY <1>1, <1>3, <1>4 DEF RequestOK, ShelfOK, Writing, TakeRow
<1>6. /\ tx[w].returned \in [Products -> Nat] /\ tx[w].stock \in [Products -> Int]
      /\ stock[p] \in Int
  BY <1>1, <1>4 DEF Requests, TypeOK
<1>7. n \in Nat /\ m \in Int /\ m = stock[p] + n
  <2>1. tx[w].returned[p] \in Nat /\ tx[w].stock[p] \in Int
    BY <1>4, <1>6
  <2> QED
    BY <1>4, <1>5, <1>6, <2>1 DEF ShelfSeenBy
<1> HIDE DEF n, m
<1>8. /\ shelf \in [Products -> Int] /\ shelf[p] = m
      /\ back \in [Products -> Nat] /\ back[p] = n
      /\ \A q \in Products \ {p} : shelf[q] = tx[w].stock[q] /\ back[q] = tx[w].returned[q]
  BY <1>4, <1>6, <1>7
<1>9. restock \in SUBSET Target
  BY <1>1
<1> HIDE DEF shelf, back, restock
<1>10. /\ r \in Requests /\ r.step = tx[w].step /\ r.body = tx[w].body /\ r.seen = tx[w].seen
       /\ r.after = tx[w].after /\ r.qty = tx[w].qty /\ r.targets = tx[w].targets
       /\ r.amount = tx[w].amount /\ r.tax = tx[w].tax
       /\ r.pending = tx[w].pending /\ r.inserted = tx[w].inserted
       /\ r.restock = restock /\ r.stock = shelf /\ r.returned = back
  BY <1>1, <1>8, <1>9 DEF Requests
<1>11. Becomes(w, r)
  BY <1>3 DEF r, restock, shelf, back, n, m
<1> HIDE DEF r
<1>12. tx'[w] = r
  BY <1>11 DEF Becomes, TypeOK
<1>13. p \in Rows /\ lock'[p] = w /\ \A row \in Rows \ {p} : lock'[row] = lock[row]
  BY <1>3, <1>4 DEF Rows, TakeRow, TypeOK
<1>14. TargetsOK(w)'
  <2>1. \A row \in Items \cup Bodies : lock'[row] = lock[row]
    BY <1>4, <1>13, RefundAssumption DEF Rows
  <2> QED
    BY <1>1, <1>3, <1>10, <1>12, <2>1 DEF RequestOK, TargetsOK, Writing, dbVars
<1>15. ShelfOK(w)'
  <2> DEFINE f == QtyOf(tx[w].targets)
  <2>1. /\ Brought(w, p)' = Brought(w, p) \cup {t} /\ t \notin Brought(w, p)
        /\ \A q \in Products \ {p} : Brought(w, q)' = Brought(w, q)
    BY <1>a, <1>1, <1>2, <1>4, <1>10, <1>12 DEF Brought, restock
  <2>2. /\ IsFiniteSet(Brought(w, p)) /\ f[t] = t.qty
        /\ \A u \in Brought(w, p) \cup {t} : f[u] \in Int
    <3>1. IsFiniteSet(tx[w].targets) /\ Brought(w, p) \subseteq tx[w].targets
      BY <1>1 DEF RequestOK, TargetsOK, Writing, Brought, Restocks
    <3>2. \A u \in tx[w].targets : f[u] = u.qty /\ u.qty \in Int
      BY <1>1 DEF QtyOf, Target
    <3> QED
      BY <1>4, <3>1, <3>2, FS_Subset
  <2> HIDE DEF f
  <2>3. Sigma(f, Brought(w, p) \cup {t}) = Sigma(f, Brought(w, p)) + f[t]
    BY <2>1, <2>2, SigmaAdd
  <2>4. n = Sigma(f, Brought(w, p)')
    BY <1>5, <2>1, <2>2, <2>3 DEF f, n
  <2>5. \A q \in Products :
          /\ back[q] = Sigma(f, Brought(w, q)')
          /\ IF lock'[q] = w THEN shelf[q] = stock[q] + back[q] ELSE back[q] = 0
    <3> TAKE q \in Products
    <3>1. CASE q = p
      BY <1>7, <1>8, <1>13, <2>4, <3>1
    <3>2. CASE q # p
      <4>1. lock'[q] = lock[q]
        BY <1>13, <3>2 DEF Rows
      <4>2. /\ tx[w].returned[q] = Sigma(f, Brought(w, q))
            /\ IF lock[q] = w THEN tx[w].stock[q] = stock[q] + tx[w].returned[q]
                              ELSE tx[w].returned[q] = 0
        BY <1>1 DEF RequestOK, ShelfOK, Writing, f
      <4> QED
        BY <1>8, <2>1, <3>2, <4>1, <4>2
    <3> QED
      BY <3>1, <3>2
  <2>6. restock \subseteq Restocks(tx[w].targets)
    BY <1>1 DEF restock
  <2>7. stock' = stock
    BY <1>3 DEF dbVars
  <2> QED
    BY <1>10, <1>12, <2>5, <2>6, <2>7 DEF ShelfOK, f
<1> QED
  BY <1>1, <1>3, <1>10, <1>11, <1>13, <1>14, <1>15, WritingStep DEF Writing
-----------------------------------------------------------------------------
\* The actions that change the tables.

\* MoveStock keeps the invariant.
LEMMA MoveStockInv ==
    ASSUME IInv, NEW p \in Products, NEW d \in Deltas[p], MoveStock(p, d)
    PROVE  IInv'
<1> USE DEF IInv
<1>1. /\ d \in Int /\ stock[p] \in Int /\ otherMoves[p] \in Int
      /\ stock' = [stock EXCEPT ![p] = @ + d] /\ otherMoves' = [otherMoves EXCEPT ![p] = @ + d]
      /\ lock[p] = NoWorker /\ moves' = moves + 1
      /\ UNCHANGED <<refunds, sale, refundedQty, returned, lock, tx, answers, submits, crashes>>
  BY RefundAssumption DEF MoveStock, TypeOK
<1>2. TypeOK'
  BY <1>1 DEF TypeOK
<1>3. /\ \A s : Committed(s)' = Committed(s)
      /\ \A i : Refunded(i)' = Refunded(i)
  BY <1>1 DEF Committed, Refunded
<1>4. \A s : PaidBack(s)' = PaidBack(s) /\ TaxBack(s)' = TaxBack(s) /\ Clean(s)' = Clean(s)
  BY <1>1, <1>3 DEF PaidBack, TaxBack, Clean
<1>5. RefundsOK' /\ OneRefundPerBody' /\ UnitsAddUp'
  BY <1>1, <1>3, <1>4 DEF RefundsOK, OneRefundPerBody, UnitsAddUp
<1>6. MoneyAddsUp'
  BY <1>1, <1>3, <1>4 DEF MoneyAddsUp
<1>7. StockFollowsRefunds'
  <2>1. \A q \in Products : stock'[q] = returned'[q] + otherMoves'[q]
    <3> TAKE q \in Products
    <3>1. returned[q] \in Int /\ otherMoves[q] \in Int /\ stock[q] = returned[q] + otherMoves[q]
      <4>1. stock[q] = returned[q] + otherMoves[q]
        BY DEF StockFollowsRefunds
      <4>2. returned[q] \in Nat /\ otherMoves[q] \in Int
        BY DEF TypeOK
      <4> QED
        BY <4>1, <4>2
    <3> QED
      BY <1>1, <3>1 DEF TypeOK
  <2> QED
    BY <1>1, <1>3, <2>1 DEF StockFollowsRefunds
<1>8. ASSUME NEW v \in Workers PROVE RequestOK(v)'
  <2>1. RequestOK(v) /\ tx[v] \in Requests /\ tx'[v] = tx[v]
    BY <1>1 DEF TypeOK
  <2>2. Fresh(v)' = Fresh(v)
    BY <1>1, <1>3 DEF Fresh
  <2>3. tx[v].inserted => \A r \in refunds' : r.uuid # tx[v].body
    <3>1. tx[v].inserted => tx[v].step \in Writing
      BY <2>1 DEF RequestOK, HoldsOK
    <3> QED
      BY <1>1, <2>1, <3>1 DEF RequestOK, TargetsOK
  <2>4. \A q \in Products : lock[q] = v => stock'[q] = stock[q]
    BY <1>1, RefundAssumption DEF TypeOK
  <2> QED
    BY <1>1, <1>4, <2>1, <2>2, <2>3, <2>4, OtherRequest
<1> QED
  BY <1>2, <1>5, <1>6, <1>7, <1>8

\* One more refund in the table.
LEMMA OneMoreRefund ==
    ASSUME TypeOK, RefundsOK, NEW q \in RefundRow, q \notin refunds,
           refunds' = refunds \cup {q}
    PROVE  /\ \A i \in Items : Refunded(i) \in Int /\ Refunded(i)' = Refunded(i) + q.units[i]
           /\ Committed(q.sale)' = Committed(q.sale) \cup {q}
           /\ PaidBack(q.sale) \in Int /\ PaidBack(q.sale)' = PaidBack(q.sale) + q.amount
           /\ TaxBack(q.sale) \in Int /\ TaxBack(q.sale)' = TaxBack(q.sale) + q.tax
           /\ \A s : s # q.sale => /\ Committed(s)' = Committed(s)
                                   /\ PaidBack(s)' = PaidBack(s) /\ TaxBack(s)' = TaxBack(s)
<1>1. refunds \in SUBSET RefundRow /\ IsFiniteSet(refunds)
  BY DEF TypeOK, RefundsOK
<1>2. /\ Committed(q.sale)' = Committed(q.sale) \cup {q} /\ q \notin Committed(q.sale)
      /\ \A s : s # q.sale => Committed(s)' = Committed(s)
      /\ \A s : IsFiniteSet(Committed(s)) /\ Committed(s) \subseteq refunds
  BY <1>1, FS_Subset DEF Committed
<1>3. ASSUME NEW i \in Items
      PROVE  Refunded(i) \in Int /\ Refunded(i)' = Refunded(i) + q.units[i]
  <2> DEFINE f == [r \in refunds |-> r.units[i]]
             g == [r \in refunds \cup {q} |-> r.units[i]]
  <2>1. \A r \in refunds : f[r] \in Int /\ g[r] = f[r]
    BY <1>1 DEF RefundRow
  <2>2. g[q] = q.units[i]
    OBVIOUS
  <2>3. g[q] \in Int
    BY <2>2 DEF RefundRow
  <2>4. IsFiniteSet(refunds)
    BY <1>1
  <2> HIDE DEF f, g
  <2>5. \A r \in refunds : f[r] \in Int /\ g[r] = f[r]
    BY <2>1
  <2>6. Sigma(f, refunds) \in Int /\ Sigma(g, refunds \cup {q}) = Sigma(f, refunds) + g[q]
    <3>1. Sigma(f, refunds) \in Int
      BY <2>4, <2>5, SigmaType
    <3>2. Sigma(g, refunds) = Sigma(f, refunds)
      BY <2>4, <2>5, SigmaSame
    <3>3. \A r \in refunds \cup {q} : g[r] \in Int
      BY <2>3, <2>5
    <3>4. Sigma(g, refunds \cup {q}) = Sigma(g, refunds) + g[q]
      BY <2>4, <3>3, SigmaAdd
    <3> QED
      BY <3>1, <3>2, <3>4
  <2> QED
    BY <2>2, <2>6 DEF Refunded, f, g
<1> DEFINE a == [r \in refunds |-> r.amount]
           b == [r \in refunds \cup {q} |-> r.amount]
           d == [r \in refunds |-> r.tax]
           e == [r \in refunds \cup {q} |-> r.tax]
<1>4. /\ \A r \in refunds : a[r] \in Int /\ b[r] = a[r] /\ d[r] \in Int /\ e[r] = d[r]
      /\ b[q] = q.amount /\ e[q] = q.tax /\ q.amount \in Int /\ q.tax \in Int
  BY <1>1 DEF RefundRow
<1>5. \A s : /\ PaidBack(s) = Sigma(a, Committed(s)) /\ TaxBack(s) = Sigma(d, Committed(s))
             /\ PaidBack(s)' = Sigma(b, Committed(s)') /\ TaxBack(s)' = Sigma(e, Committed(s)')
  BY DEF PaidBack, TaxBack
<1> HIDE DEF a, b, d, e
<1>6. ASSUME NEW s, s # q.sale
      PROVE  PaidBack(s)' = PaidBack(s) /\ TaxBack(s)' = TaxBack(s)
  <2>1. /\ IsFiniteSet(Committed(s))
        /\ \A r \in Committed(s) : a[r] \in Int /\ b[r] = a[r] /\ d[r] \in Int /\ e[r] = d[r]
    BY <1>2, <1>4
  <2>2. Sigma(b, Committed(s)) = Sigma(a, Committed(s)) /\ Sigma(e, Committed(s)) = Sigma(d, Committed(s))
    BY <2>1, SigmaSame
  <2> QED
    BY <1>2, <1>5, <1>6, <2>2
<1>7. /\ PaidBack(q.sale) \in Int /\ PaidBack(q.sale)' = PaidBack(q.sale) + q.amount
      /\ TaxBack(q.sale) \in Int /\ TaxBack(q.sale)' = TaxBack(q.sale) + q.tax
  <2> DEFINE S == Committed(q.sale)
  <2>1. Committed(q.sale)' = S \cup {q}
    BY <1>2
  <2>2. IsFiniteSet(S)
    BY <1>2
  <2>3. q \notin S
    BY <1>2
  <2>4. b[q] \in Int
    BY <1>4
  <2>5. e[q] \in Int
    BY <1>4
  <2>6. \A r \in S : a[r] \in Int /\ b[r] = a[r]
    BY <1>2, <1>4
  <2>7. \A r \in S : d[r] \in Int /\ e[r] = d[r]
    BY <1>2, <1>4
  <2> HIDE DEF S
  <2>8. Sigma(a, S) \in Int /\ Sigma(b, S \cup {q}) = Sigma(a, S) + b[q]
    <3>1. Sigma(a, S) \in Int
      BY <2>2, <2>6, SigmaType
    <3>2. Sigma(b, S) = Sigma(a, S)
      BY <2>2, <2>6, SigmaSame
    <3>3. \A r \in S \cup {q} : b[r] \in Int
      BY <2>4, <2>6
    <3>4. Sigma(b, S \cup {q}) = Sigma(b, S) + b[q]
      BY <2>2, <2>3, <3>3, SigmaAdd
    <3> QED
      BY <3>1, <3>2, <3>4
  <2>9. Sigma(d, S) \in Int /\ Sigma(e, S \cup {q}) = Sigma(d, S) + e[q]
    <3>1. Sigma(d, S) \in Int
      BY <2>2, <2>7, SigmaType
    <3>2. Sigma(e, S) = Sigma(d, S)
      BY <2>2, <2>7, SigmaSame
    <3>3. \A r \in S \cup {q} : e[r] \in Int
      BY <2>5, <2>7
    <3>4. Sigma(e, S \cup {q}) = Sigma(e, S) + e[q]
      BY <2>2, <2>3, <3>3, SigmaAdd
    <3> QED
      BY <3>1, <3>2, <3>4
  <2> QED
    BY <1>4, <1>5, <2>1, <2>8, <2>9 DEF S
<1> QED
  BY <1>2, <1>3, <1>6, <1>7

\* The row that worker w inserts.
NewRefund(w) ==
    [uuid |-> tx[w].body, sale |-> SaleOf[tx[w].body],
     units |-> [i \in Items |-> Units(tx[w].targets, i)],
     amount |-> tx[w].amount, tax |-> tx[w].tax, after |-> tx[w].after]

\* What a commit finds and what it does.
LEMMA CommitFacts ==
    ASSUME IInv, NEW w \in Workers, Commit(w), NEW q, q = NewRefund(w)
    PROVE  /\ tx[w] \in Requests /\ tx[w].step = "flush" /\ tx[w].restock = {}
           /\ tx[w].body \in Bodies /\ q.sale \in Sales /\ q.sale = SaleOf[tx[w].body]
           /\ TargetItems(tx[w].targets) \subseteq ItemSet(q.sale) /\ IsFiniteSet(tx[w].targets)
           /\ q \in RefundRow /\ q.uuid = tx[w].body /\ q.after = tx[w].after
           /\ q.amount = tx[w].amount /\ q.tax = tx[w].tax
           /\ \A i \in Items : /\ q.units[i] = Units(tx[w].targets, i) /\ q.units[i] \in Nat
                               /\ i \notin TargetItems(tx[w].targets) => q.units[i] = 0
           /\ \A r \in refunds : r.uuid # q.uuid
           /\ q \notin refunds /\ refunds' = refunds \cup {q}
           /\ lock[tx[w].body] = w
           /\ \A i \in Items : lock[i] = w <=> i \in TargetItems(tx[w].targets)
           /\ \A i \in Items : refundedQty'[i] = IF i \in TargetItems(tx[w].targets)
                                                 THEN tx[w].qty[i] ELSE refundedQty[i]
<1> USE DEF IInv
<1>1. /\ tx[w] \in Requests /\ tx[w].step = "flush" /\ tx[w].step \in Writing
      /\ tx[w].inserted /\ tx[w].pending = {} /\ tx[w].restock = {}
  BY DEF Commit, Flushed, At, TypeOK, Writing
<1>2. tx[w].body \in Bodies /\ SaleOf[tx[w].body] \in Sales
  BY <1>1, RefundAssumption DEF RequestOK, HoldsOK
<1>3. /\ IsFiniteSet(tx[w].targets)
      /\ TargetItems(tx[w].targets) \subseteq ItemSet(SaleOf[tx[w].body])
      /\ \A i \in Items : lock[i] = w <=> i \in TargetItems(tx[w].targets)
      /\ lock[tx[w].body] = w
      /\ \A r \in refunds : r.uuid # tx[w].body
  BY <1>1 DEF RequestOK, TargetsOK
<1> DEFINE units == [i \in Items |-> Units(tx[w].targets, i)]
<1>4. /\ tx[w].targets \in SUBSET Target /\ tx[w].amount \in Int /\ tx[w].tax \in Int
      /\ tx[w].after \in SUBSET Bodies
  BY <1>1 DEF Requests
<1>5. \A i \in Items : Units(tx[w].targets, i) \in Nat
  BY <1>3, <1>4, UnitsType
<1>6. \A i \in Items : i \notin TargetItems(tx[w].targets) => Units(tx[w].targets, i) = 0
  <2> SUFFICES ASSUME NEW i \in Items, i \notin TargetItems(tx[w].targets)
               PROVE  Units(tx[w].targets, i) = 0
    OBVIOUS
  <2>1. {t \in tx[w].targets : t.item = i} = {}
    BY DEF TargetItems
  <2> QED
    BY <2>1, SigmaEmpty DEF Units
<1>7. units \in [Items -> Nat] /\ \A i \in Items : units[i] = Units(tx[w].targets, i)
  BY <1>5
<1> HIDE DEF units
<1>8. q = [uuid |-> tx[w].body, sale |-> SaleOf[tx[w].body], units |-> units,
           amount |-> tx[w].amount, tax |-> tx[w].tax, after |-> tx[w].after]
  BY DEF NewRefund, units
<1>9. /\ q \in RefundRow /\ q.uuid = tx[w].body /\ q.after = tx[w].after
      /\ q.amount = tx[w].amount /\ q.tax = tx[w].tax /\ q.units = units
      /\ q.sale = SaleOf[tx[w].body]
  BY <1>2, <1>4, <1>7, <1>8 DEF RefundRow
<1>10. q \notin refunds
  BY <1>3, <1>9
<1>11. refunds' = refunds \cup {q}
  BY <1>8 DEF Commit, units
<1>12. \A i \in Items : refundedQty'[i] = IF i \in TargetItems(tx[w].targets)
                                          THEN tx[w].qty[i] ELSE refundedQty[i]
  BY <1>3 DEF Commit
<1> QED
  BY <1>1, <1>2, <1>3, <1>5, <1>6, <1>7, <1>9, <1>10, <1>11, <1>12

\* If the refunds of the sale are still clean after it, the commit worked from
\* figures that are true.
LEMMA CleanCommit ==
    ASSUME IInv, NEW w \in Workers, Commit(w), NEW s, s = SaleOf[tx[w].body], Clean(s)'
    PROVE  Clean(s) /\ Fresh(w) /\ NamesOnce(tx[w].body)
<1> USE DEF IInv
<1>1. PICK q : q = NewRefund(w)
  OBVIOUS
<1>2. /\ q.sale = s /\ q.uuid = tx[w].body /\ q.after = tx[w].after
      /\ refunds' = refunds \cup {q} /\ \A r \in refunds : r.uuid # q.uuid
  BY <1>1, CommitFacts
<1>3. Committed(s)' = Committed(s) \cup {q} /\ Committed(s) \subseteq refunds
  BY <1>2 DEF Committed
<1>4. Clean(s)
  BY <1>3 DEF Clean
<1>5. ASSUME NEW r \in Committed(s) PROVE r.uuid \in tx[w].after
  <2>1. r # q
    BY <1>2, <1>3
  <2>2. q.uuid \notin r.after
    BY <1>2, <1>3 DEF RefundsOK
  <2>3. r.uuid \in q.after \/ q.uuid \in r.after
    BY <1>3, <2>1 DEF Clean
  <2> QED
    BY <1>2, <2>2, <2>3
<1>6. NamesOnce(tx[w].body)
  BY <1>2, <1>3 DEF Clean, NamesOnce
<1> QED
  BY <1>4, <1>5, <1>6 DEF Fresh

\* What comes back to the shelf of product p with the commit is what the refund says.
LEMMA CommitReturns ==
    ASSUME IInv, NEW w \in Workers, Commit(w), NEW p \in Products
    PROVE  LET U == [i \in Items |-> Units(tx[w].targets, i)] IN
           tx[w].returned[p] = IF p \in Tracked
                               THEN Sigma(U, {i \in Items : Product[i] = p})
                               ELSE 0
<1> USE DEF IInv
<1>1. PICK q : q = NewRefund(w)
  OBVIOUS
<1>2. /\ tx[w].step \in Writing /\ tx[w].restock = {} /\ IsFiniteSet(tx[w].targets)
      /\ tx[w].targets \in SUBSET Target
  BY <1>1, CommitFacts DEF Writing, Requests
<1>3. tx[w].returned[p] = Sigma(QtyOf(tx[w].targets), Brought(w, p))
  BY <1>2 DEF RequestOK, ShelfOK
<1>4. CASE p \notin Tracked
  <2>1. Brought(w, p) = {}
    BY <1>4 DEF Brought, Restocks
  <2> QED
    BY <1>3, <1>4, <2>1, SigmaEmpty
<1>5. CASE p \in Tracked
  <2> DEFINE S == tx[w].targets
             T == {i \in Items : Product[i] = p}
             U == [i \in Items |-> Units(S, i)]
             G == [i \in Items |-> {t \in S : t.item = i}]
             f == [t \in S |-> t.qty]
             B == {t \in S : Product[t.item] = p}
  <2>1. Brought(w, p) = B
    BY <1>2, <1>5 DEF Brought, Restocks
  <2>2. B \in SUBSET S /\ IsFiniteSet(S)
    BY <1>2
  <2>3. IsFiniteSet(B) /\ IsFiniteSet(T)
    BY <2>2, RefundAssumption, FS_Subset
  <2>4. Terms(f, B)
    BY <1>2 DEF Target, Terms
  <2>5. \A i \in T : U[i] = Sigma(f, G[i])
    BY DEF Units
  <2>6. \A i \in T : G[i] \in SUBSET B
    OBVIOUS
  <2>7. \A t \in B : \E i \in T : t \in G[i]
    BY <1>2 DEF Target
  <2>8. \A i, j \in T : i # j => G[i] \cap G[j] = {}
    OBVIOUS
  <2>9. QtyOf(tx[w].targets) = f
    BY DEF QtyOf
  <2> HIDE DEF S, T, U, G, f, B
  <2>10. Sigma(U, T) = Sigma(f, B)
    BY <2>3, <2>4, <2>5, <2>6, <2>7, <2>8, SigmaByGroups DEF Partition, Totals
  <2> QED
    BY <1>3, <1>5, <2>1, <2>9, <2>10 DEF S, T, U
<1> QED
  BY <1>4, <1>5

\* A commit moves stock as its refund items say.
LEMMA CommitStock ==
    ASSUME IInv, NEW w \in Workers, Commit(w)
    PROVE  StockFollowsRefunds'
<1> USE DEF IInv
<1>1. PICK q : q = NewRefund(w)
  OBVIOUS
<1>2. /\ tx[w] \in Requests /\ tx[w].step \in Writing /\ q \in RefundRow
      /\ q \notin refunds /\ refunds' = refunds \cup {q}
      /\ \A i \in Items : q.units[i] = Units(tx[w].targets, i) /\ q.units[i] \in Nat
  BY <1>1, CommitFacts DEF Writing
<1>3. \A i \in Items : Refunded(i) \in Int /\ Refunded(i)' = Refunded(i) + q.units[i]
  BY <1>2, OneMoreRefund
<1> SUFFICES ASSUME NEW p \in Products
             PROVE  /\ stock'[p] = returned'[p] + otherMoves'[p]
                    /\ returned'[p] =
                         IF p \in Tracked
                         THEN Sigma([i \in Items |-> Refunded(i)'], {i \in Items : Product[i] = p})
                         ELSE 0
  BY DEF StockFollowsRefunds
<1>4. /\ stock'[p] = ShelfSeenBy(w, p) /\ returned'[p] = returned[p] + tx[w].returned[p]
      /\ otherMoves' = otherMoves
  BY DEF Commit
<1>5. /\ stock[p] \in Int /\ returned[p] \in Nat /\ otherMoves[p] \in Int
      /\ tx[w].returned[p] \in Nat
  BY <1>2 DEF TypeOK, Requests
<1>6. IF lock[p] = w THEN tx[w].stock[p] = stock[p] + tx[w].returned[p]
                     ELSE tx[w].returned[p] = 0
  BY <1>2 DEF RequestOK, ShelfOK
<1> DEFINE f == [i \in Items |-> Refunded(i)]
           g == [i \in Items |-> Units(tx[w].targets, i)]
           h == [i \in Items |-> Refunded(i)']
           T == {i \in Items : Product[i] = p}
<1>7. stock[p] = returned[p] + otherMoves[p]
  BY DEF StockFollowsRefunds
<1>8. returned[p] = IF p \in Tracked THEN Sigma(f, T) ELSE 0
  BY DEF StockFollowsRefunds
<1>9. tx[w].returned[p] = IF p \in Tracked THEN Sigma(g, T) ELSE 0
  BY CommitReturns
<1>10. IsFiniteSet(T)
  BY RefundAssumption, FS_Subset
<1>11. \A i \in T : f[i] \in Int /\ g[i] \in Int /\ h[i] = f[i] + g[i]
  BY <1>2, <1>3
<1> HIDE DEF f, g, h, T
<1>12. Sigma(h, T) = Sigma(f, T) + Sigma(g, T)
  BY <1>10, <1>11, SigmaPlus
<1>13. stock'[p] = returned'[p] + otherMoves'[p]
  BY <1>4, <1>5, <1>6, <1>7 DEF ShelfSeenBy
<1>14. returned'[p] = IF p \in Tracked THEN Sigma(h, T) ELSE 0
  BY <1>4, <1>8, <1>9, <1>12
<1> QED
  BY <1>13, <1>14 DEF h, T

\* The units that a commit whose figures are true leaves refunded.
LEMMA CleanUnits ==
    ASSUME IInv, NEW w \in Workers, Commit(w), NEW s, s = SaleOf[tx[w].body], Clean(s)',
           NEW i \in ItemSet(s)
    PROVE  /\ Refunded(i) \in Int /\ Refunded(i)' = tx[w].qty[i]
           /\ refundedQty'[i] = Refunded(i)' /\ Refunded(i)' <= Qty[i]
<1> USE DEF IInv
<1>1. PICK q : q = NewRefund(w)
  OBVIOUS
<1>2. /\ tx[w] \in Requests /\ tx[w].step \in Writing /\ q \in RefundRow
      /\ q \notin refunds /\ refunds' = refunds \cup {q} /\ s \in Sales
      /\ IsFiniteSet(tx[w].targets)
  BY <1>1, CommitFacts DEF Writing
<1>3. i \in Items /\ Qty[i] \in Nat /\ refundedQty[i] \in Nat
  <2>1. ItemsOf[s] \in Seq(Items)
    BY <1>2, RefundAssumption
  <2>2. i \in Items
    BY <2>1 DEF ItemSet, Range
  <2> QED
    BY <2>2, RefundAssumption DEF TypeOK
<1>4. /\ q.units[i] = Units(tx[w].targets, i) /\ q.units[i] \in Nat
      /\ i \notin TargetItems(tx[w].targets) => q.units[i] = 0
      /\ refundedQty'[i] = IF i \in TargetItems(tx[w].targets) THEN tx[w].qty[i] ELSE refundedQty[i]
  BY <1>1, <1>3, CommitFacts
<1>5. Refunded(i) \in Int /\ Refunded(i)' = Refunded(i) + q.units[i]
  BY <1>2, <1>3, OneMoreRefund
<1>6. Clean(s) /\ Fresh(w) /\ NamesOnce(tx[w].body)
  BY CleanCommit
<1>7. refundedQty[i] = Refunded(i) /\ Refunded(i) <= Qty[i]
  BY <1>2, <1>6 DEF UnitsAddUp
<1>8. /\ tx[w].qty[i] = refundedQty[i] + Units(tx[w].targets, i)
      /\ \A t \in tx[w].targets : t.qty <= Qty[t.item] - refundedQty[t.item]
      /\ \A t, u \in tx[w].targets : t.item = u.item => t = u
  BY <1>2, <1>6 DEF RequestOK, ReadOK, TargetsOK
<1>9. refundedQty[i] + q.units[i] <= Qty[i]
  <2>1. CASE i \notin TargetItems(tx[w].targets)
    BY <1>3, <1>4, <1>7, <2>1
  <2>2. CASE i \in TargetItems(tx[w].targets)
    <3>1. PICK t \in tx[w].targets : t.item = i
      BY <2>2 DEF TargetItems
    <3> DEFINE f == [u \in tx[w].targets |-> u.qty]
    <3>2. {u \in tx[w].targets : u.item = i} = {t}
      BY <1>8, <3>1
    <3>3. f[t] = t.qty /\ t.qty \in Int
      BY <1>2, <3>1 DEF Requests, Target
    <3>4. Units(tx[w].targets, i) = Sigma(f, {t})
      BY <3>2 DEF Units
    <3> HIDE DEF f
    <3>5. Sigma(f, {t}) = t.qty
      BY <3>3, SigmaSingleton
    <3> QED
      BY <1>3, <1>4, <1>8, <3>1, <3>3, <3>4, <3>5
  <2> QED
    BY <2>1, <2>2
<1> QED
  BY <1>3, <1>4, <1>5, <1>7, <1>8, <1>9

\* The items of other sales are refunded as they were.
LEMMA OtherSales ==
    ASSUME IInv, NEW w \in Workers, Commit(w), NEW s \in Sales, s # SaleOf[tx[w].body]
    PROVE  /\ Committed(s)' = Committed(s) /\ PaidBack(s)' = PaidBack(s)
           /\ TaxBack(s)' = TaxBack(s) /\ sale'[s] = sale[s]
           /\ \A i \in ItemSet(s) : Refunded(i)' = Refunded(i) /\ refundedQty'[i] = refundedQty[i]
<1> USE DEF IInv
<1>1. PICK q : q = NewRefund(w)
  OBVIOUS
<1>2. /\ q \in RefundRow /\ q.sale = SaleOf[tx[w].body] /\ q.sale \in Sales
      /\ q \notin refunds /\ refunds' = refunds \cup {q}
      /\ TargetItems(tx[w].targets) \subseteq ItemSet(q.sale)
  BY <1>1, CommitFacts
<1>3. ItemSet(s) \cap ItemSet(q.sale) = {} /\ ItemSet(s) \subseteq Items
  <2>1. ItemSet(s) \cap ItemSet(q.sale) = {}
    BY <1>2, RefundAssumption DEF ItemSet
  <2>2. ItemsOf[s] \in Seq(Items)
    BY RefundAssumption
  <2> QED
    BY <2>1, <2>2 DEF ItemSet, Range
<1>4. /\ Committed(s)' = Committed(s) /\ PaidBack(s)' = PaidBack(s) /\ TaxBack(s)' = TaxBack(s)
      /\ \A i \in Items : Refunded(i) \in Int /\ Refunded(i)' = Refunded(i) + q.units[i]
  BY <1>2, OneMoreRefund
<1>5. sale'[s] = sale[s]
  BY DEF Commit, TypeOK
<1>6. ASSUME NEW i \in ItemSet(s)
      PROVE  Refunded(i)' = Refunded(i) /\ refundedQty'[i] = refundedQty[i]
  <2>1. i \in Items /\ i \notin TargetItems(tx[w].targets)
    BY <1>2, <1>3
  <2>2. q.units[i] = 0 /\ refundedQty'[i] = refundedQty[i]
    BY <1>1, <2>1, CommitFacts
  <2> QED
    BY <1>4, <2>1, <2>2
<1> QED
  BY <1>4, <1>5, <1>6

\* A commit on a sale whose refunds did not overlap adds its units to the column.
LEMMA CommitUnits ==
    ASSUME IInv, NEW w \in Workers, Commit(w)
    PROVE  UnitsAddUp'
<1> SUFFICES ASSUME NEW s \in Sales, Clean(s)', NEW i \in ItemSet(s)
             PROVE  refundedQty'[i] = Refunded(i)' /\ Refunded(i)' <= Qty[i]
  BY DEF UnitsAddUp
<1>1. CASE s = SaleOf[tx[w].body]
  BY <1>1, CleanUnits
<1>2. CASE s # SaleOf[tx[w].body]
  <2>1. Clean(s)
    BY <1>2, OtherSales DEF Clean
  <2>2. refundedQty[i] = Refunded(i) /\ Refunded(i) <= Qty[i]
    BY <2>1 DEF IInv, UnitsAddUp
  <2> QED
    BY <1>2, <2>2, OtherSales
<1> QED
  BY <1>1, <1>2

\* Such a commit adds its amount to the running total, and the last one pays the rest.
LEMMA CommitMoney ==
    ASSUME IInv, NEW w \in Workers, Commit(w)
    PROVE  MoneyAddsUp'
<1> USE DEF IInv
<1> SUFFICES ASSUME NEW s \in Sales, Clean(s)'
             PROVE  LET all == \A i \in ItemSet(s) : Refunded(i)' = Qty[i] IN
                    /\ sale'[s].refundedTotal = PaidBack(s)'
                    /\ sale'[s].status = IF Committed(s)' = {} THEN "completed"
                                         ELSE IF all THEN "refunded" ELSE "partially_refunded"
                    /\ all => PaidBack(s)' = SaleTotal[s] /\ TaxBack(s)' = SaleTax[s]
  BY DEF MoneyAddsUp
<1> DEFINE was == \A i \in ItemSet(s) : Refunded(i) = Qty[i]
           all == \A i \in ItemSet(s) : Refunded(i)' = Qty[i]
<1>1. CASE s = SaleOf[tx[w].body]
  <2>1. PICK q : q = NewRefund(w)
    OBVIOUS
  <2>2. /\ tx[w] \in Requests /\ tx[w].step = "flush" /\ q \in RefundRow /\ q.sale = s
        /\ q \notin refunds /\ refunds' = refunds \cup {q}
        /\ q.amount = tx[w].amount /\ q.tax = tx[w].tax
    BY <1>1, <2>1, CommitFacts
  <2>3. /\ Committed(s)' # {}
        /\ PaidBack(s) \in Int /\ PaidBack(s)' = PaidBack(s) + tx[w].amount
        /\ TaxBack(s) \in Int /\ TaxBack(s)' = TaxBack(s) + tx[w].tax
    BY <2>2, OneMoreRefund
  <2>4. Clean(s) /\ Fresh(w)
    BY <1>1, CleanCommit
  <2>5. /\ tx[w].seen = sale[s]
        /\ Empties(w) => /\ tx[w].amount = LastAmount(w)
                         /\ tx[w].tax = SaleTax[s] - TaxBack(s)
    BY <1>1, <2>2, <2>4 DEF RequestOK, ReadOK, Writing, At
  <2>6. all <=> Empties(w)
    BY <1>1, CleanUnits DEF Empties
  <2>7. sale'[s] = WrittenBack(w, s)
    BY <1>1 DEF Commit, TypeOK
  <2>8. /\ sale'[s].status = IF Empties(w) THEN "refunded" ELSE "partially_refunded"
        /\ sale'[s].refundedTotal = IF tx[w].amount = 0 THEN sale[s].refundedTotal
                                    ELSE sale[s].refundedTotal + tx[w].amount
    BY <1>1, <2>5, <2>7 DEF WrittenBack, Empties
  <2>9. sale[s].refundedTotal = PaidBack(s)
    BY <2>4 DEF MoneyAddsUp
  <2>10. tx[w].amount \in Int /\ tx[w].tax \in Int /\ SaleTotal[s] \in Int /\ SaleTax[s] \in Int
    BY <2>2, RefundAssumption DEF Requests
  <2>11. sale'[s].refundedTotal = PaidBack(s)'
    BY <2>3, <2>8, <2>9, <2>10
  <2>12. Empties(w) => PaidBack(s)' = SaleTotal[s] /\ TaxBack(s)' = SaleTax[s]
    BY <1>1, <2>3, <2>5, <2>9, <2>10 DEF LastAmount
  <2> QED
    BY <2>3, <2>6, <2>8, <2>11, <2>12
<1>2. CASE s # SaleOf[tx[w].body]
  <2>1. /\ Committed(s)' = Committed(s) /\ PaidBack(s)' = PaidBack(s)
        /\ TaxBack(s)' = TaxBack(s) /\ sale'[s] = sale[s]
    BY <1>2, OtherSales
  <2>2. all <=> was
    BY <1>2, OtherSales
  <2>3. Clean(s)
    BY <2>1 DEF Clean
  <2>4. /\ sale[s].refundedTotal = PaidBack(s)
        /\ sale[s].status = IF Committed(s) = {} THEN "completed"
                            ELSE IF was THEN "refunded" ELSE "partially_refunded"
        /\ was => PaidBack(s) = SaleTotal[s] /\ TaxBack(s) = SaleTax[s]
    BY <2>3 DEF MoneyAddsUp
  <2> QED
    BY <2>1, <2>2, <2>4
<1> QED
  BY <1>1, <1>2

\* A commit leaves the requests of the other handlers in order: those of the same sale
\* that read it before no longer count as fresh.
LEMMA CommitOthers ==
    ASSUME IInv, NEW w \in Workers, Commit(w), NEW v \in Workers \ {w}
    PROVE  RequestOK(v)'
<1> USE DEF IInv
<1>1. PICK q : q = NewRefund(w)
  OBVIOUS
<1>2. /\ q.sale = SaleOf[tx[w].body] /\ q.uuid = tx[w].body /\ tx[w].body \in Bodies
      /\ refunds' = refunds \cup {q} /\ (\A r \in refunds : r.uuid # q.uuid)
      /\ lock[tx[w].body] = w /\ Committed(q.sale)' = Committed(q.sale) \cup {q}
  <2>1. /\ q.sale = SaleOf[tx[w].body] /\ q.uuid = tx[w].body /\ tx[w].body \in Bodies
        /\ refunds' = refunds \cup {q} /\ (\A r \in refunds : r.uuid # q.uuid)
        /\ lock[tx[w].body] = w /\ q \in RefundRow /\ q \notin refunds
    BY <1>1, CommitFacts
  <2>2. Committed(q.sale)' = Committed(q.sale) \cup {q}
    BY <2>1, OneMoreRefund
  <2> QED
    BY <2>1, <2>2
<1>3. RequestOK(v) /\ tx[v] \in Requests /\ tx'[v] = tx[v]
  BY DEF TypeOK, Commit, Becomes
<1>4. \A r \in Rows : lock'[r] = v <=> lock[r] = v
  BY RefundAssumption DEF TypeOK, Commit, ReleaseRows
<1>5. tx[v].inserted => \A r \in refunds' : r.uuid # tx[v].body
  <2> SUFFICES ASSUME tx[v].inserted PROVE \A r \in refunds' : r.uuid # tx[v].body
    OBVIOUS
  <2>1. tx[v].step \in Writing
    BY <1>3 DEF RequestOK, HoldsOK
  <2>2. lock[tx[v].body] = v /\ \A r \in refunds : r.uuid # tx[v].body
    BY <1>3, <2>1 DEF RequestOK, TargetsOK
  <2>3. tx[v].body # tx[w].body
    BY <1>2, <2>2
  <2> QED
    BY <1>2, <2>2, <2>3
<1>6. \A p \in Products : lock[p] = v => stock'[p] = stock[p]
  BY DEF Commit, ShelfSeenBy
<1>7. ASSUME Fresh(v)', tx[v].step \in {"items"} \cup Writing
      PROVE  /\ Fresh(v)
             /\ sale'[SaleOf[tx[v].body]] = sale[SaleOf[tx[v].body]]
             /\ \A i \in ItemSet(SaleOf[tx[v].body]) : refundedQty'[i] = refundedQty[i]
             /\ TaxBack(SaleOf[tx[v].body])' = TaxBack(SaleOf[tx[v].body])
  <2>0. PICK s : s = SaleOf[tx[v].body]
    OBVIOUS
  <2>1. tx[v].after \subseteq {r.uuid : r \in refunds}
    BY <1>3, <1>7 DEF RequestOK, ReadOK
  <2>2. SaleOf[tx'[v].body] = s /\ tx'[v].after = tx[v].after
    BY <1>3, <2>0
  <2>3. \A r \in Committed(s)' : r.uuid \in tx[v].after
    BY <1>7, <2>2 DEF Fresh
  <2>4. s # q.sale
    BY <1>2, <2>1, <2>3
  <2>5. s \in Sales
    BY <1>3, <1>7, <2>0, RefundAssumption DEF RequestOK, HoldsOK, Writing
  <2>6. /\ Committed(s)' = Committed(s) /\ TaxBack(s)' = TaxBack(s) /\ sale'[s] = sale[s]
        /\ \A i \in ItemSet(s) : refundedQty'[i] = refundedQty[i]
    BY <1>2, <2>4, <2>5, OtherSales
  <2>7. Fresh(v)
    BY <2>0, <2>3, <2>6 DEF Fresh
  <2> QED
    BY <2>0, <2>2, <2>6, <2>7
<1> QED
  BY <1>2, <1>3, <1>4, <1>5, <1>6, <1>7, OtherRequest

\* Commit keeps the invariant.
LEMMA CommitInv ==
    ASSUME IInv, NEW w \in Workers, Commit(w)
    PROVE  IInv'
<1> USE DEF IInv
<1>1. PICK q : q = NewRefund(w)
  OBVIOUS
<1>2. /\ tx[w] \in Requests /\ tx[w].step \in Writing /\ tx[w].body \in Bodies
      /\ q \in RefundRow /\ q.uuid = tx[w].body /\ q.after = tx[w].after
      /\ refunds' = refunds \cup {q} /\ (\A r \in refunds : r.uuid # q.uuid)
      /\ SaleOf[tx[w].body] \in Sales /\ q.sale = SaleOf[tx[w].body]
      /\ TargetItems(tx[w].targets) \subseteq ItemSet(q.sale)
  BY <1>1, CommitFacts DEF Writing
<1> DEFINE r == [Idle EXCEPT !.step = "reply", !.body = tx[w].body]
<1>3. r \in Requests
  BY <1>2, IdleRequest DEF Requests, Steps
<1>4. Becomes(w, r) /\ ReleaseRows(w) /\ UNCHANGED <<otherMoves, answers, countVars>>
  BY DEF Commit
<1>5. tx'[w] = r
  BY <1>4 DEF Becomes, TypeOK
<1>6. RequestOK(w)'
  <2>1. \A row \in Rows : lock'[row] # w
    BY <1>4, RefundAssumption DEF ReleaseRows, TypeOK
  <2>2. \E x \in refunds' : x.uuid = tx[w].body
    BY <1>2
  <2>3. /\ r.step = "reply" /\ r.body = tx[w].body /\ ~r.inserted
        /\ \A p \in Products : r.returned[p] = 0
    BY DEF Idle
  <2> HIDE DEF r
  <2> QED
    BY <1>2, <1>5, <2>1, <2>2, <2>3
    DEF RequestOK, HoldsOK, TargetsOK, ShelfOK, ReadOK, Writing, At
<1>7. RefundsOK'
  <2>1. IsFiniteSet(refunds')
    BY <1>2, FS_AddElement DEF RefundsOK
  <2>2. q.after \subseteq {x.uuid : x \in refunds}
    BY <1>2 DEF RequestOK, ReadOK
  <2>3. \A i \in Items \ ItemSet(q.sale) : q.units[i] = 0
    BY <1>1, <1>2, CommitFacts
  <2> QED
    BY <1>2, <2>1, <2>2, <2>3 DEF RefundsOK
<1>8. OneRefundPerBody'
  BY <1>2, <1>4 DEF OneRefundPerBody
<1>9. TypeOK'
  <2>1. refunds' \in SUBSET RefundRow
    BY <1>2 DEF TypeOK
  <2>2. sale' \in [Sales -> SaleRow]
    <3>1. WrittenBack(w, SaleOf[tx[w].body]) \in SaleRow
      <4>1. /\ sale[SaleOf[tx[w].body]] \in SaleRow /\ tx[w].seen \in SaleRow
            /\ tx[w].amount \in Int
        BY <1>2 DEF TypeOK, Requests
      <4> QED
        BY <4>1 DEF WrittenBack, SaleRow, Status
    <3> QED
      BY <3>1 DEF Commit, TypeOK
  <2>3. refundedQty' \in [Items -> Nat]
    <3>1. tx[w].qty \in [Items -> Nat]
      BY <1>2 DEF Requests
    <3> QED
      BY <3>1 DEF Commit, TypeOK
  <2>4. stock' \in [Products -> Int] /\ returned' \in [Products -> Nat]
    <3>1. tx[w].stock \in [Products -> Int] /\ tx[w].returned \in [Products -> Nat]
      BY <1>2 DEF Requests
    <3> QED
      BY <3>1 DEF Commit, TypeOK, ShelfSeenBy
  <2>5. lock' \in [Rows -> Workers \cup {NoWorker}]
    BY <1>4 DEF ReleaseRows, TypeOK
  <2>6. tx' \in [Workers -> Requests]
    BY <1>3, <1>4 DEF Becomes, TypeOK
  <2> QED
    BY <1>4, <2>1, <2>2, <2>3, <2>4, <2>5, <2>6 DEF TypeOK, countVars
<1>10. \A v \in Workers : RequestOK(v)'
  BY <1>6, CommitOthers
<1> QED
  BY <1>7, <1>8, <1>9, <1>10, CommitStock, CommitUnits, CommitMoney
-----------------------------------------------------------------------------

\* Every step keeps the invariant.
LEMMA StepInv == IInv /\ [Next]_vars => IInv'
<1> SUFFICES ASSUME IInv, [Next]_vars PROVE IInv'
  OBVIOUS
<1>1. ASSUME NEW w \in Workers, Serve(w) PROVE IInv'
  <2>1. CASE FindRefund(w)
    BY <2>1, FindRefundInv
  <2>2. CASE ReadSale(w)
    BY <2>2, ReadSaleInv
  <2>3. CASE ReadItems(w)
    BY <2>3, ReadItemsInv
  <2>4. CASE UpdateItem(w)
    BY <2>4, UpdateItemInv
  <2>5. CASE ReadPriorRefunds(w)
    BY <2>5, ReadPriorRefundsInv
  <2>6. CASE InsertRefund(w)
    BY <2>6, InsertRefundInv
  <2>7. CASE Restock(w)
    BY <2>7, RestockInv
  <2>8. CASE Commit(w)
    BY <2>8, CommitInv
  <2>9. CASE Reply(w)
    BY <2>9, AnswerStep DEF Reply, At
  <2>10. CASE AbortDeadlock(w)
    <3>1. tx[w].step # "idle" /\ Answer(w, 500)
      BY <2>10 DEF AbortDeadlock, Awaited
    <3> QED
      BY <3>1, AnswerStep
  <2> QED
    BY <1>1, <2>1, <2>2, <2>3, <2>4, <2>5, <2>6, <2>7, <2>8, <2>9, <2>10 DEF Serve
<1>2. ASSUME NEW w \in Workers, Crash(w) PROVE IInv'
  <2>1. /\ Becomes(w, Idle) /\ ReleaseRows(w) /\ UNCHANGED <<dbVars, answers, submits, moves>>
        /\ crashes' = crashes + 1
    BY <1>2 DEF Crash
  <2>2. /\ answers' \in [Bodies -> SUBSET {200, 400, 500}] /\ answers' = answers
        /\ submits' \in Nat /\ crashes' \in Nat /\ moves' \in Nat
    BY <2>1 DEF IInv, TypeOK
  <2> QED
    BY <2>1, <2>2, EndStep
<1>3. ASSUME NEW w \in Workers, NEW c \in Bodies, Submit(w, c) PROVE IInv'
  BY <1>3, SubmitInv
<1>4. ASSUME NEW p \in Products, NEW d \in Deltas[p], MoveStock(p, d) PROVE IInv'
  BY <1>4, MoveStockInv
<1>5. CASE UNCHANGED vars
  <2>1. UNCHANGED dbVars /\ lock' = lock /\ tx' = tx /\ answers' = answers
        /\ submits' = submits /\ crashes' = crashes /\ moves' = moves
    BY <1>5 DEF vars, dbVars
  <2>2. TypeOK' /\ OneRefundPerBody'
    BY <2>1 DEF IInv, TypeOK, OneRefundPerBody, dbVars
  <2>3. ASSUME NEW v \in Workers PROVE RequestOK(v)'
    <3>1. RequestOK(v) /\ tx[v] \in Requests /\ tx'[v] = tx[v]
      BY <2>1 DEF IInv, TypeOK
    <3>2. Fresh(v)' = Fresh(v)
      BY <2>1, TablesOnly DEF Fresh
    <3>3. tx[v].inserted => \A q \in refunds' : q.uuid # tx[v].body
      <4>1. tx[v].inserted => tx[v].step \in Writing
        BY <3>1 DEF RequestOK, HoldsOK
      <4> QED
        BY <2>1, <3>1, <4>1 DEF RequestOK, TargetsOK, dbVars
    <3>4. \A s : TaxBack(s)' = TaxBack(s)
      BY <2>1, TablesOnly
    <3> QED
      BY <2>1, <3>1, <3>2, <3>3, <3>4, OtherRequest DEF dbVars
  <2> QED
    BY <2>1, <2>2, <2>3, TablesOnly DEF IInv
<1> QED
  BY <1>1, <1>2, <1>3, <1>4, <1>5 DEF Next

\* Every reachable state satisfies the inductive invariant, of which the properties are parts.
THEOREM Inductive == Spec => []IInv
<1> QED
  BY InitInv, StepInv, PTL DEF Spec

\* Every variable keeps its type.
THEOREM TypeCorrect == Spec => []TypeOK
<1>1. IInv => TypeOK
  BY DEF IInv
<1> QED
  BY <1>1, Inductive, PTL

\* However often a body is sent, to however many handlers, and wherever they crash or
\* deadlock, it is one refund, and a client told so has it.
THEOREM EachBodyRefundedOnce == Spec => []OneRefundPerBody
<1>1. IInv => OneRefundPerBody
  BY DEF IInv
<1> QED
  BY <1>1, Inductive, PTL

\* The stock of every product is its movements, and those of type return are the refund
\* items of tracked products.
THEOREM ShelvesFollowRefunds == Spec => []StockFollowsRefunds
<1>1. IInv => StockFollowsRefunds
  BY DEF IInv
<1> QED
  BY <1>1, Inductive, PTL

\* The refunds of a sale that did not overlap take from its items no more than was sold.
THEOREM UnitsOfRefundsAddUp == Spec => []UnitsAddUp
<1>1. IInv => UnitsAddUp
  BY DEF IInv
<1> QED
  BY <1>1, Inductive, PTL

\* The refunds of a sale that did not overlap are its running total, its status says how
\* far they went, and those that empty it pay back its total and its tax to the satang.
THEOREM MoneyOfRefundsAddsUp == Spec => []MoneyAddsUp
<1>1. IInv => MoneyAddsUp
  BY DEF IInv
<1> QED
  BY <1>1, Inductive, PTL
=============================================================================

--------------------------- MODULE CheckoutProofs ---------------------------
(***************************************************************************)
(* Theorems about Checkout for any number of handlers, bodies, products,   *)
(* customers and promotions.                                               *)
(***************************************************************************)
EXTENDS Checkout, DataTheorems

\* A request past the first look-up has a body with a line, and one being sold
\* line by line stands at a line of it.
BodyOK(t) ==
    /\ t.step \notin {"idle", "adjusted"} => t.cart \in Carts
    /\ t.step \notin {"idle", "adjusted", "find", "reply"} => Len(Lines[t.cart]) > 0
    /\ t.step \notin {"idle", "adjusted", "lines", "points", "uses", "commit", "reply"}
          => t.line = 1
    /\ t.step = "lines" => t.line <= Len(Lines[t.cart])
    /\ t.step = "points" => Buyer[t.cart] \in Customers

\* The tenant row is held exactly from the receipt number to commit.  While it
\* is, the number is the next one and, past the insert, the body has no sale.
ReceiptOK(w) ==
    /\ lock[Tenant] = w <=> tx[w].step \in HoldingSteps
    /\ tx[w].step \in HoldingSteps => tx[w].receipt = receiptCounter + 1
    /\ tx[w].step \in HoldingSteps \ {"insert"} => \A s \in sales : s.uuid # tx[w].cart
    /\ tx[w].step = "reply" =>
         \E s \in sales : s.uuid = tx[w].cart /\ s.receipt = tx[w].receipt
    /\ tx[w].step = "commit" => tx[w].used = uses

\* The version of a product row is the committed row plus the transaction's
\* own movements, and it has movements of no row it does not hold.
StockOK(w) ==
    \A p \in Products :
        IF lock[p] = w THEN tx[w].stock[p] = stock[p] + tx[w].moved[p]
                       ELSE tx[w].step # "reply" => tx[w].moved[p] = 0

\* Outside those steps, and an adjustment about to commit, no row is held.
RowsOK(w) ==
    tx[w].step \notin HoldingSteps \cup {"adjusted"} => \A r \in Rows : lock[r] # w

RequestOK(w) == BodyOK(tx[w]) /\ ReceiptOK(w) /\ StockOK(w) /\ RowsOK(w)

\* The inductive invariant.
IInv ==
    /\ TypeOK
    /\ IsFiniteSet(sales)
    /\ ReceiptsGapFree
    /\ OneSalePerCart
    /\ StockMatchesLedger
    /\ UsesMatchSales
    /\ \A w \in Workers : RequestOK(w)
-----------------------------------------------------------------------------
\* What stands at an index of a sequence.

\* A member of a sequence.
LEMMA ElementOfSeq ==
    ASSUME NEW S, NEW s \in Seq(S), NEW i \in 1 .. Len(s)
    PROVE  s[i] \in S
  OBVIOUS

\* What the arithmetic of a body yields.
LEMMA PointsDeltaType ==
    ASSUME NEW c \in Carts, NEW a \in SUBSET Promos
    PROVE  PointsEarned(c, a) \in Int /\ PointsDelta(c, a) \in Int
<1>1. FinalTotal(c, a) \in Int
  <2>1. Total[c][a] \in Int /\ Redeem[c] \in Int /\ PointValue \in Int
    BY BodyAssumption, ShopAssumption
  <2>2. PointValue * Redeem[c] \in Int
    BY <2>1
  <2> QED
    BY <2>1, <2>2 DEF FinalTotal
<1>2. ASSUME NEW x \in Int, BahtPerPoint > 0 PROVE x \div BahtPerPoint \in Int
  BY <1>2, ShopAssumption
<1>3. PointsEarned(c, a) \in Int
  BY <1>1, <1>2 DEF PointsEarned
<1> QED
  BY <1>3, BodyAssumption DEF PointsDelta

\* A handler without a request.
LEMMA IdleRequest ==
    /\ Idle \in Requests
    /\ Idle.step = "idle" /\ Idle.line = 1
    /\ \A p \in Products : Idle.moved[p] = 0
  BY DEF Idle, Requests, Steps

\* The invariant holds at first.
LEMMA InitInv == Init => IInv
<1> SUFFICES ASSUME Init PROVE IInv
  OBVIOUS
<1>1. TypeOK
  BY IdleRequest, ShopAssumption DEF Init, TypeOK
<1>2. IsFiniteSet(sales) /\ UsesMatchSales
  <2>1. \A k \in Promos : {s \in sales : k \in s.applied} = {}
    BY DEF Init
  <2> QED
    BY <2>1, FS_EmptySet DEF Init, UsesMatchSales
<1>3. ReceiptsGapFree
  BY DEF Init, ReceiptsGapFree
<1>4. OneSalePerCart
  BY DEF Init, OneSalePerCart
<1>5. StockMatchesLedger
  BY ShopAssumption DEF Init, StockMatchesLedger
<1>6. ASSUME NEW w \in Workers PROVE RequestOK(w)
  BY IdleRequest, WorkerAssumption
     DEF Init, RequestOK, BodyOK, ReceiptOK, StockOK, RowsOK, HoldingSteps, Rows
<1> QED
  BY <1>1, <1>2, <1>3, <1>4, <1>5, <1>6 DEF IInv

\* Only worker w's request changes.
LEMMA BecomesOne ==
    ASSUME tx \in [Workers -> Requests], NEW w \in Workers, NEW r \in Requests,
           Becomes(w, r)
    PROVE  /\ tx' \in [Workers -> Requests]
           /\ tx'[w] = r
           /\ \A v \in Workers \ {w} : tx'[v] = tx[v]
  BY DEF Becomes

\* A step that changes worker w's request and takes at most one free row, and
\* leaves the committed tables and the answers alone, keeps the invariant if
\* the request it leaves behind is in order.
LEMMA PrivateStep ==
    ASSUME IInv, NEW w \in Workers, NEW r \in Requests, Becomes(w, r),
           UNCHANGED <<dbVars, answers>>,
           submits' \in Nat, crashes' \in Nat, adjusts' \in Nat,
           \/ lock' = lock
           \/ \E row \in Rows : TakeRow(w, row),
           RequestOK(w)'
    PROVE  IInv'
<1> USE DEF IInv
<1>1. /\ tx' \in [Workers -> Requests]
      /\ \A v \in Workers \ {w} : tx'[v] = tx[v]
  BY BecomesOne DEF TypeOK
<1>2. /\ lock' \in [Rows -> Workers \cup {NoWorker}]
      /\ \A v \in Workers \ {w} : \A row \in Rows : lock'[row] = v <=> lock[row] = v
  BY WorkerAssumption DEF TypeOK, TakeRow
<1>3. TypeOK'
  BY <1>1, <1>2 DEF TypeOK, dbVars
<1>4. (IsFiniteSet(sales) /\ ReceiptsGapFree /\ OneSalePerCart /\ StockMatchesLedger
       /\ UsesMatchSales)'
  BY DEF dbVars, ReceiptsGapFree, OneSalePerCart, StockMatchesLedger, UsesMatchSales
<1>5. ASSUME NEW v \in Workers \ {w} PROVE RequestOK(v)'
  <2> USE <1>1, <1>2 DEF dbVars, Rows
  <2>1. RequestOK(v)
    OBVIOUS
  <2>2. BodyOK(tx[v])'
    BY <2>1 DEF RequestOK, BodyOK
  <2>3. ReceiptOK(v)'
    BY <2>1 DEF RequestOK, ReceiptOK
  <2>4. StockOK(v)'
    BY <2>1 DEF RequestOK, StockOK
  <2>5. RowsOK(v)'
    BY <2>1 DEF RequestOK, RowsOK
  <2> QED
    BY <2>2, <2>3, <2>4, <2>5 DEF RequestOK
<1> QED
  BY <1>3, <1>4, <1>5

\* A step that ends worker w's request without a commit gives all its rows back.
LEMMA EndStep ==
    ASSUME IInv, NEW w \in Workers, Becomes(w, Idle), ReleaseRows(w), UNCHANGED dbVars,
           submits' \in Nat, crashes' \in Nat, adjusts' \in Nat,
           answers' \in [Carts -> SUBSET [code : {200, 400, 500}, receipt : Nat]],
           OneSalePerCart'
    PROVE  IInv'
<1> USE DEF IInv
<1>1. /\ tx' \in [Workers -> Requests]
      /\ tx'[w] = Idle
      /\ \A v \in Workers \ {w} : tx'[v] = tx[v]
  BY BecomesOne, IdleRequest DEF TypeOK
<1>2. /\ lock' \in [Rows -> Workers \cup {NoWorker}]
      /\ \A v \in Workers \ {w} : \A row \in Rows : lock'[row] = v <=> lock[row] = v
      /\ \A row \in Rows : lock'[row] # w
  BY WorkerAssumption DEF TypeOK, ReleaseRows
<1>3. TypeOK'
  BY <1>1, <1>2 DEF TypeOK, dbVars
<1>4. (IsFiniteSet(sales) /\ ReceiptsGapFree /\ StockMatchesLedger /\ UsesMatchSales)'
  BY DEF dbVars, ReceiptsGapFree, StockMatchesLedger, UsesMatchSales
<1>5. ASSUME NEW v \in Workers \ {w} PROVE RequestOK(v)'
  <2> USE <1>1, <1>2 DEF dbVars, Rows
  <2>1. RequestOK(v)
    OBVIOUS
  <2>2. BodyOK(tx[v])'
    BY <2>1 DEF RequestOK, BodyOK
  <2>3. ReceiptOK(v)'
    BY <2>1 DEF RequestOK, ReceiptOK
  <2>4. StockOK(v)'
    BY <2>1 DEF RequestOK, StockOK
  <2>5. RowsOK(v)'
    BY <2>1 DEF RequestOK, RowsOK
  <2> QED
    BY <2>2, <2>3, <2>4, <2>5 DEF RequestOK
<1>6. RequestOK(w)'
  BY <1>1, <1>2, IdleRequest
     DEF RequestOK, BodyOK, ReceiptOK, StockOK, RowsOK, HoldingSteps, Rows
<1> QED
  BY <1>3, <1>4, <1>5, <1>6
-----------------------------------------------------------------------------
\* One lemma per action.

\* Submit keeps the invariant.
LEMMA SubmitInv ==
    ASSUME IInv, NEW w \in Workers, NEW c \in Carts, Submit(w, c)
    PROVE  IInv'
<1> DEFINE r == [Idle EXCEPT !.step = "find", !.cart = c]
<1>1. r \in Requests /\ r.step = "find" /\ r.cart = c /\ r.line = 1
  BY IdleRequest DEF Requests, Steps
<1>2. Becomes(w, r) /\ \A p \in Products : r.moved[p] = 0
  BY IdleRequest DEF Submit, Requests
<1> HIDE DEF r
<1>3. tx'[w] = r
  BY <1>1, <1>2 DEF Becomes, IInv, TypeOK
<1>4. \A row \in Rows : lock'[row] # w
  BY DEF Submit, At, IInv, RequestOK, RowsOK, HoldingSteps
<1>5. RequestOK(w)'
  BY <1>1, <1>2, <1>3, <1>4
     DEF RequestOK, BodyOK, ReceiptOK, StockOK, RowsOK, HoldingSteps, Rows
<1> QED
  BY <1>1, <1>2, <1>5, PrivateStep DEF Submit, IInv, TypeOK

\* Answer keeps the invariant.
LEMMA AnswerInv ==
    ASSUME IInv, NEW w \in Workers, tx[w].cart \in Carts,
           NEW code \in {200, 400, 500}, NEW n \in Nat, Answer(w, code, n),
           code = 200 => \E s \in sales : s.uuid = tx[w].cart /\ s.receipt = n
    PROVE  IInv'
<1>1. answers' \in [Carts -> SUBSET [code : {200, 400, 500}, receipt : Nat]]
  BY DEF Answer, IInv, TypeOK
<1>2. ASSUME NEW c \in Carts, NEW a \in answers'[c], a.code = 200
      PROVE  \E s \in sales : s.uuid = c /\ s.receipt = a.receipt
  <2>1. CASE a \in answers[c]
    BY <1>2, <2>1 DEF IInv, OneSalePerCart
  <2>2. CASE a \notin answers[c]
    <3>1. c = tx[w].cart /\ a = [code |-> code, receipt |-> n]
      BY <1>2, <2>2 DEF Answer, IInv, TypeOK
    <3> QED
      BY <1>2, <3>1
  <2> QED
    BY <2>1, <2>2
<1>3. OneSalePerCart'
  BY <1>2 DEF Answer, dbVars, OneSalePerCart, IInv
<1> QED
  BY <1>1, <1>3, EndStep DEF Answer, countVars, IInv, TypeOK

\* FindSale keeps the invariant.
LEMMA FindSaleInv ==
    ASSUME IInv, NEW w \in Workers, FindSale(w)
    PROVE  IInv'
<1>1. PICK s \in sales :
        /\ s.uuid = tx[w].cart
        /\ Becomes(w, [tx[w] EXCEPT !.step = "reply", !.receipt = s.receipt])
  BY DEF FindSale
<1> DEFINE r == [tx[w] EXCEPT !.step = "reply", !.receipt = s.receipt]
<1>2. tx[w] \in Requests /\ s.receipt \in Nat
  BY DEF IInv, TypeOK, SaleRows
<1>3. r \in Requests /\ r.step = "reply" /\ r.cart = tx[w].cart /\ r.receipt = s.receipt
  BY <1>2 DEF Requests, Steps
<1> HIDE DEF r
<1>4. tx'[w] = r
  BY <1>1, <1>3 DEF Becomes, IInv, TypeOK, r
<1>5. \A row \in Rows : lock'[row] # w
  BY DEF FindSale, At, IInv, RequestOK, RowsOK, HoldingSteps
<1>6. r.cart \in Carts
  BY <1>3 DEF FindSale, At, IInv, RequestOK, BodyOK
<1>7. RequestOK(w)'
  BY <1>1, <1>3, <1>4, <1>5, <1>6
     DEF FindSale, dbVars, RequestOK, BodyOK, ReceiptOK, StockOK, RowsOK, HoldingSteps, Rows
<1> QED
  BY <1>1, <1>3, <1>7, PrivateStep DEF FindSale, dbVars, countVars, IInv, TypeOK, r

\* The steps before the receipt number: the request moves on and no row is held.
LEMMA ReadStep ==
    ASSUME IInv, NEW w \in Workers, NEW r \in Requests, Becomes(w, r),
           UNCHANGED <<dbVars, lock, answers, countVars>>,
           tx[w].step \in {"find", "customer", "promotions"},
           r.step \in {"customer", "promotions", "receipt"},
           r.cart = tx[w].cart, r.line = tx[w].line, r.moved = tx[w].moved,
           Lines[tx[w].cart] # <<>>
    PROVE  IInv'
<1>1. tx'[w] = r
  BY DEF Becomes, IInv, TypeOK
<1>2. \A row \in Rows : lock'[row] # w
  BY DEF IInv, RequestOK, RowsOK, HoldingSteps
<1>3. r.cart \in Carts /\ r.line = 1
  BY DEF IInv, RequestOK, BodyOK
<1>4. Len(Lines[r.cart]) > 0
  BY <1>3, BodyAssumption
<1>5. \A p \in Products : r.moved[p] = 0
  BY <1>2 DEF IInv, RequestOK, StockOK, Rows
<1>6. RequestOK(w)'
  BY <1>1, <1>2, <1>3, <1>4, <1>5
     DEF dbVars, RequestOK, BodyOK, ReceiptOK, StockOK, RowsOK, HoldingSteps, Rows
<1> QED
  BY <1>6, PrivateStep DEF dbVars, countVars, IInv, TypeOK

\* FindNoSale keeps the invariant.
LEMMA FindNoSaleInv ==
    ASSUME IInv, NEW w \in Workers, FindNoSale(w)
    PROVE  IInv'
<1>1. tx[w] \in Requests /\ tx[w].cart \in Carts
  BY DEF FindNoSale, At, IInv, TypeOK, RequestOK, BodyOK
<1>2. CASE Lines[tx[w].cart] = <<>>
  BY <1>1, <1>2, AnswerInv DEF FindNoSale
<1>3. CASE Lines[tx[w].cart] # <<>>
  <2> DEFINE r == [tx[w] EXCEPT !.step = "customer"]
  <2>1. /\ r \in Requests /\ r.step = "customer" /\ r.cart = tx[w].cart
        /\ r.line = tx[w].line /\ r.moved = tx[w].moved
    BY <1>1 DEF Requests, Steps
  <2>2. Becomes(w, r)
    BY <1>3 DEF FindNoSale
  <2> HIDE DEF r
  <2> QED
    BY <1>3, <2>1, <2>2, ReadStep DEF FindNoSale, At
<1> QED
  BY <1>2, <1>3

\* ReadCustomer keeps the invariant.
LEMMA ReadCustomerInv ==
    ASSUME IInv, NEW w \in Workers, ReadCustomer(w)
    PROVE  IInv'
<1> DEFINE buyer == Buyer[tx[w].cart]
           balance == IF buyer = NoCustomer THEN 0 ELSE points[buyer]
           r == [tx[w] EXCEPT !.step = "promotions", !.balance = balance]
<1>1. tx[w] \in Requests /\ tx[w].cart \in Carts /\ Len(Lines[tx[w].cart]) > 0
  BY DEF ReadCustomer, At, IInv, TypeOK, RequestOK, BodyOK
<1>2. balance \in Int
  BY <1>1, BodyAssumption DEF IInv, TypeOK
<1>3. Becomes(w, r)
  BY DEF ReadCustomer
<1> HIDE DEF balance
<1>4. /\ r \in Requests /\ r.step = "promotions" /\ r.cart = tx[w].cart
      /\ r.line = tx[w].line /\ r.moved = tx[w].moved
  BY <1>1, <1>2 DEF Requests, Steps
<1> HIDE DEF r
<1>5. Lines[tx[w].cart] # <<>>
  BY <1>1
<1> QED
  BY <1>3, <1>4, <1>5, ReadStep DEF ReadCustomer, At

\* ResolveCheckout keeps the invariant.
LEMMA ResolveCheckoutInv ==
    ASSUME IInv, NEW w \in Workers, ResolveCheckout(w)
    PROVE  IInv'
<1> DEFINE applied == AppliedNow(tx[w].cart)
           r == [tx[w] EXCEPT !.step = "receipt", !.applied = applied]
<1>1. tx[w] \in Requests /\ tx[w].cart \in Carts /\ Len(Lines[tx[w].cart]) > 0
  BY DEF ResolveCheckout, At, IInv, TypeOK, RequestOK, BodyOK
<1>2. applied \in SUBSET Promos
  BY <1>1, BodyAssumption DEF AppliedNow
<1>3. CASE Answer(w, 400, 0)
  BY <1>1, <1>3, AnswerInv
<1>4. CASE Becomes(w, r) /\ UNCHANGED <<dbVars, lock, answers, countVars>>
  <2> HIDE DEF applied
  <2>1. /\ r \in Requests /\ r.step = "receipt" /\ r.cart = tx[w].cart
        /\ r.line = tx[w].line /\ r.moved = tx[w].moved
    BY <1>1, <1>2 DEF Requests, Steps
  <2> HIDE DEF r
  <2>2. Lines[tx[w].cart] # <<>> /\ tx[w].step = "promotions"
    BY <1>1 DEF ResolveCheckout, At
  <2> QED
    BY <1>4, <2>1, <2>2, ReadStep
<1> QED
  BY <1>3, <1>4 DEF ResolveCheckout

\* NextReceiptNo keeps the invariant.
LEMMA NextReceiptNoInv ==
    ASSUME IInv, NEW w \in Workers, NextReceiptNo(w)
    PROVE  IInv'
<1> DEFINE r == [tx[w] EXCEPT !.step = "insert", !.receipt = receiptCounter + 1]
<1>1. tx[w] \in Requests /\ receiptCounter + 1 \in Nat
  BY DEF IInv, TypeOK
<1>2. Becomes(w, r)
  BY DEF NextReceiptNo
<1>3. /\ r \in Requests /\ r.step = "insert" /\ r.cart = tx[w].cart
      /\ r.receipt = receiptCounter + 1 /\ r.line = tx[w].line /\ r.moved = tx[w].moved
  BY <1>1 DEF Requests, Steps
<1> HIDE DEF r
<1>4. tx'[w] = r
  BY <1>2 DEF Becomes, IInv, TypeOK
<1>5. lock' = [lock EXCEPT ![Tenant] = w] /\ lock'[Tenant] = w
  BY DEF NextReceiptNo, TakeRow, IInv, TypeOK, Rows
<1>6. r.cart \in Carts /\ Len(Lines[r.cart]) > 0 /\ r.line = 1
  BY <1>3 DEF NextReceiptNo, At, IInv, RequestOK, BodyOK
<1>7. ASSUME NEW p \in Products PROVE lock'[p] # w /\ r.moved[p] = 0
  BY <1>3, <1>5, WorkerAssumption
     DEF NextReceiptNo, At, IInv, TypeOK, RequestOK, RowsOK, StockOK, HoldingSteps, Rows
<1>8. RequestOK(w)'
  BY <1>3, <1>4, <1>5, <1>6, <1>7
     DEF NextReceiptNo, dbVars, RequestOK, BodyOK, ReceiptOK, StockOK, RowsOK, HoldingSteps
<1> QED
  BY <1>2, <1>3, <1>8, PrivateStep DEF NextReceiptNo, countVars, IInv, TypeOK, Rows

\* InsertSale keeps the invariant.
LEMMA InsertSaleInv ==
    ASSUME IInv, NEW w \in Workers, InsertSale(w)
    PROVE  IInv'
<1> DEFINE r == [tx[w] EXCEPT !.step = "lines"]
<1>1. /\ tx[w] \in Requests /\ tx[w].cart \in Carts /\ Len(Lines[tx[w].cart]) > 0
      /\ tx[w].line = 1 /\ lock[Tenant] = w
  BY DEF InsertSale, At, IInv, TypeOK, RequestOK, BodyOK, ReceiptOK, HoldingSteps
<1>2. CASE Answer(w, 500, 0)
  BY <1>1, <1>2, AnswerInv
<1>3. CASE /\ \A s \in sales : s.uuid # tx[w].cart
           /\ Becomes(w, r)
           /\ UNCHANGED <<dbVars, lock, answers, countVars>>
  <2>1. /\ r \in Requests /\ r.step = "lines" /\ r.cart = tx[w].cart
        /\ r.receipt = tx[w].receipt /\ r.line = 1
        /\ r.moved = tx[w].moved /\ r.stock = tx[w].stock
    BY <1>1 DEF Requests, Steps
  <2> HIDE DEF r
  <2>2. tx'[w] = r
    BY <1>3 DEF Becomes, IInv, TypeOK
  <2>3. BodyOK(tx[w])'
    <3>1. 1 <= Len(Lines[r.cart])
      BY <1>1, <2>1, BodyAssumption
    <3> QED
      BY <1>1, <2>1, <2>2, <3>1 DEF BodyOK
  <2>4. ReceiptOK(w)' /\ RowsOK(w)'
    BY <1>1, <1>3, <2>1, <2>2
       DEF InsertSale, At, IInv, RequestOK, ReceiptOK, RowsOK, HoldingSteps, dbVars
  <2>5. StockOK(w)'
    BY <1>3, <2>1, <2>2 DEF InsertSale, At, IInv, RequestOK, StockOK, dbVars
  <2>6. RequestOK(w)'
    BY <2>3, <2>4, <2>5 DEF RequestOK
  <2> QED
    BY <1>3, <2>1, <2>6, PrivateStep DEF countVars, IInv, TypeOK
<1> QED
  BY <1>2, <1>3 DEF InsertSale

\* Where a checkout goes after a line, and that it may stand there.
LEMMA NextStep ==
    ASSUME IInv, NEW w \in Workers, At(w, "lines")
    PROVE  /\ tx[w] \in Requests /\ tx[w].cart \in Carts
           /\ tx[w].line \in 1 .. Len(Lines[tx[w].cart])
           /\ StepAfterLine(w) \in {"lines", "points", "uses"}
           /\ StepAfterLine(w) = "lines" => tx[w].line + 1 <= Len(Lines[tx[w].cart])
           /\ StepAfterLine(w) = "points" => Buyer[tx[w].cart] \in Customers
<1>1. /\ tx[w] \in Requests /\ tx[w].cart \in Carts
      /\ tx[w].line <= Len(Lines[tx[w].cart])
  BY DEF At, IInv, TypeOK, RequestOK, BodyOK
<1>2. tx[w].line \in Nat \ {0} /\ Len(Lines[tx[w].cart]) \in Nat
  BY <1>1, BodyAssumption DEF Requests
<1>3. Buyer[tx[w].cart] \in Customers \cup {NoCustomer}
  BY <1>1, BodyAssumption
<1> QED
  BY <1>1, <1>2, <1>3 DEF StepAfterLine

\* DecrementStock keeps the invariant.
LEMMA DecrementStockInv ==
    ASSUME IInv, NEW w \in Workers, DecrementStock(w)
    PROVE  IInv'
<1> DEFINE line == Lines[tx[w].cart][tx[w].line]
           p == line.product
           shelf == ShelfSeenBy(w, p)
           r == [tx[w] EXCEPT !.stock = [tx[w].stock EXCEPT ![p] = shelf - line.qty],
                              !.moved = [tx[w].moved EXCEPT ![p] = @ - line.qty],
                              !.line = @ + 1,
                              !.step = StepAfterLine(w)]
<1> USE DEF At
<1>1. Becomes(w, r) /\ TakeRow(w, p) /\ At(w, "lines") /\ UNCHANGED <<dbVars, answers, countVars>>
  BY DEF DecrementStock
<1>2. /\ tx[w] \in Requests /\ tx[w].cart \in Carts
      /\ tx[w].line \in 1 .. Len(Lines[tx[w].cart])
  BY <1>1, NextStep
<1>3. line \in [product : Products, qty : Nat \ {0}]
  <2>1. Lines[tx[w].cart] \in Seq([product : Products, qty : Nat \ {0}])
    BY <1>2, BodyAssumption
  <2> QED
    BY <1>2, <2>1, ElementOfSeq
<1>4. p \in Products /\ line.qty \in Int /\ shelf \in Int
  <2>1. p \in Products /\ line.qty \in Int
    BY <1>3
  <2>2. tx[w].stock[p] \in Int /\ stock[p] \in Int
    BY <1>2, <2>1 DEF IInv, TypeOK, Requests
  <2> QED
    BY <2>1, <2>2 DEF ShelfSeenBy
<1> HIDE DEF line, p, shelf
<1>5. /\ r \in Requests /\ r.step = StepAfterLine(w) /\ r.cart = tx[w].cart
      /\ r.receipt = tx[w].receipt /\ r.line = tx[w].line + 1
      /\ r.stock = [tx[w].stock EXCEPT ![p] = shelf - line.qty]
      /\ r.moved = [tx[w].moved EXCEPT ![p] = @ - line.qty]
      /\ r.used = tx[w].used
  <2>1. StepAfterLine(w) \in Steps
    BY <1>1, NextStep DEF Steps
  <2>2. tx[w].line + 1 \in Nat \ {0}
    BY <1>2 DEF Requests
  <2>3. /\ [tx[w].stock EXCEPT ![p] = shelf - line.qty] \in [Products -> Int]
        /\ [tx[w].moved EXCEPT ![p] = @ - line.qty] \in [Products -> Int]
    BY <1>2, <1>4 DEF Requests
  <2> HIDE DEF Steps
  <2> QED
    BY <1>2, <2>1, <2>2, <2>3 DEF Requests
<1> HIDE DEF r
<1>6. tx'[w] = r
  BY <1>1 DEF Becomes, IInv, TypeOK
<1>7. /\ lock'[p] = w /\ lock'[Tenant] = lock[Tenant]
      /\ \A q \in Products \ {p} : lock'[q] = lock[q]
  BY <1>1, <1>4, WorkerAssumption DEF TakeRow, IInv, TypeOK, Rows
<1>8. BodyOK(tx[w])'
  BY <1>1, <1>2, <1>5, <1>6, NextStep DEF BodyOK
<1>9. ReceiptOK(w)' /\ RowsOK(w)'
  BY <1>1, <1>5, <1>6, <1>7, NextStep
     DEF IInv, RequestOK, ReceiptOK, RowsOK, HoldingSteps, dbVars
<1>10. StockOK(w)'
  <2>0. ASSUME NEW q \in Products
        PROVE  IF lock[q] = w THEN tx[w].stock[q] = stock[q] + tx[w].moved[q]
                              ELSE tx[w].moved[q] = 0
    BY <1>1 DEF IInv, RequestOK, StockOK
  <2>1. ASSUME NEW q \in Products \ {p}
        PROVE  IF lock'[q] = w THEN r.stock[q] = stock'[q] + r.moved[q]
                               ELSE r.moved[q] = 0
    <3>1. r.stock[q] = tx[w].stock[q] /\ r.moved[q] = tx[w].moved[q]
      BY <1>2, <1>5 DEF Requests
    <3> QED
      BY <1>1, <1>7, <2>0, <3>1 DEF dbVars
  <2>2. r.stock[p] = shelf - line.qty /\ r.moved[p] = tx[w].moved[p] - line.qty
    BY <1>2, <1>4, <1>5 DEF Requests
  <2>3. shelf = stock[p] + tx[w].moved[p]
    <3>1. stock[p] \in Int
      BY <1>4 DEF IInv, TypeOK
    <3> QED
      BY <1>4, <2>0, <3>1 DEF ShelfSeenBy, shelf
  <2>4. stock[p] \in Int /\ tx[w].moved[p] \in Int
    BY <1>2, <1>4 DEF IInv, TypeOK, Requests
  <2>5. r.stock[p] = stock'[p] + r.moved[p]
    BY <1>1, <1>4, <2>2, <2>3, <2>4 DEF dbVars
  <2> QED
    BY <1>6, <1>7, <2>1, <2>5 DEF StockOK
<1>11. RequestOK(w)'
  BY <1>8, <1>9, <1>10 DEF RequestOK
<1>12. \E row \in Rows : TakeRow(w, row)
  BY <1>1, <1>4 DEF Rows
<1> QED
  BY <1>1, <1>5, <1>11, <1>12, PrivateStep DEF countVars, IInv, TypeOK

\* SkipUntracked keeps the invariant.
LEMMA SkipUntrackedInv ==
    ASSUME IInv, NEW w \in Workers, SkipUntracked(w)
    PROVE  IInv'
<1> DEFINE r == [tx[w] EXCEPT !.line = @ + 1, !.step = StepAfterLine(w)]
<1>1. At(w, "lines") /\ Becomes(w, r) /\ UNCHANGED <<dbVars, lock, answers, countVars>>
  BY DEF SkipUntracked
<1>2. /\ tx[w] \in Requests /\ tx[w].cart \in Carts
      /\ tx[w].line \in 1 .. Len(Lines[tx[w].cart])
  BY <1>1, NextStep
<1>3. /\ r \in Requests /\ r.step = StepAfterLine(w) /\ r.cart = tx[w].cart
      /\ r.receipt = tx[w].receipt /\ r.line = tx[w].line + 1
      /\ r.stock = tx[w].stock /\ r.moved = tx[w].moved
  <2>1. StepAfterLine(w) \in Steps /\ tx[w].line + 1 \in Nat \ {0}
    BY <1>1, <1>2, NextStep DEF Steps, Requests
  <2> HIDE DEF Steps
  <2> QED
    BY <1>2, <2>1 DEF Requests
<1> HIDE DEF r
<1>4. tx'[w] = r
  BY <1>1, <1>3 DEF Becomes, IInv, TypeOK
<1>5. BodyOK(tx[w])'
  BY <1>1, <1>2, <1>3, <1>4, NextStep DEF BodyOK
<1>6. ReceiptOK(w)' /\ RowsOK(w)'
  BY <1>1, <1>3, <1>4, NextStep
     DEF At, IInv, RequestOK, ReceiptOK, RowsOK, HoldingSteps, dbVars
<1>7. StockOK(w)'
  BY <1>1, <1>3, <1>4 DEF At, IInv, RequestOK, StockOK, dbVars
<1>8. RequestOK(w)'
  BY <1>5, <1>6, <1>7 DEF RequestOK
<1> QED
  BY <1>1, <1>3, <1>8, PrivateStep DEF countVars, IInv, TypeOK

\* UpdatePoints keeps the invariant.
LEMMA UpdatePointsInv ==
    ASSUME IInv, NEW w \in Workers, UpdatePoints(w)
    PROVE  IInv'
<1> DEFINE buyer == Buyer[tx[w].cart]
           balance == points[buyer] + PointsDelta(tx[w].cart, tx[w].applied)
           r == [tx[w] EXCEPT !.points = balance, !.step = "uses"]
<1>1. /\ At(w, "points") /\ TakeRow(w, buyer) /\ Becomes(w, r)
      /\ UNCHANGED <<dbVars, answers, countVars>>
  BY DEF UpdatePoints
<1>2. /\ tx[w] \in Requests /\ tx[w].cart \in Carts /\ buyer \in Customers
      /\ Len(Lines[tx[w].cart]) > 0
  BY <1>1 DEF At, IInv, TypeOK, RequestOK, BodyOK
<1>3. balance \in Int
  <2>1. tx[w].applied \in SUBSET Promos /\ points[buyer] \in Int
    BY <1>2 DEF IInv, TypeOK, Requests
  <2>2. PointsDelta(tx[w].cart, tx[w].applied) \in Int
    BY <1>2, <2>1, PointsDeltaType
  <2> QED
    BY <2>1, <2>2
<1> HIDE DEF buyer, balance
<1>4. /\ r \in Requests /\ r.step = "uses" /\ r.cart = tx[w].cart
      /\ r.receipt = tx[w].receipt /\ r.stock = tx[w].stock /\ r.moved = tx[w].moved
  BY <1>2, <1>3 DEF Requests, Steps
<1> HIDE DEF r
<1>5. tx'[w] = r
  BY <1>1, <1>4 DEF Becomes, IInv, TypeOK
<1>6. /\ lock'[Tenant] = lock[Tenant]
      /\ \A p \in Products : lock'[p] = lock[p]
  BY <1>1, <1>2, WorkerAssumption DEF TakeRow, IInv, TypeOK, Rows
<1>7. BodyOK(tx[w])'
  BY <1>1, <1>2, <1>4, <1>5 DEF BodyOK
<1>8. ReceiptOK(w)' /\ RowsOK(w)'
  BY <1>1, <1>4, <1>5, <1>6 DEF At, IInv, RequestOK, ReceiptOK, RowsOK, HoldingSteps, dbVars
<1>9. StockOK(w)'
  BY <1>1, <1>4, <1>5, <1>6 DEF At, IInv, RequestOK, StockOK, dbVars
<1>10. RequestOK(w)'
  BY <1>7, <1>8, <1>9 DEF RequestOK
<1>11. \E row \in Rows : TakeRow(w, row)
  BY <1>1, <1>2 DEF Rows
<1> QED
  BY <1>1, <1>4, <1>10, <1>11, PrivateStep DEF countVars, IInv, TypeOK

\* RecordUses keeps the invariant.
LEMMA RecordUsesInv ==
    ASSUME IInv, NEW w \in Workers, RecordUses(w)
    PROVE  IInv'
<1> DEFINE r == [tx[w] EXCEPT !.used = uses, !.step = "commit"]
<1>1. /\ At(w, "uses") /\ Becomes(w, r) /\ UNCHANGED <<dbVars, lock, answers, countVars>>
  BY DEF RecordUses
<1>2. /\ tx[w] \in Requests /\ tx[w].cart \in Carts /\ Len(Lines[tx[w].cart]) > 0
  BY <1>1 DEF At, IInv, TypeOK, RequestOK, BodyOK
<1>3. uses \in [Promos -> Nat]
  BY DEF IInv, TypeOK
<1>4. /\ r \in Requests /\ r.step = "commit" /\ r.cart = tx[w].cart
      /\ r.receipt = tx[w].receipt /\ r.stock = tx[w].stock /\ r.moved = tx[w].moved
      /\ r.used = uses
  BY <1>2, <1>3 DEF Requests, Steps
<1> HIDE DEF r
<1>5. tx'[w] = r
  BY <1>1, <1>4 DEF Becomes, IInv, TypeOK
<1>6. BodyOK(tx[w])'
  BY <1>1, <1>2, <1>4, <1>5 DEF BodyOK
<1>7. ReceiptOK(w)' /\ RowsOK(w)'
  BY <1>1, <1>4, <1>5 DEF At, IInv, RequestOK, ReceiptOK, RowsOK, HoldingSteps, dbVars
<1>8. StockOK(w)'
  BY <1>1, <1>4, <1>5 DEF At, IInv, RequestOK, StockOK, dbVars
<1>9. RequestOK(w)'
  BY <1>6, <1>7, <1>8 DEF RequestOK
<1> QED
  BY <1>1, <1>4, <1>9, PrivateStep DEF countVars, IInv, TypeOK

\* A commit that installs worker w's product rows and its movements keeps the
\* ledger, and the versions other transactions hold stay those of their rows.
LEMMA InstallStock ==
    ASSUME IInv, NEW w \in Workers, tx[w].step # "reply",
           stock' = [p \in Products |-> ShelfSeenBy(w, p)],
           moved' = [p \in Products |-> moved[p] + tx[w].moved[p]]
    PROVE  /\ stock' \in [Products -> Int]
           /\ moved' \in [Products -> Int]
           /\ StockMatchesLedger'
           /\ \A p \in Products : lock[p] # w => stock'[p] = stock[p]
<1> SUFFICES ASSUME NEW p \in Products
             PROVE  /\ stock'[p] \in Int /\ moved'[p] \in Int
                    /\ stock'[p] = OpeningStock[p] + moved'[p]
                    /\ lock[p] # w => stock'[p] = stock[p]
  BY DEF StockMatchesLedger
<1>1. /\ stock[p] \in Int /\ moved[p] \in Int
      /\ tx[w].stock[p] \in Int /\ tx[w].moved[p] \in Int
  BY DEF IInv, TypeOK, Requests
<1>2. stock[p] = OpeningStock[p] + moved[p] /\ OpeningStock[p] \in Int
  BY ShopAssumption DEF IInv, StockMatchesLedger
<1>3. IF lock[p] = w THEN tx[w].stock[p] = stock[p] + tx[w].moved[p]
                     ELSE tx[w].moved[p] = 0
  BY DEF IInv, RequestOK, StockOK
<1> QED
  BY <1>1, <1>2, <1>3 DEF ShelfSeenBy

\* Commit keeps the invariant.
LEMMA CommitInv ==
    ASSUME IInv, NEW w \in Workers, Commit(w)
    PROVE  IInv'
<1> DEFINE t == tx[w]
           sale == SaleRow(t.cart, t.receipt, t.applied)
           r == [t EXCEPT !.step = "reply"]
<1>1. /\ t \in Requests /\ t.cart \in Carts /\ t.applied \in SUBSET Promos
      /\ t.step = "commit" /\ lock[Tenant] = w /\ t.used = uses
      /\ t.receipt = receiptCounter + 1
      /\ \A s \in sales : s.uuid # t.cart
  <2>1. t.step = "commit" /\ RequestOK(w) /\ tx \in [Workers -> Requests]
    BY DEF Commit, At, IInv, TypeOK
  <2>2. t \in Requests /\ t.applied \in SUBSET Promos
    BY <2>1 DEF Requests
  <2>3. t.cart \in Carts
    BY <2>1 DEF RequestOK, BodyOK
  <2>4. /\ lock[Tenant] = w /\ t.used = uses /\ t.receipt = receiptCounter + 1
        /\ \A s \in sales : s.uuid # t.cart
    BY <2>1 DEF RequestOK, ReceiptOK, HoldingSteps
  <2> QED
    BY <2>1, <2>2, <2>3, <2>4
<1>2. receiptCounter \in Nat /\ receiptCounter' = receiptCounter + 1
  BY <1>1 DEF Commit, IInv, TypeOK
<1>3. /\ sale \in SaleRows /\ sale.uuid = t.cart /\ sale.receipt = receiptCounter + 1
      /\ sale.applied = t.applied
  <2>1. Redeem[t.cart] \in Nat /\ PointsEarned(t.cart, t.applied) \in Int
    BY <1>1, PointsDeltaType, BodyAssumption
  <2> QED
    BY <1>1, <1>2, <2>1 DEF SaleRow, SaleRows
<1>4. sales' = sales \cup {sale}
  BY DEF Commit
<1>5. /\ r \in Requests /\ r.step = "reply" /\ r.cart = t.cart /\ r.receipt = t.receipt
      /\ Becomes(w, r)
  BY <1>1 DEF Commit, Requests, Steps
<1> HIDE DEF sale, r
<1>6. /\ tx' \in [Workers -> Requests]
      /\ tx'[w] = r
      /\ \A v \in Workers \ {w} : tx'[v] = tx[v]
  BY <1>5, BecomesOne DEF IInv, TypeOK
<1>7. /\ lock' \in [Rows -> Workers \cup {NoWorker}]
      /\ \A v \in Workers \ {w} : \A row \in Rows : lock'[row] = v <=> lock[row] = v
      /\ \A row \in Rows : lock'[row] # w
  BY WorkerAssumption DEF Commit, ReleaseRows, IInv, TypeOK
<1>8. /\ stock' \in [Products -> Int]
      /\ moved' \in [Products -> Int]
      /\ StockMatchesLedger'
      /\ \A p \in Products : lock[p] # w => stock'[p] = stock[p]
  BY <1>1, InstallStock DEF Commit
<1>9. TypeOK'
  <2>1. points' \in [Customers -> Int]
    BY <1>1 DEF Commit, IInv, TypeOK, Requests
  <2>2. uses' \in [Promos -> Nat]
    BY <1>1 DEF Commit, IInv, TypeOK
  <2>3. sales' \in SUBSET SaleRows
    BY <1>3, <1>4 DEF IInv, TypeOK
  <2>4. UNCHANGED <<answers, submits, crashes, adjusts>>
    BY DEF Commit, countVars
  <2> QED
    BY <1>2, <1>6, <1>7, <1>8, <2>1, <2>2, <2>3, <2>4 DEF IInv, TypeOK
<1>10. IsFiniteSet(sales')
  BY <1>4, FS_AddElement DEF IInv
<1>11. ReceiptsGapFree'
  <2>1. {s.receipt : s \in sales} = 1 .. receiptCounter
    BY DEF IInv, ReceiptsGapFree
  <2>2. \A s \in sales : s.receipt \in 1 .. receiptCounter
    BY <2>1
  <2>3. {s.receipt : s \in sales'} = {s.receipt : s \in sales} \cup {receiptCounter + 1}
    BY <1>3, <1>4
  <2>4. {s.receipt : s \in sales'} = 1 .. receiptCounter'
    <3>1. ASSUME NEW n \in Nat PROVE 1 .. (n + 1) = (1 .. n) \cup {n + 1}
      OBVIOUS
    <3>2. 1 .. receiptCounter' = (1 .. receiptCounter) \cup {receiptCounter + 1}
      BY <1>2, <3>1
    <3> QED
      BY <2>1, <2>3, <3>2, Zenon
  <2>5. \A s \in sales : s.receipt # sale.receipt
    BY <1>2, <1>3, <2>2
  <2>6. ASSUME NEW s \in sales', NEW u \in sales', s.receipt = u.receipt PROVE s = u
    BY <1>4, <2>5, <2>6 DEF IInv, ReceiptsGapFree
  <2> QED
    BY <2>4, <2>6 DEF ReceiptsGapFree
<1>12. OneSalePerCart'
  <2>1. \A s, u \in sales' : s.uuid = u.uuid => s = u
    BY <1>1, <1>3, <1>4 DEF IInv, OneSalePerCart
  <2>2. answers' = answers /\ sales \subseteq sales'
    BY <1>4 DEF Commit
  <2> QED
    BY <2>1, <2>2 DEF IInv, OneSalePerCart
<1>13. UsesMatchSales'
  <2> SUFFICES ASSUME NEW k \in Promos
               PROVE  uses'[k] = Cardinality({s \in sales' : k \in s.applied})
    BY DEF UsesMatchSales
  <2> DEFINE old == {s \in sales : k \in s.applied}
  <2>1. uses[k] = Cardinality(old) /\ IsFiniteSet(old)
    BY FS_Subset DEF IInv, UsesMatchSales
  <2>2. CASE k \in t.applied
    <3>1. {s \in sales' : k \in s.applied} = old \cup {sale} /\ sale \notin old
      BY <1>1, <1>3, <1>4, <2>2
    <3>2. uses'[k] = uses[k] + 1
      BY <1>1, <2>2 DEF Commit
    <3> QED
      BY <2>1, <3>1, <3>2, FS_AddElement
  <2>3. CASE k \notin t.applied
    <3>1. {s \in sales' : k \in s.applied} = old
      BY <1>3, <1>4, <2>3
    <3>2. uses'[k] = uses[k]
      BY <2>3 DEF Commit
    <3> QED
      BY <2>1, <3>1, <3>2
  <2> QED
    BY <2>2, <2>3
<1>14. ASSUME NEW v \in Workers \ {w} PROVE RequestOK(v)'
  <2>1. RequestOK(v)
    BY DEF IInv
  <2>2. tx[v].step \notin HoldingSteps
    BY <1>1, <2>1 DEF RequestOK, ReceiptOK
  <2>3. BodyOK(tx[v])'
    BY <1>6, <2>1 DEF RequestOK, BodyOK
  <2>4. ReceiptOK(v)'
    <3>1. lock'[Tenant] # v /\ tx'[v] = tx[v] /\ sales \subseteq sales'
      BY <1>4, <1>6, <1>7, <2>1, <2>2 DEF RequestOK, ReceiptOK, Rows
    <3>2. /\ tx[v].step \notin HoldingSteps \cup {"commit"}
          /\ tx[v].step = "reply" =>
               \E s \in sales : s.uuid = tx[v].cart /\ s.receipt = tx[v].receipt
      BY <2>1, <2>2 DEF RequestOK, ReceiptOK, HoldingSteps
    <3> QED
      BY <2>2, <3>1, <3>2 DEF ReceiptOK
  <2>5. StockOK(v)'
    BY <1>6, <1>7, <1>8, <2>1 DEF RequestOK, StockOK, Rows
  <2>6. RowsOK(v)'
    BY <1>6, <1>7, <2>1 DEF RequestOK, RowsOK
  <2> QED
    BY <2>3, <2>4, <2>5, <2>6 DEF RequestOK
<1>15. RequestOK(w)'
  BY <1>1, <1>3, <1>4, <1>5, <1>6, <1>7
     DEF RequestOK, BodyOK, ReceiptOK, StockOK, RowsOK, HoldingSteps, Rows
<1> QED
  BY <1>8, <1>9, <1>10, <1>11, <1>12, <1>13, <1>14, <1>15 DEF IInv

\* Reply keeps the invariant.
LEMMA ReplyInv ==
    ASSUME IInv, NEW w \in Workers, Reply(w)
    PROVE  IInv'
<1>1. tx[w].cart \in Carts /\ tx[w].receipt \in Nat
  BY DEF Reply, At, IInv, TypeOK, RequestOK, BodyOK, Requests
<1>2. \E s \in sales : s.uuid = tx[w].cart /\ s.receipt = tx[w].receipt
  BY DEF Reply, At, IInv, RequestOK, ReceiptOK
<1> QED
  BY <1>1, <1>2, AnswerInv DEF Reply

\* AdjustStock keeps the invariant.
LEMMA AdjustStockInv ==
    ASSUME IInv, NEW w \in Workers, NEW p \in Products, NEW d \in Deltas,
           AdjustStock(w, p, d)
    PROVE  IInv'
<1> DEFINE shelf == ShelfSeenBy(w, p)
           r == [Idle EXCEPT !.step = "adjusted",
                             !.stock = [Idle.stock EXCEPT ![p] = shelf + d],
                             !.moved = [Idle.moved EXCEPT ![p] = d]]
<1>1. At(w, "idle") /\ TakeRow(w, p) /\ Becomes(w, r) /\ UNCHANGED <<dbVars, answers>>
  BY DEF AdjustStock
<1>2. stock[p] \in Int /\ d \in Int
  BY WorkerAssumption DEF IInv, TypeOK
<1>3. \A row \in Rows : lock[row] # w
  BY <1>1 DEF At, IInv, RequestOK, RowsOK, HoldingSteps
<1>4. shelf = stock[p]
  BY <1>3 DEF ShelfSeenBy, Rows
<1> HIDE DEF shelf
<1>5. /\ r \in Requests /\ r.step = "adjusted"
      /\ r.stock[p] = stock[p] + d /\ r.moved[p] = d
      /\ \A q \in Products \ {p} : r.moved[q] = 0
  <2>1. /\ [Idle.stock EXCEPT ![p] = shelf + d] \in [Products -> Int]
        /\ [Idle.moved EXCEPT ![p] = d] \in [Products -> Int]
    BY <1>2, <1>4, IdleRequest DEF Requests
  <2>2. /\ [Idle.stock EXCEPT ![p] = shelf + d][p] = stock[p] + d
        /\ [Idle.moved EXCEPT ![p] = d][p] = d
        /\ \A q \in Products \ {p} : [Idle.moved EXCEPT ![p] = d][q] = 0
    BY <1>4, IdleRequest DEF Requests
  <2> QED
    BY <2>1, <2>2, IdleRequest DEF Requests, Steps
<1> HIDE DEF r
<1>6. tx'[w] = r
  BY <1>1, <1>5 DEF Becomes, IInv, TypeOK
<1>7. /\ lock'[p] = w /\ lock'[Tenant] # w
      /\ \A q \in Products \ {p} : lock'[q] # w
  BY <1>1, <1>3, WorkerAssumption DEF TakeRow, IInv, TypeOK, Rows
<1>8. BodyOK(tx[w])' /\ ReceiptOK(w)' /\ RowsOK(w)'
  BY <1>5, <1>6, <1>7 DEF BodyOK, ReceiptOK, RowsOK, HoldingSteps
<1>9. StockOK(w)'
  BY <1>1, <1>5, <1>6, <1>7 DEF StockOK, dbVars
<1>10. RequestOK(w)'
  BY <1>8, <1>9 DEF RequestOK
<1>11. submits' \in Nat /\ crashes' \in Nat /\ adjusts' \in Nat
  BY DEF AdjustStock, IInv, TypeOK
<1>12. \E row \in Rows : TakeRow(w, row)
  BY <1>1 DEF Rows
<1> QED
  BY <1>1, <1>5, <1>10, <1>11, <1>12, PrivateStep

\* CommitAdjust keeps the invariant.
LEMMA CommitAdjustInv ==
    ASSUME IInv, NEW w \in Workers, CommitAdjust(w)
    PROVE  IInv'
<1>1. tx[w].step = "adjusted" /\ Becomes(w, Idle)
  BY DEF CommitAdjust, At
<1>2. /\ tx' \in [Workers -> Requests]
      /\ tx'[w] = Idle
      /\ \A v \in Workers \ {w} : tx'[v] = tx[v]
  BY <1>1, BecomesOne, IdleRequest DEF IInv, TypeOK
<1>3. /\ lock' \in [Rows -> Workers \cup {NoWorker}]
      /\ \A v \in Workers \ {w} : \A row \in Rows : lock'[row] = v <=> lock[row] = v
      /\ \A row \in Rows : lock'[row] # w
  BY WorkerAssumption DEF CommitAdjust, ReleaseRows, IInv, TypeOK
<1>4. /\ stock' \in [Products -> Int]
      /\ moved' \in [Products -> Int]
      /\ StockMatchesLedger'
      /\ \A p \in Products : lock[p] # w => stock'[p] = stock[p]
  BY <1>1, InstallStock DEF CommitAdjust
<1>5. UNCHANGED <<sales, receiptCounter, points, uses, answers, submits, crashes, adjusts>>
  BY DEF CommitAdjust, countVars
<1>6. (TypeOK /\ IsFiniteSet(sales) /\ ReceiptsGapFree /\ OneSalePerCart /\ UsesMatchSales)'
  BY <1>2, <1>3, <1>4, <1>5
     DEF IInv, TypeOK, ReceiptsGapFree, OneSalePerCart, UsesMatchSales
<1>7. ASSUME NEW v \in Workers \ {w} PROVE RequestOK(v)'
  <2>1. RequestOK(v)
    BY DEF IInv
  <2>2. BodyOK(tx[v])'
    BY <1>2, <2>1 DEF RequestOK, BodyOK
  <2>3. ReceiptOK(v)'
    BY <1>2, <1>3, <1>5, <2>1 DEF RequestOK, ReceiptOK, Rows
  <2>4. StockOK(v)'
    BY <1>2, <1>3, <1>4, <2>1 DEF RequestOK, StockOK, Rows
  <2>5. RowsOK(v)'
    BY <1>2, <1>3, <2>1 DEF RequestOK, RowsOK
  <2> QED
    BY <2>2, <2>3, <2>4, <2>5 DEF RequestOK
<1>8. RequestOK(w)'
  BY <1>2, <1>3, IdleRequest
     DEF RequestOK, BodyOK, ReceiptOK, StockOK, RowsOK, HoldingSteps, Rows
<1> QED
  BY <1>4, <1>6, <1>7, <1>8 DEF IInv

\* Crash keeps the invariant.
LEMMA CrashInv ==
    ASSUME IInv, NEW w \in Workers, Crash(w)
    PROVE  IInv'
<1>1. OneSalePerCart'
  BY DEF Crash, dbVars, IInv, OneSalePerCart
<1>2. /\ submits' \in Nat /\ crashes' \in Nat /\ adjusts' \in Nat
      /\ answers' \in [Carts -> SUBSET [code : {200, 400, 500}, receipt : Nat]]
  BY DEF Crash, IInv, TypeOK
<1> QED
  BY <1>1, <1>2, EndStep DEF Crash

\* A step that changes nothing keeps the invariant.
LEMMA StutterInv == IInv /\ UNCHANGED vars => IInv'
<1> SUFFICES ASSUME IInv, UNCHANGED vars PROVE IInv'
  OBVIOUS
<1> USE DEF vars
<1>1. TypeOK' /\ IsFiniteSet(sales')
  BY DEF IInv, TypeOK
<1>2. (ReceiptsGapFree /\ OneSalePerCart /\ StockMatchesLedger /\ UsesMatchSales)'
  BY DEF IInv, ReceiptsGapFree, OneSalePerCart, StockMatchesLedger, UsesMatchSales
<1>3. \A w \in Workers : RequestOK(w)'
  BY DEF IInv, RequestOK, BodyOK, ReceiptOK, StockOK, RowsOK
<1> QED
  BY <1>1, <1>2, <1>3 DEF IInv

\* Every step keeps the invariant.
LEMMA StepInv == IInv /\ [Next]_vars => IInv'
<1> SUFFICES ASSUME IInv, [Next]_vars PROVE IInv'
  OBVIOUS
<1>1. ASSUME NEW w \in Workers, Serve(w) PROVE IInv'
  BY <1>1, FindSaleInv, FindNoSaleInv, ReadCustomerInv, ResolveCheckoutInv,
     NextReceiptNoInv, InsertSaleInv, DecrementStockInv, SkipUntrackedInv,
     UpdatePointsInv, RecordUsesInv, CommitInv, ReplyInv, CommitAdjustInv DEF Serve
<1>2. CASE UNCHANGED vars
  BY <1>2, StutterInv
<1>3. CASE Next
  BY <1>1, <1>3, SubmitInv, AdjustStockInv, CrashInv DEF Next
<1> QED
  BY <1>2, <1>3
-----------------------------------------------------------------------------
\* The theorems: what every reachable state of the checkout satisfies.

\* Every reachable state satisfies the invariant.
LEMMA Inductive == Spec => []IInv
  BY InitInv, StepInv, PTL DEF Spec

\* Every table, lock and request keeps its type.
THEOREM TypeCorrect == Spec => []TypeOK
<1>1. IInv => TypeOK
  BY DEF IInv
<1> QED
  BY <1>1, Inductive, PTL

\* The committed sales bear the receipt numbers 1..receipt_counter, each once.
THEOREM GapFreeReceipts == Spec => []ReceiptsGapFree
<1>1. IInv => ReceiptsGapFree
  BY DEF IInv
<1> QED
  BY <1>1, Inductive, PTL

\* A client_uuid is one sale, and a client told "sold" was told that sale's receipt.
THEOREM IdempotentCheckout == Spec => []OneSalePerCart
<1>1. IInv => OneSalePerCart
  BY DEF IInv
<1> QED
  BY <1>1, Inductive, PTL

\* stock_qty is the opening stock plus the ledger of stock movements.
THEOREM StockIsLedger == Spec => []StockMatchesLedger
<1>1. IInv => StockMatchesLedger
  BY DEF IInv
<1> QED
  BY <1>1, Inductive, PTL

\* uses_count is the number of committed sales the promotion discounted.
THEOREM UsesAreSales == Spec => []UsesMatchSales
<1>1. IInv => UsesMatchSales
  BY DEF IInv
<1> QED
  BY <1>1, Inductive, PTL

-----------------------------------------------------------------------------
(***************************************************************************)
(* Checkout implements SaleBook; and what the two checks made on stale     *)
(* reads, of max_uses and of the points balance, still guarantee.          *)
(***************************************************************************)

\* The steps between the resolved checkout and its commit.
Resolved == {"receipt"} \cup HoldingSteps

\* The units of product p on the lines of body c before line n.
UnitsBefore(c, p, n) ==
    IF p \in Tracked
    THEN Sigma([i \in DOMAIN Lines[c] |-> Lines[c][i].qty],
               {i \in DOMAIN Lines[c] : i < n /\ Lines[c][i].product = p})
    ELSE 0

\* What was accepted of the body.
TermsOK(w) ==
    LET c == tx[w].cart IN
    tx[w].step \in Resolved =>
        /\ tx[w].applied \subseteq Offers[c]
        /\ Coupons[c] \subseteq tx[w].applied
        /\ Total[c][tx[w].applied] >= 0
        /\ EnoughPoints(w)

\* The movements of the transaction are those of the lines it has dealt with.
LinesOK(w) ==
    LET c == tx[w].cart IN
    \A p \in Products :
        /\ tx[w].step = "insert" => tx[w].moved[p] = 0
        /\ tx[w].step = "lines" => tx[w].moved[p] = 0 - UnitsBefore(c, p, tx[w].line)
        /\ tx[w].step \in {"points", "uses", "commit"} => tx[w].moved[p] = 0 - UnitsSold(c, p)

\* A customer row is held only with the new balance of the transaction's buyer.
PointsOK(w) ==
    LET c == tx[w].cart IN
    /\ \A m \in Customers : lock[m] = w =>
         /\ tx[w].step \in {"uses", "commit"} /\ m = Buyer[c]
         /\ tx[w].points = points[m] + PointsDelta(c, tx[w].applied)
    /\ tx[w].step \in {"uses", "commit"} /\ Buyer[c] # NoCustomer => lock[Buyer[c]] = w

\* An adjustment holds its product alone.
AdjustOK(w) ==
    tx[w].step = "adjusted" =>
        \E p \in Products : \E d \in Deltas :
            /\ lock[p] = w /\ tx[w].moved[p] = d
            /\ \A q \in Products \ {p} : lock[q] # w

BookOK(w) == TermsOK(w) /\ LinesOK(w) /\ PointsOK(w) /\ AdjustOK(w)

\* The checkouts in flight that will count a use of promotion k ...
Pending(k) == {w \in Workers : tx[w].step \in Resolved /\ k \in tx[w].applied}

\* ... were each granted it below the limit.
UsesLeft ==
    \A k \in Promos : uses[k] + Cardinality(Pending(k)) < MaxUses[k] + Cardinality(Workers)

\* The checkouts in flight whose read of customer m's balance covers what they redeem.
Spenders(m) ==
    {w \in Workers : /\ tx[w].step \in {"promotions"} \cup Resolved
                     /\ Buyer[tx[w].cart] = m /\ Redeem[tx[w].cart] <= tx[w].balance}
Redeeming == [w \in Workers |-> Redeem[tx[w].cart]]
Largest(m) == Max({0} \cup {Redeem[c] : c \in {d \in Carts : Buyer[d] = m}})

\* All but one of them may have spent more than there is.
PointsLeft ==
    \A m \in Customers :
        Sigma(Redeeming, Spenders(m)) <= points[m] + Largest(m) * (Cardinality(Workers) - 1)

\* What the steps preserve on top of the invariant of CheckoutProofs.
BookInv ==
    /\ \A w \in Workers : BookOK(w)
    /\ PointsMatchSales
    /\ UsesLeft
    /\ PointsLeft
-----------------------------------------------------------------------------
\* The lines of a body, product by product.

\* A body has finitely many lines, of a product and a quantity.
LEMMA BodyType ==
    ASSUME NEW c \in Carts
    PROVE  /\ IsFiniteSet(DOMAIN Lines[c]) /\ DOMAIN Lines[c] = 1 .. Len(Lines[c])
           /\ Len(Lines[c]) \in Nat
           /\ \A i \in 1 .. Len(Lines[c]) : Lines[c][i] \in [product : Products, qty : Nat \ {0}]
           /\ Redeem[c] \in Nat /\ Buyer[c] \in Customers \cup {NoCustomer}
<1>1. Lines[c] \in Seq([product : Products, qty : Nat \ {0}])
  BY BodyAssumption
<1>2. DOMAIN Lines[c] = 1 .. Len(Lines[c]) /\ Len(Lines[c]) \in Nat
  BY <1>1
<1>3. IsFiniteSet(1 .. Len(Lines[c]))
  BY <1>2, FS_Interval
<1> QED
  BY <1>1, <1>2, <1>3, BodyAssumption, ElementIn

\* Before the first line there are no units, and after the last all of them.
LEMMA UnitsAtTheEnds ==
    ASSUME NEW c \in Carts, NEW p \in Products
    PROVE  /\ UnitsBefore(c, p, 1) = 0
           /\ UnitsBefore(c, p, Len(Lines[c]) + 1) = UnitsSold(c, p)
<1>1. DOMAIN Lines[c] = 1 .. Len(Lines[c]) /\ Len(Lines[c]) \in Nat
  BY BodyType
<1>2. {i \in DOMAIN Lines[c] : i < 1 /\ Lines[c][i].product = p} = {}
  BY <1>1
<1>3. {i \in DOMAIN Lines[c] : i < Len(Lines[c]) + 1 /\ Lines[c][i].product = p}
        = {i \in DOMAIN Lines[c] : Lines[c][i].product = p}
  BY <1>1
<1> QED
  BY <1>2, <1>3, SigmaEmpty DEF UnitsBefore, UnitsSold

\* Each line adds its own.
LEMMA UnitsOfTheNextLine ==
    ASSUME NEW c \in Carts, NEW p \in Products, NEW n \in 1 .. Len(Lines[c])
    PROVE  /\ UnitsBefore(c, p, n) \in Int
           /\ UnitsBefore(c, p, n + 1) = UnitsBefore(c, p, n) +
                (IF p \in Tracked /\ Lines[c][n].product = p THEN Lines[c][n].qty ELSE 0)
<1>1. CASE p \notin Tracked
  BY <1>1 DEF UnitsBefore
<1>2. CASE p \in Tracked
  <2>1. PICK f : f = [i \in DOMAIN Lines[c] |-> Lines[c][i].qty]
    OBVIOUS
  <2>2. PICK S : S = {i \in DOMAIN Lines[c] : i < n /\ Lines[c][i].product = p}
    OBVIOUS
  <2>3. PICK T : T = {i \in DOMAIN Lines[c] : i < n + 1 /\ Lines[c][i].product = p}
    OBVIOUS
  <2>4. UnitsBefore(c, p, n) = Sigma(f, S) /\ UnitsBefore(c, p, n + 1) = Sigma(f, T)
    BY <1>2, <2>1, <2>2, <2>3 DEF UnitsBefore
  <2>5. \A i \in DOMAIN Lines[c] : f[i] \in Int /\ f[i] = Lines[c][i].qty
    BY <2>1, BodyType
  <2>6. IsFiniteSet(S) /\ n \in DOMAIN Lines[c] /\ n \in Int
    <3>1. S \in SUBSET DOMAIN Lines[c]
      BY <2>2
    <3> QED
      BY <3>1, BodyType, FS_Subset
  <2>7. Sigma(f, S) \in Int
    BY <2>2, <2>5, <2>6, SigmaType
  <2>8. CASE Lines[c][n].product = p
    <3>1. T = S \cup {n} /\ n \notin S
      BY <2>2, <2>3, <2>6, <2>8, BodyType
    <3>2. \A y \in S \cup {n} : f[y] \in Int
      BY <2>2, <2>5, <2>6
    <3>3. Sigma(f, S \cup {n}) = Sigma(f, S) + f[n]
      BY <2>6, <3>1, <3>2, SigmaAdd
    <3> QED
      BY <1>2, <2>4, <2>5, <2>6, <2>7, <2>8, <3>1, <3>3
  <2>9. CASE Lines[c][n].product # p
    <3>1. T = S
      BY <2>2, <2>3, <2>6, <2>9, BodyType
    <3> QED
      BY <2>4, <2>7, <2>9, <3>1
  <2> QED
    BY <2>8, <2>9
<1> QED
  BY <1>1, <1>2

\* What an accepted body earns is never negative.
LEMMA EarnedType ==
    ASSUME NEW c \in Carts, NEW a \in SUBSET Promos, Total[c][a] >= 0
    PROVE  PointsEarned(c, a) \in Int /\ PointsEarned(c, a) >= 0
<1>1. FinalTotal(c, a) \in Int /\ FinalTotal(c, a) >= 0
  <2>1. Total[c][a] \in Int /\ Redeem[c] \in Int /\ PointValue \in Int
    BY BodyAssumption, ShopAssumption
  <2>2. PointValue * Redeem[c] \in Int
    BY <2>1
  <2> QED
    BY <2>1, <2>2 DEF FinalTotal
<1>2. ASSUME NEW x \in Int, x >= 0, BahtPerPoint > 0
      PROVE x \div BahtPerPoint \in Int /\ x \div BahtPerPoint >= 0
  BY <1>2, ShopAssumption
<1> QED
  BY <1>1, <1>2 DEF PointsEarned

\* The largest redemption of a customer is one.
LEMMA LargestType ==
    ASSUME NEW m \in Customers
    PROVE  /\ Largest(m) \in Nat
           /\ \A c \in Carts : Buyer[c] = m => Redeem[c] <= Largest(m)
<1>1. PICK S : S = {d \in Carts : Buyer[d] = m}
  OBVIOUS
<1>2. PICK R : R = {Redeem[c] : c \in S}
  OBVIOUS
<1>3. IsFiniteSet(S)
  BY <1>1, BodyAssumption, FS_Subset
<1>4. IsFiniteSet({Redeem[c] : c \in S})
  BY <1>3, ImageFinite
<1>5. \A c \in S : Redeem[c] \in Nat
  BY <1>1, BodyAssumption
<1>6. {0} \cup R \in SUBSET Nat /\ {0} \cup R # {}
  BY <1>2, <1>5
<1>7. IsFiniteSet({0} \cup R)
  <2>1. IsFiniteSet({0})
    BY FS_Singleton
  <2> QED
    BY <1>2, <1>4, <2>1, FS_Union
<1>8. Largest(m) = Max({0} \cup R)
  BY <1>1, <1>2 DEF Largest
<1>9. Max({0} \cup R) \in {0} \cup R /\ \A y \in {0} \cup R : y <= Max({0} \cup R)
  BY <1>6, <1>7, MaxOfFinite
<1>10. \A c \in Carts : Buyer[c] = m => Redeem[c] \in {0} \cup R
  BY <1>1, <1>2
<1> QED
  BY <1>6, <1>8, <1>9, <1>10
-----------------------------------------------------------------------------
\* What a step of worker w leaves of the others.

\* A handler takes and releases no locks of others.
LEMMA LocksOfOthers ==
    ASSUME TypeOK, NEW w \in Workers,
           \/ lock' = lock
           \/ \E row \in Rows : TakeRow(w, row)
           \/ ReleaseRows(w)
    PROVE  \A v \in Workers \ {w} : \A row \in Rows : lock'[row] = v <=> lock[row] = v
  BY WorkerAssumption DEF TypeOK, TakeRow, ReleaseRows

\* What a handler knows for its commit is kept by a step that leaves it and its rows alone.
LEMMA OtherBook ==
    ASSUME IInv, NEW v \in Workers, BookOK(v), tx'[v] = tx[v],
           \A row \in Rows : lock'[row] = v <=> lock[row] = v,
           \A m \in Customers : lock[m] = v => points'[m] = points[m]
    PROVE  BookOK(v)'
<1> USE DEF Rows
<1>1. TermsOK(v)'
  BY DEF BookOK, TermsOK, EnoughPoints
<1>2. LinesOK(v)'
  BY DEF BookOK, LinesOK
<1>3. PointsOK(v)'
  <2>1. ASSUME NEW m \in Customers, lock'[m] = v
        PROVE  /\ tx[v].step \in {"uses", "commit"} /\ m = Buyer[tx[v].cart]
               /\ tx[v].points = points'[m] + PointsDelta(tx[v].cart, tx[v].applied)
    <3>1. lock[m] = v
      BY <2>1
    <3> QED
      BY <3>1 DEF BookOK, PointsOK
  <2>2. ASSUME tx[v].step \in {"uses", "commit"}, Buyer[tx[v].cart] # NoCustomer
        PROVE  lock'[Buyer[tx[v].cart]] = v
    <3>1. lock[Buyer[tx[v].cart]] = v
      BY <2>2 DEF BookOK, PointsOK
    <3>2. tx[v].cart \in Carts
      BY <2>2 DEF IInv, RequestOK, BodyOK
    <3>3. Buyer[tx[v].cart] \in Customers
      BY <2>2, <3>2, BodyType
    <3> QED
      BY <3>1, <3>3
  <2> QED
    BY <2>1, <2>2 DEF PointsOK
<1>4. AdjustOK(v)'
  BY DEF BookOK, AdjustOK
<1> QED
  BY <1>1, <1>2, <1>3, <1>4 DEF BookOK

\* The request worker w goes on with, r, adds no use the promotions have no room for ...
UsesAllowed(w, r) ==
    r.step \in Resolved => \A k \in r.applied :
        uses[k] < MaxUses[k] \/ (tx[w].step \in Resolved /\ k \in tx[w].applied)

\* ... and if it redeems points, on the balance read just now or on the one it had.
BalanceKnown(w, r) ==
    r.step \in {"promotions"} \cup Resolved =>
        \/ /\ tx[w].step \in {"promotions"} \cup Resolved
           /\ r.cart = tx[w].cart /\ r.balance = tx[w].balance
        \/ /\ r.cart \in Carts
           /\ Buyer[r.cart] \in Customers => r.balance = points[Buyer[r.cart]]

\* The uses pending stay bounded when a handler is granted what the counters allow.
LEMMA UsesLeftKept ==
    ASSUME IInv, UsesLeft, NEW w \in Workers, NEW r \in Requests, Becomes(w, r),
           UNCHANGED uses, UsesAllowed(w, r)
    PROVE  UsesLeft'
<1>1. /\ tx'[w] = r
      /\ \A v \in Workers \ {w} : tx'[v] = tx[v]
  BY BecomesOne DEF IInv, TypeOK
<1>2. SUFFICES ASSUME NEW k \in Promos, NEW K, K = Pending(k)'
               PROVE  uses[k] + Cardinality(K) < MaxUses[k] + Cardinality(Workers)
  BY DEF UsesLeft
<1>3. /\ uses[k] \in Nat /\ MaxUses[k] \in Nat
      /\ IsFiniteSet(Workers) /\ Cardinality(Workers) \in Nat
  BY WorkerAssumption, ShopAssumption, FS_CardinalityType DEF IInv, TypeOK
<1>4. K = {v \in Workers : tx'[v].step \in Resolved /\ k \in tx'[v].applied}
  BY <1>2 DEF Pending
<1>5. IsFiniteSet(K) /\ Cardinality(K) \in Nat /\ Cardinality(K) <= Cardinality(Workers)
  BY <1>3, <1>4, FS_Subset, FS_CardinalityType
<1>6. CASE K \subseteq Pending(k)
  <2>1. Pending(k) \in SUBSET Workers
    BY DEF Pending
  <2>2. IsFiniteSet(Pending(k)) /\ Cardinality(Pending(k)) \in Nat
    BY <1>3, <2>1, FS_Subset, FS_CardinalityType
  <2>3. Cardinality(K) <= Cardinality(Pending(k))
    BY <1>6, <2>2, FS_Subset
  <2>4. uses[k] + Cardinality(Pending(k)) < MaxUses[k] + Cardinality(Workers)
    BY DEF UsesLeft
  <2> QED
    BY <1>3, <1>5, <2>2, <2>3, <2>4
<1>7. CASE ~(K \subseteq Pending(k))
  <2>1. w \in K /\ w \notin Pending(k)
    BY <1>1, <1>4, <1>7 DEF Pending
  <2>2. r.step \in Resolved /\ k \in r.applied
    BY <1>1, <1>4, <2>1
  <2>3. uses[k] < MaxUses[k]
    BY <2>1, <2>2 DEF UsesAllowed, Pending
  <2> QED
    BY <1>3, <1>5, <2>3
<1> QED
  BY <1>6, <1>7

\* The points pending stay bounded when a handler is to redeem what the balance covered.
LEMMA PointsLeftKept ==
    ASSUME IInv, PointsLeft, NEW w \in Workers, NEW r \in Requests, Becomes(w, r),
           UNCHANGED points, BalanceKnown(w, r)
    PROVE  PointsLeft'
<1>1. /\ tx'[w] = r
      /\ \A v \in Workers \ {w} : tx'[v] = tx[v]
  BY BecomesOne DEF IInv, TypeOK
<1>2. SUFFICES ASSUME NEW m \in Customers, NEW f, f = Redeeming', NEW S, S = Spenders(m)'
               PROVE  Sigma(f, S) <= points[m] + Largest(m) * (Cardinality(Workers) - 1)
  BY DEF PointsLeft, Largest
<1>3. /\ points[m] \in Int /\ Largest(m) \in Nat
      /\ IsFiniteSet(Workers) /\ Cardinality(Workers) \in Nat
  BY WorkerAssumption, LargestType, FS_CardinalityType DEF IInv, TypeOK
<1>4. /\ S = {v \in Workers : /\ tx'[v].step \in {"promotions"} \cup Resolved
                              /\ Buyer[tx'[v].cart] = m
                              /\ Redeem[tx'[v].cart] <= tx'[v].balance}
      /\ \A v \in Workers : f[v] = Redeem[tx'[v].cart]
  BY <1>2 DEF Spenders, Redeeming
<1>5. S \in SUBSET Workers /\ IsFiniteSet(S)
  BY <1>3, <1>4, FS_Subset
<1>6. \A v \in S : tx'[v].cart \in Carts
  <2>1. \A v \in Workers : tx[v].step \in {"promotions"} \cup Resolved => tx[v].cart \in Carts
    BY DEF IInv, RequestOK, BodyOK, Resolved, HoldingSteps
  <2> QED
    BY <1>1, <1>4, <2>1 DEF BalanceKnown
<1>7. \A v \in S : f[v] \in Int /\ f[v] >= 0 /\ f[v] <= Largest(m)
  BY <1>4, <1>6, BodyType, LargestType
<1>8. CASE S \subseteq Spenders(m) /\ \A v \in S : tx'[v].cart = tx[v].cart
  <2>1. IsFiniteSet(Spenders(m)) /\ Spenders(m) \subseteq Workers
    BY <1>3, FS_Subset DEF Spenders
  <2>2. \A v \in Spenders(m) : Redeeming[v] \in Int /\ Redeeming[v] >= 0
    BY BodyType DEF Spenders, Redeeming, IInv, RequestOK, BodyOK, Resolved, HoldingSteps
  <2>3. \A v \in S : Redeeming[v] \in Int /\ f[v] = Redeeming[v]
    BY <1>4, <1>5, <1>8, <2>2 DEF Redeeming
  <2>4. Sigma(f, S) = Sigma(Redeeming, S)
    BY <1>5, <2>3, SigmaSame
  <2>5. Sigma(Redeeming, S) <= Sigma(Redeeming, Spenders(m))
    BY <1>8, <2>1, <2>2, SigmaSubset
  <2>6. Sigma(Redeeming, Spenders(m)) <= points[m] + Largest(m) * (Cardinality(Workers) - 1)
    BY DEF PointsLeft
  <2>7. Sigma(Redeeming, S) \in Int /\ Sigma(Redeeming, Spenders(m)) \in Int
    BY <1>5, <2>1, <2>2, <2>3, SigmaType
  <2>8. points[m] + Largest(m) * (Cardinality(Workers) - 1) \in Int
    BY <1>3
  <2>9. \A x, y, z \in Int : x <= y /\ y <= z => x <= z
    OBVIOUS
  <2> QED
    BY <2>4, <2>5, <2>6, <2>7, <2>8, <2>9
<1>9. CASE ~(S \subseteq Spenders(m) /\ \A v \in S : tx'[v].cart = tx[v].cart)
  <2>1. w \in S /\ ~(w \in Spenders(m) /\ r.cart = tx[w].cart)
    BY <1>1, <1>4, <1>9 DEF Spenders
  <2>2. f[w] <= points[m]
    BY <1>1, <1>4, <1>6, <2>1 DEF BalanceKnown, Spenders
  <2>3. /\ IsFiniteSet(S \ {w}) /\ Cardinality(S \ {w}) = Cardinality(S) - 1
        /\ Cardinality(S) \in Nat /\ Cardinality(S) <= Cardinality(Workers)
    BY <1>3, <1>5, <2>1, FS_RemoveElement, FS_CardinalityType, FS_Subset
  <2>4. Sigma(f, S) = f[w] + Sigma(f, S \ {w})
    BY <1>5, <1>7, <2>1, SigmaRemove
  <2>5. Sigma(f, S \ {w}) <= Largest(m) * Cardinality(S \ {w})
    BY <1>3, <1>7, <2>3, SigmaBound
  <2>6. \A a \in Nat, i, j \in Int : i <= j => a * i <= a * j /\ a * i \in Int /\ a * j \in Int
    OBVIOUS
  <2>7. /\ Largest(m) * Cardinality(S \ {w}) <= Largest(m) * (Cardinality(Workers) - 1)
        /\ Largest(m) * Cardinality(S \ {w}) \in Int
        /\ Largest(m) * (Cardinality(Workers) - 1) \in Int
    BY <1>3, <2>3, <2>6
  <2>8. Sigma(f, S \ {w}) \in Int /\ f[w] \in Int
    BY <1>7, <2>1, <2>3, SigmaType
  <2>9. \A x, y, u, s, z \in Int : x <= y /\ s <= u /\ u <= z => x + s <= y + z
    OBVIOUS
  <2>10. f[w] + Sigma(f, S \ {w}) <= points[m] + Largest(m) * (Cardinality(Workers) - 1)
    BY <1>3, <2>2, <2>5, <2>7, <2>8, <2>9
  <2> QED
    BY <2>4, <2>10
<1> QED
  BY <1>8, <1>9

\* A step that touches nothing but worker w's request and its locks.
LEMMA PrivateBook ==
    ASSUME IInv, BookInv, NEW w \in Workers, NEW r \in Requests, Becomes(w, r), UNCHANGED dbVars,
           \/ lock' = lock
           \/ \E row \in Rows : TakeRow(w, row)
           \/ ReleaseRows(w),
           BookOK(w)', UsesAllowed(w, r), BalanceKnown(w, r)
    PROVE  BookInv'
<1>1. \A v \in Workers \ {w} : BookOK(v)'
  <2>1. \A v \in Workers \ {w} : tx'[v] = tx[v]
    BY BecomesOne DEF IInv, TypeOK
  <2>2. \A v \in Workers \ {w} : \A row \in Rows : lock'[row] = v <=> lock[row] = v
    BY LocksOfOthers DEF IInv
  <2>3. points' = points
    BY DEF dbVars
  <2> QED
    BY <2>1, <2>2, <2>3, OtherBook DEF BookInv
<1>2. PointsMatchSales'
  BY DEF BookInv, dbVars, PointsMatchSales
<1>3. UsesLeft'
  BY UsesLeftKept DEF BookInv, dbVars
<1>4. PointsLeft'
  BY PointsLeftKept DEF BookInv, dbVars
<1> QED
  BY <1>1, <1>2, <1>3, <1>4 DEF BookInv

\* A request that holds no row, before it is resolved or after its commit.
LEMMA QuietBook ==
    ASSUME IInv, BookInv, NEW w \in Workers, NEW r \in Requests, Becomes(w, r), UNCHANGED dbVars,
           lock' = lock \/ ReleaseRows(w),
           \A row \in Rows : lock'[row] # w,
           r.step \in {"idle", "find", "customer", "promotions", "reply"},
           BalanceKnown(w, r)
    PROVE  BookInv'
<1>1. tx'[w] = r
  BY BecomesOne DEF IInv, TypeOK
<1>2. r.step \notin Resolved /\ r.step # "adjusted"
  BY DEF Resolved, HoldingSteps
<1>3. TermsOK(w)'
  BY <1>1, <1>2 DEF TermsOK
<1>4. LinesOK(w)'
  BY <1>1, <1>2 DEF LinesOK
<1>5. PointsOK(w)'
  BY <1>1, <1>2 DEF PointsOK, Rows
<1>6. AdjustOK(w)'
  BY <1>1, <1>2 DEF AdjustOK
<1>7. BookOK(w)'
  BY <1>3, <1>4, <1>5, <1>6 DEF BookOK
<1>8. UsesAllowed(w, r)
  BY <1>2 DEF UsesAllowed
<1> QED
  BY <1>7, <1>8, PrivateBook

\* A request that is answered or dies.
LEMMA EndBook ==
    ASSUME IInv, BookInv, NEW w \in Workers, Becomes(w, Idle), ReleaseRows(w), UNCHANGED dbVars
    PROVE  BookInv'
<1>1. \A row \in Rows : lock'[row] # w
  BY WorkerAssumption DEF IInv, TypeOK, ReleaseRows
<1>2. BalanceKnown(w, Idle)
  BY IdleRequest DEF BalanceKnown, Resolved, HoldingSteps
<1> QED
  BY <1>1, <1>2, IdleRequest, QuietBook

\* Answer keeps the invariant of the refinement.
LEMMA AnswerBook ==
    ASSUME IInv, BookInv, NEW w \in Workers, NEW code, NEW n, Answer(w, code, n)
    PROVE  BookInv'
  BY EndBook DEF Answer
-----------------------------------------------------------------------------
\* One lemma per action.

\* Submit keeps the invariant of the refinement.
LEMMA SubmitBook ==
    ASSUME IInv, BookInv, NEW w \in Workers, NEW c \in Carts, Submit(w, c)
    PROVE  BookInv'
<1> DEFINE r == [Idle EXCEPT !.step = "find", !.cart = c]
<1>1. r \in Requests /\ r.step = "find" /\ Becomes(w, r)
  BY IdleRequest DEF Submit, Requests, Steps
<1>2. \A row \in Rows : lock'[row] # w
  BY DEF Submit, At, IInv, RequestOK, RowsOK, HoldingSteps
<1>3. BalanceKnown(w, r)
  BY <1>1 DEF BalanceKnown, Resolved, HoldingSteps
<1> HIDE DEF r
<1> QED
  BY <1>1, <1>2, <1>3, QuietBook DEF Submit

\* FindSale keeps the invariant of the refinement.
LEMMA FindSaleBook ==
    ASSUME IInv, BookInv, NEW w \in Workers, FindSale(w)
    PROVE  BookInv'
<1>1. PICK s \in sales : Becomes(w, [tx[w] EXCEPT !.step = "reply", !.receipt = s.receipt])
  BY DEF FindSale
<1> DEFINE r == [tx[w] EXCEPT !.step = "reply", !.receipt = s.receipt]
<1>2. tx[w] \in Requests /\ s.receipt \in Nat
  BY DEF IInv, TypeOK, SaleRows
<1>3. r \in Requests /\ r.step = "reply" /\ Becomes(w, r)
  BY <1>1, <1>2 DEF Requests, Steps
<1>4. \A row \in Rows : lock'[row] # w
  BY DEF FindSale, At, IInv, RequestOK, RowsOK, HoldingSteps
<1>5. BalanceKnown(w, r)
  BY <1>3 DEF BalanceKnown, Resolved, HoldingSteps
<1> HIDE DEF r
<1> QED
  BY <1>3, <1>4, <1>5, QuietBook DEF FindSale

\* FindNoSale keeps the invariant of the refinement.
LEMMA FindNoSaleBook ==
    ASSUME IInv, BookInv, NEW w \in Workers, FindNoSale(w)
    PROVE  BookInv'
<1>1. CASE Lines[tx[w].cart] = <<>>
  BY <1>1, AnswerBook DEF FindNoSale
<1>2. CASE Lines[tx[w].cart] # <<>>
  <2> DEFINE r == [tx[w] EXCEPT !.step = "customer"]
  <2>1. r \in Requests /\ r.step = "customer" /\ Becomes(w, r)
    <3>1. tx[w] \in Requests
      BY DEF IInv, TypeOK
    <3> QED
      BY <1>2, <3>1 DEF FindNoSale, Requests, Steps
  <2>2. \A row \in Rows : lock'[row] # w
    BY <1>2 DEF FindNoSale, At, IInv, RequestOK, RowsOK, HoldingSteps
  <2>3. BalanceKnown(w, r)
    BY <2>1 DEF BalanceKnown, Resolved, HoldingSteps
  <2> HIDE DEF r
  <2> QED
    BY <1>2, <2>1, <2>2, <2>3, QuietBook DEF FindNoSale
<1> QED
  BY <1>1, <1>2

\* ReadCustomer keeps the invariant of the refinement.
LEMMA ReadCustomerBook ==
    ASSUME IInv, BookInv, NEW w \in Workers, ReadCustomer(w)
    PROVE  BookInv'
<1> DEFINE buyer == Buyer[tx[w].cart]
           balance == IF buyer = NoCustomer THEN 0 ELSE points[buyer]
           r == [tx[w] EXCEPT !.step = "promotions", !.balance = balance]
<1>1. tx[w] \in Requests /\ tx[w].cart \in Carts
  BY DEF ReadCustomer, At, IInv, TypeOK, RequestOK, BodyOK
<1>2. balance \in Int /\ (buyer \in Customers => balance = points[buyer])
  BY <1>1, BodyAssumption, SetsAssumption DEF IInv, TypeOK
<1>3. Becomes(w, r)
  BY DEF ReadCustomer
<1> HIDE DEF balance
<1>4. r \in Requests /\ r.step = "promotions" /\ r.cart = tx[w].cart /\ r.balance = balance
  BY <1>1, <1>2 DEF Requests, Steps
<1> HIDE DEF r
<1>5. \A row \in Rows : lock'[row] # w
  BY DEF ReadCustomer, At, IInv, RequestOK, RowsOK, HoldingSteps
<1>6. BalanceKnown(w, r)
  BY <1>1, <1>2, <1>4 DEF BalanceKnown
<1> QED
  BY <1>3, <1>4, <1>5, <1>6, QuietBook DEF ReadCustomer

\* ResolveCheckout keeps the invariant of the refinement.
LEMMA ResolveCheckoutBook ==
    ASSUME IInv, BookInv, NEW w \in Workers, ResolveCheckout(w)
    PROVE  BookInv'
<1> DEFINE c == tx[w].cart
           applied == AppliedNow(c)
           r == [tx[w] EXCEPT !.step = "receipt", !.applied = applied]
<1>1. tx[w] \in Requests /\ tx[w].cart \in Carts /\ tx[w].step = "promotions"
  BY DEF ResolveCheckout, At, IInv, TypeOK, RequestOK, BodyOK
<1>2. applied \in SUBSET Promos /\ applied \subseteq Offers[c] /\ \A k \in applied : uses[k] < MaxUses[k]
  BY <1>1, BodyAssumption DEF AppliedNow
<1>3. CASE Answer(w, 400, 0)
  BY <1>3, AnswerBook
<1>4. CASE /\ Coupons[c] \subseteq applied /\ Total[c][applied] >= 0 /\ EnoughPoints(w)
           /\ Becomes(w, r) /\ UNCHANGED <<dbVars, lock, answers, countVars>>
  <2> HIDE DEF applied
  <2>1. /\ r \in Requests /\ r.step = "receipt" /\ r.cart = c
        /\ r.balance = tx[w].balance /\ r.applied = applied
    BY <1>1, <1>2 DEF Requests, Steps
  <2> HIDE DEF r
  <2>2. tx'[w] = r
    BY <1>4, <2>1, BecomesOne DEF IInv, TypeOK
  <2>3. \A row \in Rows : lock'[row] # w
    BY <1>1, <1>4 DEF IInv, RequestOK, RowsOK, HoldingSteps
  <2>4. TermsOK(w)'
    BY <1>2, <1>4, <2>1, <2>2 DEF TermsOK, EnoughPoints
  <2>5. LinesOK(w)'
    BY <2>1, <2>2 DEF LinesOK
  <2>6. PointsOK(w)'
    BY <2>1, <2>2, <2>3 DEF PointsOK, Rows
  <2>7. AdjustOK(w)'
    BY <2>1, <2>2 DEF AdjustOK
  <2>8. BookOK(w)'
    BY <2>4, <2>5, <2>6, <2>7 DEF BookOK
  <2>9. UsesAllowed(w, r) /\ BalanceKnown(w, r)
    BY <1>1, <1>2, <2>1 DEF UsesAllowed, BalanceKnown
  <2> QED
    BY <1>4, <2>1, <2>8, <2>9, PrivateBook
<1> QED
  BY <1>3, <1>4 DEF ResolveCheckout

\* A resolved checkout goes on as resolved.
LEMMA ResolvedBook ==
    ASSUME IInv, BookInv, NEW w \in Workers, NEW r \in Requests, Becomes(w, r), UNCHANGED dbVars,
           lock' = lock \/ \E row \in Rows : TakeRow(w, row),
           tx[w].step \in Resolved, r.step \in Resolved,
           r.cart = tx[w].cart, r.applied = tx[w].applied, r.balance = tx[w].balance,
           LinesOK(w)', PointsOK(w)'
    PROVE  BookInv'
<1>1. tx'[w] = r
  BY BecomesOne DEF IInv, TypeOK
<1>2. TermsOK(w)'
  BY <1>1 DEF BookInv, BookOK, TermsOK, EnoughPoints
<1>3. AdjustOK(w)'
  BY <1>1 DEF AdjustOK, Resolved, HoldingSteps
<1>4. BookOK(w)'
  BY <1>2, <1>3 DEF BookOK
<1>5. UsesAllowed(w, r) /\ BalanceKnown(w, r)
  BY DEF UsesAllowed, BalanceKnown
<1> QED
  BY <1>4, <1>5, PrivateBook

\* Before its points move a checkout holds no customer row.
LEMMA NoCustomerRow ==
    ASSUME IInv, BookInv, NEW w \in Workers, tx[w].step \notin {"uses", "commit"}
    PROVE  \A m \in Customers : lock[m] # w
  BY DEF BookInv, BookOK, PointsOK

\* NextReceiptNo keeps the invariant of the refinement.
LEMMA NextReceiptNoBook ==
    ASSUME IInv, BookInv, NEW w \in Workers, NextReceiptNo(w)
    PROVE  BookInv'
<1> DEFINE r == [tx[w] EXCEPT !.step = "insert", !.receipt = receiptCounter + 1]
<1>1. tx[w] \in Requests /\ receiptCounter + 1 \in Nat /\ tx[w].step = "receipt"
  BY DEF NextReceiptNo, At, IInv, TypeOK
<1>2. /\ r \in Requests /\ r.step = "insert" /\ r.cart = tx[w].cart /\ r.applied = tx[w].applied
      /\ r.balance = tx[w].balance /\ r.moved = tx[w].moved /\ Becomes(w, r)
  BY <1>1 DEF NextReceiptNo, Requests, Steps
<1> HIDE DEF r
<1>3. tx'[w] = r
  BY <1>2, BecomesOne DEF IInv, TypeOK
<1>4. TakeRow(w, Tenant) /\ UNCHANGED dbVars /\ Tenant \in Rows
  BY DEF NextReceiptNo, Rows
<1>5. \A m \in Customers : lock'[m] # w
  BY <1>1, <1>4, NoCustomerRow, WorkerAssumption DEF TakeRow, IInv, TypeOK
<1>6. \A p \in Products : tx[w].moved[p] = 0
  BY <1>1 DEF IInv, RequestOK, RowsOK, StockOK, HoldingSteps, Rows
<1>7. LinesOK(w)' /\ PointsOK(w)'
  BY <1>2, <1>3, <1>5, <1>6 DEF LinesOK, PointsOK
<1> QED
  BY <1>1, <1>2, <1>4, <1>7, ResolvedBook DEF Resolved, HoldingSteps

\* InsertSale keeps the invariant of the refinement.
LEMMA InsertSaleBook ==
    ASSUME IInv, BookInv, NEW w \in Workers, InsertSale(w)
    PROVE  BookInv'
<1> DEFINE r == [tx[w] EXCEPT !.step = "lines"]
<1>1. /\ tx[w] \in Requests /\ tx[w].cart \in Carts /\ tx[w].step = "insert" /\ tx[w].line = 1
  BY DEF InsertSale, At, IInv, TypeOK, RequestOK, BodyOK
<1>2. CASE Answer(w, 500, 0)
  BY <1>2, AnswerBook
<1>3. CASE Becomes(w, r) /\ UNCHANGED <<dbVars, lock, answers, countVars>>
  <2>1. /\ r \in Requests /\ r.step = "lines" /\ r.cart = tx[w].cart /\ r.applied = tx[w].applied
        /\ r.balance = tx[w].balance /\ r.moved = tx[w].moved /\ r.line = 1
    BY <1>1 DEF Requests, Steps
  <2> HIDE DEF r
  <2>2. tx'[w] = r
    BY <1>3, <2>1, BecomesOne DEF IInv, TypeOK
  <2>3. \A p \in Products : tx[w].moved[p] = 0
    BY <1>1 DEF BookInv, BookOK, LinesOK
  <2>4. LinesOK(w)'
    BY <1>1, <2>1, <2>2, <2>3, UnitsAtTheEnds DEF LinesOK
  <2>5. PointsOK(w)'
    BY <1>1, <1>3, <2>1, <2>2, NoCustomerRow DEF PointsOK
  <2> QED
    BY <1>1, <1>3, <2>1, <2>4, <2>5, ResolvedBook DEF Resolved, HoldingSteps
<1> QED
  BY <1>2, <1>3 DEF InsertSale

\* After a line the movements are those of the lines up to it.
LEMMA LineDone ==
    ASSUME IInv, BookInv, NEW w \in Workers, At(w, "lines"), NEW r \in Requests, Becomes(w, r),
           r.cart = tx[w].cart, r.line = tx[w].line + 1, r.step = StepAfterLine(w),
           \A p \in Products :
               r.moved[p] = tx[w].moved[p] -
                   (IF p \in Tracked /\ Lines[tx[w].cart][tx[w].line].product = p
                    THEN Lines[tx[w].cart][tx[w].line].qty ELSE 0)
    PROVE  LinesOK(w)'
<1>1. tx'[w] = r
  BY BecomesOne DEF IInv, TypeOK
<1>2. PICK c, n : c = tx[w].cart /\ n = tx[w].line
  OBVIOUS
<1>3. /\ c \in Carts /\ n \in 1 .. Len(Lines[c]) /\ StepAfterLine(w) \in {"lines", "points", "uses"}
      /\ Len(Lines[c]) \in Nat /\ n \in Nat
  BY <1>2, NextStep, BodyType
<1>4. ASSUME NEW p \in Products PROVE r.moved[p] = 0 - UnitsBefore(c, p, n + 1)
  <2>1. PICK q : q = (IF p \in Tracked /\ Lines[c][n].product = p THEN Lines[c][n].qty ELSE 0)
    OBVIOUS
  <2>2. UnitsBefore(c, p, n) \in Int /\ UnitsBefore(c, p, n + 1) = UnitsBefore(c, p, n) + q
    BY <1>3, <2>1, UnitsOfTheNextLine
  <2>3. tx[w].moved[p] = 0 - UnitsBefore(c, p, n)
    BY <1>2 DEF At, BookInv, BookOK, LinesOK
  <2>4. q \in Int
    BY <1>3, <2>1, BodyType
  <2>5. r.moved[p] = tx[w].moved[p] - q
    BY <1>2, <2>1
  <2>6. \A x, y \in Int : (0 - x) - y = 0 - (x + y)
    OBVIOUS
  <2> QED
    BY <2>2, <2>3, <2>4, <2>5, <2>6
<1>5. CASE StepAfterLine(w) = "lines"
  BY <1>1, <1>2, <1>4, <1>5 DEF LinesOK
<1>6. CASE StepAfterLine(w) # "lines"
  <2>1. n = Len(Lines[c])
    BY <1>2, <1>3, <1>6 DEF StepAfterLine
  <2>2. \A p \in Products : UnitsBefore(c, p, n + 1) = UnitsSold(c, p)
    BY <1>3, <2>1, UnitsAtTheEnds
  <2> QED
    BY <1>1, <1>2, <1>3, <1>4, <1>6, <2>2 DEF LinesOK
<1> QED
  BY <1>5, <1>6

\* It moves no points yet, and holds the buyer's row if it skips to the promotions.
LEMMA LinePoints ==
    ASSUME IInv, BookInv, NEW w \in Workers, At(w, "lines"), NEW r \in Requests, Becomes(w, r),
           r.cart = tx[w].cart, r.step = StepAfterLine(w),
           \A m \in Customers : lock'[m] # w
    PROVE  PointsOK(w)'
<1>1. tx'[w] = r
  BY BecomesOne DEF IInv, TypeOK
<1>2. r.step \in {"uses", "commit"} => Buyer[r.cart] = NoCustomer
  BY NextStep DEF StepAfterLine
<1> QED
  BY <1>1, <1>2 DEF PointsOK

\* DecrementStock keeps the invariant of the refinement.
LEMMA DecrementStockBook ==
    ASSUME IInv, BookInv, NEW w \in Workers, DecrementStock(w)
    PROVE  BookInv'
<1> DEFINE line == Lines[tx[w].cart][tx[w].line]
           p == line.product
           shelf == ShelfSeenBy(w, p)
           r == [tx[w] EXCEPT !.stock = [tx[w].stock EXCEPT ![p] = shelf - line.qty],
                              !.moved = [tx[w].moved EXCEPT ![p] = @ - line.qty],
                              !.line = @ + 1,
                              !.step = StepAfterLine(w)]
<1>1. /\ Becomes(w, r) /\ TakeRow(w, p) /\ At(w, "lines") /\ UNCHANGED dbVars
      /\ p \in Tracked
  BY DEF DecrementStock
<1>2. /\ tx[w] \in Requests /\ tx[w].cart \in Carts
      /\ tx[w].line \in 1 .. Len(Lines[tx[w].cart])
  BY <1>1, NextStep
<1>3. line \in [product : Products, qty : Nat \ {0}]
  BY <1>2, BodyType
<1>4. p \in Products /\ line.qty \in Int /\ shelf \in Int
  <2>1. p \in Products /\ line.qty \in Int
    BY <1>3
  <2>2. tx[w].stock[p] \in Int /\ stock[p] \in Int
    BY <1>2, <2>1 DEF IInv, TypeOK, Requests
  <2> QED
    BY <2>1, <2>2 DEF ShelfSeenBy
<1> HIDE DEF shelf
<1>5. /\ r \in Requests /\ r.step = StepAfterLine(w) /\ r.cart = tx[w].cart
      /\ r.applied = tx[w].applied /\ r.balance = tx[w].balance
      /\ r.line = tx[w].line + 1
      /\ r.moved = [tx[w].moved EXCEPT ![p] = @ - line.qty]
  <2>1. StepAfterLine(w) \in Steps
    BY <1>1, NextStep DEF Steps
  <2>2. tx[w].line + 1 \in Nat \ {0}
    BY <1>2 DEF Requests
  <2>3. /\ [tx[w].stock EXCEPT ![p] = shelf - line.qty] \in [Products -> Int]
        /\ [tx[w].moved EXCEPT ![p] = @ - line.qty] \in [Products -> Int]
    <3> HIDE DEF line, p
    <3> QED
      BY <1>2, <1>4 DEF Requests
  <2> HIDE DEF Steps, line
  <2> QED
    BY <1>2, <2>1, <2>2, <2>3 DEF Requests
<1> HIDE DEF r
<1>6. ASSUME NEW q \in Products
      PROVE  r.moved[q] = tx[w].moved[q] - (IF q \in Tracked /\ p = q THEN line.qty ELSE 0)
  <2>1. tx[w].moved \in [Products -> Int]
    BY <1>2 DEF Requests
  <2> HIDE DEF line
  <2> QED
    BY <1>1, <1>4, <1>5, <2>1
<1>7. LinesOK(w)'
  BY <1>1, <1>5, <1>6, LineDone
<1>8. \A m \in Customers : lock'[m] # w
  BY <1>1, <1>4, NoCustomerRow, WorkerAssumption DEF At, TakeRow, IInv, TypeOK
<1>9. PointsOK(w)'
  BY <1>1, <1>5, <1>8, LinePoints
<1>10. r.step \in Resolved /\ tx[w].step \in Resolved /\ \E row \in Rows : TakeRow(w, row)
  BY <1>1, <1>4, <1>5, NextStep DEF Resolved, HoldingSteps, At, Rows
<1> QED
  BY <1>1, <1>5, <1>7, <1>9, <1>10, ResolvedBook

\* SkipUntracked keeps the invariant of the refinement.
LEMMA SkipUntrackedBook ==
    ASSUME IInv, BookInv, NEW w \in Workers, SkipUntracked(w)
    PROVE  BookInv'
<1> DEFINE r == [tx[w] EXCEPT !.line = @ + 1, !.step = StepAfterLine(w)]
<1>1. /\ At(w, "lines") /\ Becomes(w, r) /\ UNCHANGED <<dbVars, lock>>
      /\ Lines[tx[w].cart][tx[w].line].product \notin Tracked
  BY DEF SkipUntracked
<1>2. tx[w] \in Requests
  BY <1>1, NextStep
<1>3. /\ r \in Requests /\ r.step = StepAfterLine(w) /\ r.cart = tx[w].cart
      /\ r.applied = tx[w].applied /\ r.balance = tx[w].balance
      /\ r.line = tx[w].line + 1 /\ r.moved = tx[w].moved
  <2>1. StepAfterLine(w) \in Steps /\ tx[w].line + 1 \in Nat \ {0}
    BY <1>1, <1>2, NextStep DEF Steps, Requests
  <2> HIDE DEF Steps
  <2> QED
    BY <1>2, <2>1 DEF Requests
<1> HIDE DEF r
<1>4. ASSUME NEW p \in Products
      PROVE  r.moved[p] = tx[w].moved[p] -
                 (IF p \in Tracked /\ Lines[tx[w].cart][tx[w].line].product = p
                  THEN Lines[tx[w].cart][tx[w].line].qty ELSE 0)
  <2>1. tx[w].moved[p] \in Int
    BY <1>2 DEF Requests
  <2> QED
    BY <1>1, <1>3, <2>1
<1>5. LinesOK(w)'
  BY <1>1, <1>3, <1>4, LineDone
<1>6. PointsOK(w)'
  BY <1>1, <1>3, NoCustomerRow, LinePoints DEF At
<1>7. r.step \in Resolved /\ tx[w].step \in Resolved
  BY <1>1, <1>3, NextStep DEF Resolved, HoldingSteps, At
<1> QED
  BY <1>1, <1>3, <1>5, <1>6, <1>7, ResolvedBook

\* UpdatePoints keeps the invariant of the refinement.
LEMMA UpdatePointsBook ==
    ASSUME IInv, BookInv, NEW w \in Workers, UpdatePoints(w)
    PROVE  BookInv'
<1> DEFINE buyer == Buyer[tx[w].cart]
           balance == points[buyer] + PointsDelta(tx[w].cart, tx[w].applied)
           r == [tx[w] EXCEPT !.points = balance, !.step = "uses"]
<1>1. /\ tx[w].step = "points" /\ TakeRow(w, buyer) /\ Becomes(w, r) /\ UNCHANGED dbVars
  BY DEF UpdatePoints, At
<1>2. tx[w] \in Requests /\ tx[w].cart \in Carts /\ buyer \in Customers
  BY <1>1 DEF IInv, TypeOK, RequestOK, BodyOK
<1>3. balance \in Int
  <2>1. tx[w].applied \in SUBSET Promos /\ points[buyer] \in Int
    BY <1>2 DEF IInv, TypeOK, Requests
  <2>2. PointsDelta(tx[w].cart, tx[w].applied) \in Int
    BY <1>2, <2>1, PointsDeltaType
  <2> QED
    BY <2>1, <2>2
<1> HIDE DEF balance
<1>4. /\ r \in Requests /\ r.step = "uses" /\ r.cart = tx[w].cart /\ r.applied = tx[w].applied
      /\ r.balance = tx[w].balance /\ r.moved = tx[w].moved /\ r.points = balance
  BY <1>2, <1>3 DEF Requests, Steps
<1> HIDE DEF r
<1>5. tx'[w] = r
  BY <1>1, <1>4, BecomesOne DEF IInv, TypeOK
<1>6. lock'[buyer] = w /\ \A m \in Customers : lock'[m] = w => m = buyer
  BY <1>1, <1>2, NoCustomerRow DEF TakeRow, IInv, TypeOK, Rows
<1>7. \A p \in Products : tx[w].moved[p] = 0 - UnitsSold(tx[w].cart, p)
  BY <1>1 DEF BookInv, BookOK, LinesOK
<1>8. LinesOK(w)'
  BY <1>4, <1>5, <1>7 DEF LinesOK
<1>9. PointsOK(w)'
  BY <1>1, <1>4, <1>5, <1>6 DEF PointsOK, balance, dbVars
<1>10. r.step \in Resolved /\ tx[w].step \in Resolved /\ \E row \in Rows : TakeRow(w, row)
  BY <1>1, <1>2, <1>4 DEF Resolved, HoldingSteps, Rows
<1> QED
  BY <1>1, <1>4, <1>8, <1>9, <1>10, ResolvedBook

\* RecordUses keeps the invariant of the refinement.
LEMMA RecordUsesBook ==
    ASSUME IInv, BookInv, NEW w \in Workers, RecordUses(w)
    PROVE  BookInv'
<1> DEFINE r == [tx[w] EXCEPT !.used = uses, !.step = "commit"]
<1>1. tx[w].step = "uses" /\ Becomes(w, r) /\ UNCHANGED <<dbVars, lock>>
  BY DEF RecordUses, At
<1>2. tx[w] \in Requests /\ uses \in [Promos -> Nat]
  BY DEF IInv, TypeOK
<1>3. /\ r \in Requests /\ r.step = "commit" /\ r.cart = tx[w].cart /\ r.applied = tx[w].applied
      /\ r.balance = tx[w].balance /\ r.moved = tx[w].moved /\ r.points = tx[w].points
  BY <1>2 DEF Requests, Steps
<1> HIDE DEF r
<1>4. tx'[w] = r
  BY <1>1, <1>3, BecomesOne DEF IInv, TypeOK
<1>5. LinesOK(w)'
  BY <1>1, <1>3, <1>4 DEF BookInv, BookOK, LinesOK
<1>6. PointsOK(w)'
  BY <1>1, <1>3, <1>4 DEF BookInv, BookOK, PointsOK, dbVars
<1>7. r.step \in Resolved /\ tx[w].step \in Resolved
  BY <1>1, <1>3 DEF Resolved, HoldingSteps
<1> QED
  BY <1>1, <1>3, <1>5, <1>6, <1>7, ResolvedBook

\* Reply keeps the invariant of the refinement.
LEMMA ReplyBook ==
    ASSUME IInv, BookInv, NEW w \in Workers, Reply(w)
    PROVE  BookInv'
  BY AnswerBook DEF Reply

\* Crash keeps the invariant of the refinement.
LEMMA CrashBook ==
    ASSUME IInv, BookInv, NEW w \in Workers, Crash(w)
    PROVE  BookInv'
  BY EndBook DEF Crash

\* AdjustStock keeps the invariant of the refinement.
LEMMA AdjustStockBook ==
    ASSUME IInv, BookInv, NEW w \in Workers, NEW p \in Products, NEW d \in Deltas,
           AdjustStock(w, p, d)
    PROVE  BookInv'
<1> DEFINE shelf == ShelfSeenBy(w, p)
           r == [Idle EXCEPT !.step = "adjusted",
                             !.stock = [Idle.stock EXCEPT ![p] = shelf + d],
                             !.moved = [Idle.moved EXCEPT ![p] = d]]
<1>1. At(w, "idle") /\ TakeRow(w, p) /\ Becomes(w, r) /\ UNCHANGED dbVars
  BY DEF AdjustStock
<1>2. stock[p] \in Int /\ d \in Int
  BY WorkerAssumption DEF IInv, TypeOK
<1>3. \A row \in Rows : lock[row] # w
  BY <1>1 DEF At, IInv, RequestOK, RowsOK, HoldingSteps
<1>4. shelf \in Int
  BY <1>2, <1>3 DEF ShelfSeenBy, Rows
<1> HIDE DEF shelf
<1>5. r \in Requests /\ r.step = "adjusted" /\ r.moved[p] = d
  <2>1. /\ [Idle.stock EXCEPT ![p] = shelf + d] \in [Products -> Int]
        /\ [Idle.moved EXCEPT ![p] = d] \in [Products -> Int]
        /\ [Idle.moved EXCEPT ![p] = d][p] = d
    BY <1>2, <1>4, IdleRequest DEF Requests
  <2> QED
    BY <2>1, IdleRequest DEF Requests, Steps
<1> HIDE DEF r
<1>6. tx'[w] = r
  BY <1>1, <1>5, BecomesOne DEF IInv, TypeOK
<1>7. /\ lock'[p] = w /\ \A row \in Rows \ {p} : lock'[row] # w
  BY <1>1, <1>3 DEF TakeRow, IInv, TypeOK, Rows
<1>8. r.step \notin {"promotions"} \cup Resolved
  BY <1>5 DEF Resolved, HoldingSteps
<1>9. TermsOK(w)' /\ LinesOK(w)'
  BY <1>5, <1>6, <1>8 DEF TermsOK, LinesOK
<1>10. PointsOK(w)'
  <2>1. \A m \in Customers : lock'[m] # w
    BY <1>7, WorkerAssumption DEF Rows
  <2> QED
    BY <1>5, <1>6, <2>1 DEF PointsOK
<1>11. AdjustOK(w)'
  BY <1>5, <1>6, <1>7 DEF AdjustOK, Rows
<1>12. BookOK(w)'
  BY <1>9, <1>10, <1>11 DEF BookOK
<1>13. UsesAllowed(w, r) /\ BalanceKnown(w, r)
  BY <1>8 DEF UsesAllowed, BalanceKnown
<1>14. \E row \in Rows : TakeRow(w, row)
  BY <1>1 DEF Rows
<1> QED
  BY <1>1, <1>5, <1>12, <1>13, <1>14, PrivateBook

\* The commit of an adjustment moves no points and counts no use.
LEMMA CommitAdjustBook ==
    ASSUME IInv, BookInv, NEW w \in Workers, CommitAdjust(w)
    PROVE  BookInv'
<1>1. Becomes(w, Idle) /\ ReleaseRows(w) /\ UNCHANGED <<sales, points, uses>>
  BY DEF CommitAdjust
<1>2. tx'[w] = Idle /\ \A v \in Workers \ {w} : tx'[v] = tx[v]
  BY <1>1, BecomesOne, IdleRequest DEF IInv, TypeOK
<1>3. \A row \in Rows : lock'[row] # w
  BY <1>1, WorkerAssumption DEF IInv, TypeOK, ReleaseRows
<1>4. ASSUME NEW v \in Workers \ {w} PROVE BookOK(v)'
  <2>1. \A row \in Rows : lock'[row] = v <=> lock[row] = v
    BY <1>1, LocksOfOthers DEF IInv
  <2>2. BookOK(v) /\ tx'[v] = tx[v] /\ points' = points
    BY <1>1, <1>2 DEF BookInv
  <2> QED
    BY <2>1, <2>2, OtherBook
<1>5. BookOK(w)'
  BY <1>2, <1>3, IdleRequest
     DEF BookOK, TermsOK, LinesOK, PointsOK, AdjustOK, Resolved, HoldingSteps, Rows
<1>6. PointsMatchSales'
  BY <1>1 DEF BookInv, PointsMatchSales
<1>7. UsesAllowed(w, Idle) /\ BalanceKnown(w, Idle)
  BY IdleRequest DEF UsesAllowed, BalanceKnown, Resolved, HoldingSteps
<1>8. UsesLeft' /\ PointsLeft'
  BY <1>1, <1>7, IdleRequest, UsesLeftKept, PointsLeftKept DEF BookInv
<1> QED
  BY <1>4, <1>5, <1>6, <1>8 DEF BookInv

\* What a checkout stands at when it commits.
LEMMA AtCommit ==
    ASSUME IInv, BookInv, NEW w \in Workers, tx[w].step = "commit"
    PROVE  /\ tx[w] \in Requests /\ tx[w].cart \in Carts /\ tx[w].applied \in SUBSET Promos
           /\ tx[w].receipt = receiptCounter + 1 /\ tx[w].used = uses
           /\ \A s \in sales : s.uuid # tx[w].cart
           /\ tx[w].applied \subseteq Offers[tx[w].cart]
           /\ Coupons[tx[w].cart] \subseteq tx[w].applied
           /\ Total[tx[w].cart][tx[w].applied] >= 0
           /\ EnoughPoints(w)
<1>1. tx[w] \in Requests /\ tx[w].applied \in SUBSET Promos
  BY DEF IInv, TypeOK, Requests
<1>2. /\ tx[w].cart \in Carts /\ tx[w].receipt = receiptCounter + 1 /\ tx[w].used = uses
      /\ \A s \in sales : s.uuid # tx[w].cart
  BY DEF IInv, RequestOK, BodyOK, ReceiptOK, HoldingSteps
<1>3. TermsOK(w)
  BY DEF BookInv, BookOK
<1> QED
  BY <1>1, <1>2, <1>3 DEF TermsOK, Resolved, HoldingSteps

\* The commit moves the points of its buyer, by what the sale is worth, and no others.
LEMMA CommitPoints ==
    ASSUME IInv, BookInv, NEW w \in Workers, Commit(w), NEW m \in Customers
    PROVE  points'[m] = IF m = Buyer[tx[w].cart]
                        THEN points[m] + PointsDelta(tx[w].cart, tx[w].applied)
                        ELSE points[m]
<1>1. tx[w].step = "commit"
  BY DEF Commit, At
<1>2. points'[m] = IF lock[m] = w THEN tx[w].points ELSE points[m]
  BY DEF Commit
<1>3. PointsOK(w)
  BY DEF BookInv, BookOK
<1>4. lock[m] = w <=> m = Buyer[tx[w].cart]
  BY <1>1, <1>3, SetsAssumption DEF PointsOK
<1>5. lock[m] = w => tx[w].points = points[m] + PointsDelta(tx[w].cart, tx[w].applied)
  BY <1>3 DEF PointsOK
<1> QED
  BY <1>2, <1>4, <1>5

\* It takes the units of the body off the shelf.
LEMMA CommitStock ==
    ASSUME IInv, BookInv, NEW w \in Workers, Commit(w), NEW p \in Products
    PROVE  stock'[p] = stock[p] - UnitsSold(tx[w].cart, p)
<1>1. tx[w].step = "commit"
  BY DEF Commit, At
<1>2. stock'[p] = IF lock[p] = w THEN tx[w].stock[p] ELSE stock[p]
  BY DEF Commit, ShelfSeenBy
<1>3. IF lock[p] = w THEN tx[w].stock[p] = stock[p] + tx[w].moved[p] ELSE tx[w].moved[p] = 0
  BY <1>1 DEF IInv, RequestOK, StockOK
<1>4. tx[w].moved[p] = 0 - UnitsSold(tx[w].cart, p)
  BY <1>1 DEF BookInv, BookOK, LinesOK
<1>5. stock[p] \in Int /\ UnitsSold(tx[w].cart, p) \in Int
  <2>1. tx[w].cart \in Carts
    BY <1>1, AtCommit
  <2>2. IsFiniteSet({i \in DOMAIN Lines[tx[w].cart] : Lines[tx[w].cart][i].product = p})
    BY <2>1, BodyType, FS_Subset
  <2>3. PICK c : c = tx[w].cart
    OBVIOUS
  <2>4. PICK f : f = [i \in DOMAIN Lines[c] |-> Lines[c][i].qty]
    OBVIOUS
  <2>5. PICK S : S = {i \in DOMAIN Lines[c] : Lines[c][i].product = p}
    OBVIOUS
  <2>6. IsFiniteSet(S) /\ \A i \in S : f[i] \in Int
    BY <2>1, <2>2, <2>3, <2>4, <2>5, BodyType
  <2>7. Sigma(f, S) \in Int
    BY <2>6, SigmaType
  <2>8. UnitsSold(c, p) \in Int
    BY <2>4, <2>5, <2>7 DEF UnitsSold
  <2> QED
    BY <2>3, <2>8 DEF IInv, TypeOK
<1>6. \A x, y \in Int : x + (0 - y) = x - y
  OBVIOUS
<1>7. \A x, y \in Int : (0 - y = 0) => x = x - y
  OBVIOUS
<1>8. CASE lock[p] = w
  BY <1>2, <1>3, <1>4, <1>5, <1>6, <1>8
<1>9. CASE lock[p] # w
  BY <1>2, <1>3, <1>4, <1>5, <1>7, <1>9
<1> QED
  BY <1>8, <1>9

\* The sale accounts for the points it moved.
LEMMA CommitPointsMatch ==
    ASSUME IInv, BookInv, NEW w \in Workers, Commit(w)
    PROVE  PointsMatchSales'
<1>1. PICK c, a : c = tx[w].cart /\ a = tx[w].applied
  OBVIOUS
<1>2. PICK sale : sale = SaleRow(c, tx[w].receipt, a)
  OBVIOUS
<1>3. /\ c \in Carts /\ a \in SUBSET Promos /\ \A s \in sales : s.uuid # c
      /\ sale.uuid = c /\ sale.earned = PointsEarned(c, a) /\ sale.redeemed = Redeem[c]
  BY <1>1, <1>2, AtCommit DEF Commit, At, SaleRow
<1>4. sales' = sales \cup {sale} /\ sale \notin sales /\ IsFiniteSet(sales)
  BY <1>1, <1>2, <1>3 DEF Commit, IInv
<1>5. /\ \A s \in sales : s.earned - s.redeemed \in Int
      /\ sale.earned - sale.redeemed = PointsDelta(c, a) /\ PointsDelta(c, a) \in Int
  <2>1. \A s \in sales : s.earned \in Int /\ s.redeemed \in Int
    BY DEF IInv, TypeOK, SaleRows
  <2> QED
    BY <1>3, <2>1, PointsDeltaType DEF PointsDelta
<1> SUFFICES ASSUME NEW m \in Customers, NEW g, g = [s \in sales' |-> s.earned - s.redeemed],
                    NEW T, T = {s \in sales' : Buyer[s.uuid] = m}
             PROVE  points'[m] = OpeningPoints[m] + Sigma(g, T)
  BY DEF PointsMatchSales
<1>6. PICK f : f = [s \in sales |-> s.earned - s.redeemed]
  OBVIOUS
<1>7. PICK S : S = {s \in sales : Buyer[s.uuid] = m}
  OBVIOUS
<1>8. points[m] = OpeningPoints[m] + Sigma(f, S)
  BY <1>6, <1>7 DEF BookInv, PointsMatchSales
<1>9. S \in SUBSET sales /\ IsFiniteSet(S)
  BY <1>4, <1>7, FS_Subset
<1>10. \A s \in S : f[s] \in Int /\ g[s] = f[s]
  BY <1>4, <1>5, <1>6, <1>9
<1>11. Sigma(g, S) = Sigma(f, S) /\ Sigma(f, S) \in Int
  BY <1>9, <1>10, SigmaSame, SigmaType
<1>12. OpeningPoints[m] \in Int
  BY ShopAssumption
<1>13. CASE Buyer[c] = m
  <2>1. T = S \cup {sale} /\ sale \notin S
    BY <1>3, <1>4, <1>7, <1>9, <1>13
  <2>2. g[sale] = PointsDelta(c, a) /\ \A s \in S \cup {sale} : g[s] \in Int
    BY <1>4, <1>5, <1>10
  <2>3. Sigma(g, S \cup {sale}) = Sigma(g, S) + g[sale]
    BY <1>9, <2>1, <2>2, SigmaAdd
  <2>4. points'[m] = points[m] + PointsDelta(c, a)
    BY <1>1, <1>13, CommitPoints
  <2>5. \A x, y, z \in Int : (x + y) + z = x + (y + z)
    OBVIOUS
  <2>6. Sigma(g, T) = Sigma(f, S) + PointsDelta(c, a)
    BY <1>11, <2>1, <2>2, <2>3
  <2>7. points'[m] = (OpeningPoints[m] + Sigma(f, S)) + PointsDelta(c, a)
    BY <1>8, <2>4
  <2>8. points'[m] = OpeningPoints[m] + (Sigma(f, S) + PointsDelta(c, a))
    BY <1>5, <1>11, <1>12, <2>5, <2>7
  <2> QED
    BY <2>6, <2>8
<1>14. CASE Buyer[c] # m
  <2>1. T = S
    BY <1>3, <1>4, <1>7, <1>14
  <2>2. points'[m] = points[m]
    BY <1>1, <1>14, CommitPoints
  <2> QED
    BY <1>8, <1>11, <2>1, <2>2
<1> QED
  BY <1>13, <1>14

\* Its uses were pending, and are now counted.
LEMMA CommitUsesLeft ==
    ASSUME IInv, BookInv, NEW w \in Workers, Commit(w)
    PROVE  UsesLeft'
<1>1. tx[w].step = "commit" /\ tx[w].used = uses
  BY AtCommit DEF Commit, At
<1>2. tx'[w].step = "reply" /\ \A v \in Workers \ {w} : tx'[v] = tx[v]
  BY DEF Commit, Becomes, IInv, TypeOK, Requests
<1> SUFFICES ASSUME NEW k \in Promos, NEW K, K = Pending(k)'
             PROVE  uses'[k] + Cardinality(K) < MaxUses[k] + Cardinality(Workers)
  BY DEF UsesLeft
<1>3. PICK J : J = Pending(k)
  OBVIOUS
<1>4. /\ uses[k] \in Nat /\ MaxUses[k] \in Nat
      /\ IsFiniteSet(Workers) /\ Cardinality(Workers) \in Nat
  BY WorkerAssumption, ShopAssumption, FS_CardinalityType DEF IInv, TypeOK
<1>5. J \in SUBSET Workers /\ IsFiniteSet(J) /\ Cardinality(J) \in Nat
  BY <1>3, <1>4, FS_Subset, FS_CardinalityType DEF Pending
<1>6. uses[k] + Cardinality(J) < MaxUses[k] + Cardinality(Workers)
  BY <1>3 DEF BookInv, UsesLeft
<1>7. K = J \ {w}
  BY <1>2, <1>3 DEF Pending, Resolved, HoldingSteps
<1>8. /\ Cardinality(K) = IF w \in J THEN Cardinality(J) - 1 ELSE Cardinality(J)
      /\ Cardinality(K) \in Nat
  BY <1>5, <1>7, FS_RemoveElement, FS_CardinalityType
<1>9. uses'[k] = IF k \in tx[w].applied THEN uses[k] + 1 ELSE uses[k]
  BY <1>1 DEF Commit
<1>10. w \in J <=> k \in tx[w].applied
  BY <1>1, <1>3 DEF Pending, Resolved, HoldingSteps
<1> QED
  BY <1>4, <1>5, <1>6, <1>8, <1>9, <1>10

\* It spends what its own check allowed; the others' checks are left to them.
LEMMA CommitPointsLeft ==
    ASSUME IInv, BookInv, NEW w \in Workers, Commit(w)
    PROVE  PointsLeft'
<1>1. PICK c, a : c = tx[w].cart /\ a = tx[w].applied
  OBVIOUS
<1>2. /\ tx[w].step = "commit" /\ c \in Carts /\ a \in SUBSET Promos
      /\ Total[c][a] >= 0 /\ EnoughPoints(w)
  BY <1>1, AtCommit DEF Commit, At
<1>3. tx'[w].step = "reply" /\ \A v \in Workers \ {w} : tx'[v] = tx[v]
  BY DEF Commit, Becomes, IInv, TypeOK, Requests
<1> SUFFICES ASSUME NEW m \in Customers, NEW g, g = Redeeming', NEW T, T = Spenders(m)'
             PROVE  Sigma(g, T) <= points'[m] + Largest(m) * (Cardinality(Workers) - 1)
  BY DEF PointsLeft, Largest
<1>4. PICK f, S : f = Redeeming /\ S = Spenders(m)
  OBVIOUS
<1>5. PICK room : room = Largest(m) * (Cardinality(Workers) - 1)
  OBVIOUS
<1>6. room \in Int /\ points[m] \in Int /\ IsFiniteSet(Workers)
  BY <1>5, LargestType, WorkerAssumption, FS_CardinalityType DEF IInv, TypeOK
<1>7. Sigma(f, S) <= points[m] + room
  BY <1>4, <1>5 DEF BookInv, PointsLeft
<1>8. S \in SUBSET Workers /\ IsFiniteSet(S)
  BY <1>4, <1>6, FS_Subset DEF Spenders
<1>9. T = S \ {w} /\ IsFiniteSet(T)
  <2>1. T = S \ {w}
    BY <1>3, <1>4 DEF Spenders, Resolved, HoldingSteps
  <2> QED
    BY <1>8, <2>1, FS_RemoveElement
<1>10. \A v \in S : f[v] \in Int /\ f[v] >= 0
  BY <1>4, BodyType DEF Spenders, Redeeming, IInv, RequestOK, BodyOK, Resolved, HoldingSteps
<1>11. \A v \in T : f[v] \in Int /\ g[v] = f[v]
  BY <1>3, <1>4, <1>8, <1>9, <1>10 DEF Redeeming
<1>12. Sigma(g, T) = Sigma(f, T) /\ Sigma(f, T) \in Int /\ Sigma(f, S) \in Int
  BY <1>8, <1>9, <1>10, <1>11, SigmaSame, SigmaType
<1>13. Redeem[c] \in Int /\ PointsEarned(c, a) \in Int /\ PointsEarned(c, a) >= 0
  BY <1>2, EarnedType, BodyType
<1>14. CASE w \in S
  <2>1. Sigma(f, S) = f[w] + Sigma(f, T)
    BY <1>8, <1>9, <1>10, <1>14, SigmaRemove
  <2>2. f[w] = Redeem[c] /\ m = Buyer[c]
    BY <1>1, <1>4, <1>14 DEF Spenders, Redeeming
  <2>3. points'[m] = points[m] + (PointsEarned(c, a) - Redeem[c])
    BY <1>1, <2>2, CommitPoints DEF PointsDelta
  <2>4. \A e, x, y, z, u \in Int : e >= 0 /\ x + y <= z + u => y <= (z + (e - x)) + u
    OBVIOUS
  <2>5. Sigma(f, T) <= points'[m] + room
    BY <1>6, <1>7, <1>12, <1>13, <2>1, <2>2, <2>3, <2>4
  <2> QED
    BY <1>5, <1>12, <2>5
<1>15. CASE w \notin S
  <2>1. T = S
    BY <1>9, <1>15
  <2>2. m = Buyer[c] => Redeem[c] = 0
    BY <1>1, <1>2, <1>4, <1>15 DEF Spenders, EnoughPoints, Resolved, HoldingSteps
  <2>3. points'[m] = IF m = Buyer[c] THEN points[m] + (PointsEarned(c, a) - Redeem[c]) ELSE points[m]
    BY <1>1, CommitPoints DEF PointsDelta
  <2>4. points'[m] \in Int /\ points[m] <= points'[m]
    BY <1>6, <1>13, <2>2, <2>3
  <2>5. \A x, y, z, u \in Int : x <= y + u /\ y <= z => x <= z + u
    OBVIOUS
  <2>6. Sigma(f, T) <= points'[m] + room
    BY <1>6, <1>7, <1>12, <2>1, <2>4, <2>5
  <2> QED
    BY <1>5, <1>12, <2>6
<1> QED
  BY <1>14, <1>15

\* Commit keeps the invariant of the refinement.
LEMMA CommitBook ==
    ASSUME IInv, BookInv, NEW w \in Workers, Commit(w)
    PROVE  BookInv'
<1>1. /\ tx'[w].step = "reply" /\ \A v \in Workers \ {w} : tx'[v] = tx[v]
      /\ tx[w].step = "commit" /\ ReleaseRows(w)
  BY DEF Commit, At, Becomes, IInv, TypeOK, Requests
<1>2. \A row \in Rows : lock'[row] # w
  BY <1>1, WorkerAssumption DEF IInv, TypeOK, ReleaseRows
<1>3. ASSUME NEW v \in Workers \ {w} PROVE BookOK(v)'
  <2>1. \A row \in Rows : lock'[row] = v <=> lock[row] = v
    BY <1>1, LocksOfOthers DEF IInv
  <2>2. \A m \in Customers : lock[m] = v => points'[m] = points[m]
    BY DEF Commit
  <2>3. BookOK(v) /\ tx'[v] = tx[v]
    BY <1>1 DEF BookInv
  <2> QED
    BY <2>1, <2>2, <2>3, OtherBook
<1>4. BookOK(w)'
  BY <1>1, <1>2 DEF BookOK, TermsOK, LinesOK, PointsOK, AdjustOK, Resolved, HoldingSteps, Rows
<1> QED
  BY <1>3, <1>4, CommitPointsMatch, CommitUsesLeft, CommitPointsLeft DEF BookInv
-----------------------------------------------------------------------------
\* The invariant holds at first and is kept by every step.

\* The invariant of the refinement holds at first.
LEMMA InitBook == Init => BookInv
<1> SUFFICES ASSUME Init PROVE BookInv
  OBVIOUS
<1>1. \A w \in Workers : tx[w] = Idle /\ tx[w].step = "idle"
  BY IdleRequest DEF Init
<1>2. \A row \in Rows : lock[row] = NoWorker
  BY DEF Init
<1>3. ASSUME NEW w \in Workers PROVE BookOK(w)
  BY <1>1, <1>2, WorkerAssumption
     DEF BookOK, TermsOK, LinesOK, PointsOK, AdjustOK, Resolved, HoldingSteps, Rows
<1>4. PointsMatchSales
  <2>1. ASSUME NEW m \in Customers
        PROVE  points[m] = OpeningPoints[m]
                 + Sigma([s \in sales |-> s.earned - s.redeemed], {s \in sales : Buyer[s.uuid] = m})
    <3>1. PICK f : f = [s \in sales |-> s.earned - s.redeemed]
      OBVIOUS
    <3>2. {s \in sales : Buyer[s.uuid] = m} = {} /\ points[m] = OpeningPoints[m]
      BY DEF Init
    <3>3. Sigma(f, {}) = 0 /\ OpeningPoints[m] \in Int
      BY SigmaEmpty, ShopAssumption
    <3>4. OpeningPoints[m] = OpeningPoints[m] + Sigma(f, {})
      BY <3>3
    <3> QED
      BY <3>1, <3>2, <3>4
  <2> QED
    BY <2>1 DEF PointsMatchSales
<1>5. UsesLeft
  <2>1. Cardinality(Workers) \in Nat /\ Cardinality(Workers) > 0
    BY WorkerAssumption, FS_CardinalityType, FS_EmptySet
  <2>2. ASSUME NEW k \in Promos
        PROVE  uses[k] + Cardinality(Pending(k)) < MaxUses[k] + Cardinality(Workers)
    <3>1. Pending(k) = {}
      BY <1>1 DEF Pending, Resolved, HoldingSteps
    <3>2. uses[k] = 0 /\ MaxUses[k] \in Nat
      BY ShopAssumption DEF Init
    <3> QED
      BY <2>1, <3>1, <3>2, FS_EmptySet
  <2> QED
    BY <2>2 DEF UsesLeft
<1>6. PointsLeft
  <2>1. ASSUME NEW m \in Customers
        PROVE  Sigma(Redeeming, Spenders(m)) <= points[m] + Largest(m) * (Cardinality(Workers) - 1)
    <3>1. Spenders(m) = {}
      BY <1>1 DEF Spenders, Resolved, HoldingSteps
    <3>2. points[m] \in Nat
      BY ShopAssumption DEF Init
    <3>3. Cardinality(Workers) - 1 \in Nat /\ Largest(m) \in Nat
      BY WorkerAssumption, LargestType, FS_CardinalityType, FS_EmptySet
    <3>4. \A x, y, z \in Nat : 0 <= x + y * z
      OBVIOUS
    <3>5. 0 <= points[m] + Largest(m) * (Cardinality(Workers) - 1)
      BY <3>2, <3>3, <3>4
    <3> QED
      BY <3>1, <3>5, SigmaEmpty
  <2> QED
    BY <2>1 DEF PointsLeft
<1> QED
  BY <1>3, <1>4, <1>5, <1>6 DEF BookInv

\* A step that changes nothing keeps it.
LEMMA StutterBook ==
    ASSUME IInv, BookInv, UNCHANGED vars
    PROVE  BookInv'
<1> USE DEF vars
<1>1. \A w \in Workers : BookOK(w)'
  BY OtherBook DEF BookInv
<1>2. PointsMatchSales'
  BY DEF BookInv, PointsMatchSales
<1>3. UsesLeft'
  BY DEF BookInv, UsesLeft, Pending
<1>4. PointsLeft'
  BY DEF BookInv, PointsLeft, Spenders, Redeeming, Largest
<1> QED
  BY <1>1, <1>2, <1>3, <1>4 DEF BookInv

\* Every step keeps it.
LEMMA StepBook == IInv /\ BookInv /\ [Next]_vars => BookInv'
<1> SUFFICES ASSUME IInv, BookInv, [Next]_vars PROVE BookInv'
  OBVIOUS
<1>1. ASSUME NEW w \in Workers, Serve(w) PROVE BookInv'
  BY <1>1, FindSaleBook, FindNoSaleBook, ReadCustomerBook, ResolveCheckoutBook,
     NextReceiptNoBook, InsertSaleBook, DecrementStockBook, SkipUntrackedBook,
     UpdatePointsBook, RecordUsesBook, CommitBook, ReplyBook, CommitAdjustBook DEF Serve
<1>2. CASE UNCHANGED vars
  BY <1>2, StutterBook
<1>3. CASE Next
  BY <1>1, <1>3, SubmitBook, AdjustStockBook, CrashBook DEF Next
<1> QED
  BY <1>2, <1>3

\* Every reachable state satisfies both invariants.
LEMMA InductiveBook == Spec => [](IInv /\ BookInv)
<1>1. Init => IInv /\ BookInv
  BY InitInv, InitBook
<1>2. IInv /\ BookInv /\ [Next]_vars => (IInv /\ BookInv)'
  BY StepInv, StepBook
<1> QED
  BY <1>1, <1>2, PTL DEF Spec
-----------------------------------------------------------------------------
\* What the invariant says of the three properties.

\* The bound with the uses pending implies the one without.
LEMMA OvershootFromInv == IInv /\ BookInv => UsesOvershootBounded
<1> SUFFICES ASSUME IInv, BookInv, NEW k \in Promos
             PROVE  uses[k] < MaxUses[k] + Cardinality(Workers)
  BY DEF UsesOvershootBounded
<1>1. uses[k] + Cardinality(Pending(k)) < MaxUses[k] + Cardinality(Workers)
  BY DEF BookInv, UsesLeft
<1>2. uses[k] \in Nat /\ MaxUses[k] \in Nat /\ Cardinality(Workers) \in Nat
  BY ShopAssumption, WorkerAssumption, FS_CardinalityType DEF IInv, TypeOK
<1>3. Cardinality(Pending(k)) \in Nat
  <2>1. Pending(k) \in SUBSET Workers
    BY DEF Pending
  <2> QED
    BY <2>1, WorkerAssumption, FS_Subset, FS_CardinalityType
<1> QED
  BY <1>1, <1>2, <1>3

\* The bound with the points pending implies the one without.
LEMMA OverdraftFromInv == IInv /\ BookInv => OverdraftBounded
<1> SUFFICES ASSUME IInv, BookInv, NEW m \in Customers
             PROVE  points[m] + Largest(m) * (Cardinality(Workers) - 1) >= 0
  BY DEF OverdraftBounded, Largest
<1>1. Sigma(Redeeming, Spenders(m)) <= points[m] + Largest(m) * (Cardinality(Workers) - 1)
  BY DEF BookInv, PointsLeft
<1>2. IsFiniteSet(Spenders(m))
  BY WorkerAssumption, FS_Subset DEF Spenders
<1>3. \A v \in Spenders(m) : Redeeming[v] \in Int /\ Redeeming[v] >= 0
  BY BodyType DEF Spenders, Redeeming, IInv, RequestOK, BodyOK, Resolved, HoldingSteps
<1>4. Sigma(Redeeming, Spenders(m)) \in Int /\ Sigma(Redeeming, Spenders(m)) >= 0
  BY <1>2, <1>3, SigmaType
<1>5. points[m] + Largest(m) * (Cardinality(Workers) - 1) \in Int
  BY LargestType, WorkerAssumption, FS_CardinalityType DEF IInv, TypeOK
<1>6. \A x, y \in Int : x >= 0 /\ x <= y => y >= 0
  OBVIOUS
<1> QED
  BY <1>1, <1>4, <1>5, <1>6
-----------------------------------------------------------------------------
\* The refinement: every step is a sale, an adjustment or a stutter of SaleBook.

\* The same terms, seen through the instance.
LEMMA SameUnits ==
    ASSUME NEW c \in Carts, NEW p \in Products
    PROVE  Book!UnitsSold(c, p) = UnitsSold(c, p)
  BY DEF Book!UnitsSold, UnitsSold, Book!Sigma, Sigma, Book!MapThenSumSet, MapThenSumSet,
         Book!MapThenFoldSet, MapThenFoldSet

\* A body becomes the same sale in both specifications.
LEMMA SameSale ==
    ASSUME NEW c \in Carts, NEW a \in SUBSET Promos, NEW n
    PROVE  /\ Book!PointsDelta(c, a) = PointsDelta(c, a)
           /\ Book!SaleRow(c, n, a) = SaleRow(c, n, a)
<1>1. Book!FinalTotal(c, a) = FinalTotal(c, a)
  BY DEF Book!FinalTotal, FinalTotal
<1>2. Book!PointsEarned(c, a) = PointsEarned(c, a)
  BY <1>1 DEF Book!PointsEarned, PointsEarned
<1> QED
  BY <1>2 DEF Book!PointsDelta, PointsDelta, Book!SaleRow, SaleRow

\* A checkout's commit is a step of SaleBook.
LEMMA CommitSells ==
    ASSUME IInv, BookInv, NEW w \in Workers, Commit(w)
    PROVE  Book!Next
<1>1. PICK c, a : c = tx[w].cart /\ a = tx[w].applied
  OBVIOUS
<1>2. /\ c \in Carts /\ a \in SUBSET Promos
      /\ tx[w].receipt = receiptCounter + 1 /\ tx[w].used = uses
      /\ \A s \in sales : s.uuid # c
      /\ a \subseteq Offers[c] /\ Coupons[c] \subseteq a /\ Total[c][a] >= 0
  BY <1>1, AtCommit DEF Commit, At
<1>3. receiptCounter' = receiptCounter + 1
  BY <1>2 DEF Commit
<1>4. sales' = sales \cup {Book!SaleRow(c, receiptCounter + 1, a)}
  <2>1. sales' = sales \cup {SaleRow(c, receiptCounter + 1, a)}
    BY <1>1, <1>2 DEF Commit
  <2> QED
    BY <1>2, <2>1, SameSale
<1>5. stock' = [p \in Products |-> stock[p] - Book!UnitsSold(c, p)]
  <2>1. ASSUME NEW p \in Products PROVE stock'[p] = stock[p] - Book!UnitsSold(c, p)
    BY <1>1, <1>2, CommitStock, SameUnits
  <2>2. stock' = [p \in Products |-> stock'[p]]
    BY DEF Commit
  <2> QED
    BY <2>1, <2>2
<1>6. points' = [m \in Customers |-> IF m = Buyer[c] THEN points[m] + Book!PointsDelta(c, a)
                                                     ELSE points[m]]
  <2>1. Book!PointsDelta(c, a) = PointsDelta(c, a)
    BY <1>2, SameSale
  <2>2. ASSUME NEW m \in Customers
        PROVE  points'[m] = IF m = Buyer[c] THEN points[m] + Book!PointsDelta(c, a) ELSE points[m]
    BY <1>1, <2>1, CommitPoints
  <2>3. points' = [m \in Customers |-> points'[m]]
    BY DEF Commit
  <2> QED
    BY <2>2, <2>3
<1>7. uses' = [k \in Promos |-> IF k \in a THEN uses[k] + 1 ELSE uses[k]]
  BY <1>1, <1>2 DEF Commit
<1>8. Book!Sell(c, a)
  BY <1>2, <1>3, <1>4, <1>5, <1>6, <1>7 DEF Book!Sell
<1> QED
  BY <1>2, <1>8 DEF Book!Next

\* An adjustment's commit is one.
LEMMA CommitAdjusts ==
    ASSUME IInv, BookInv, NEW w \in Workers, CommitAdjust(w)
    PROVE  Book!Next
<1>1. tx[w].step = "adjusted" /\ AdjustOK(w) /\ StockOK(w)
  BY DEF CommitAdjust, At, BookInv, BookOK, IInv, RequestOK
<1>2. PICK p \in Products : \E d \in Deltas :
        /\ lock[p] = w /\ tx[w].moved[p] = d
        /\ \A q \in Products \ {p} : lock[q] # w
  BY <1>1 DEF AdjustOK
<1>3. PICK d \in Deltas :
        /\ lock[p] = w /\ tx[w].moved[p] = d
        /\ \A q \in Products \ {p} : lock[q] # w
  BY <1>2
<1>4. stock' = [q \in Products |-> IF lock[q] = w THEN tx[w].stock[q] ELSE stock[q]]
  BY DEF CommitAdjust, ShelfSeenBy
<1>5. tx[w].stock[p] = stock[p] + d
  BY <1>1, <1>3 DEF StockOK
<1>6. stock' = [stock EXCEPT ![p] = @ + d]
  BY <1>3, <1>4, <1>5 DEF IInv, TypeOK
<1>7. UNCHANGED <<sales, receiptCounter, points, uses>>
  BY DEF CommitAdjust
<1>8. Book!Adjust(p, d)
  BY <1>6, <1>7 DEF Book!Adjust
<1> QED
  BY <1>8 DEF Book!Next

\* The tables start as SaleBook's.
LEMMA BookInit == Init => Book!Init
  BY DEF Init, Book!Init

\* Every step is one of SaleBook, or changes no table.
LEMMA BookStep == IInv /\ BookInv /\ [Next]_vars => [Book!Next]_(Book!bookVars)
<1> SUFFICES ASSUME IInv, BookInv, [Next]_vars PROVE [Book!Next]_(Book!bookVars)
  OBVIOUS
<1>1. UNCHANGED dbVars => UNCHANGED Book!bookVars
  BY DEF dbVars, Book!bookVars
<1>2. CASE UNCHANGED vars
  BY <1>1, <1>2 DEF vars, dbVars
<1>3. ASSUME NEW w \in Workers, Serve(w) PROVE [Book!Next]_(Book!bookVars)
  <2>1. CASE Commit(w)
    BY <2>1, CommitSells
  <2>2. CASE CommitAdjust(w)
    BY <2>2, CommitAdjusts
  <2>3. CASE FindSale(w) \/ FindNoSale(w) \/ ReadCustomer(w) \/ ResolveCheckout(w)
    BY <1>1, <2>3 DEF FindSale, FindNoSale, ReadCustomer, ResolveCheckout, Answer
  <2>4. CASE NextReceiptNo(w) \/ InsertSale(w) \/ DecrementStock(w) \/ SkipUntracked(w)
    BY <1>1, <2>4 DEF NextReceiptNo, InsertSale, DecrementStock, SkipUntracked, Answer
  <2>5. CASE UpdatePoints(w) \/ RecordUses(w) \/ Reply(w)
    BY <1>1, <2>5 DEF UpdatePoints, RecordUses, Reply, Answer
  <2> QED
    BY <1>3, <2>1, <2>2, <2>3, <2>4, <2>5 DEF Serve
<1>4. ASSUME NEW w \in Workers,
             \/ \E c \in Carts : Submit(w, c)
             \/ \E p \in Products, d \in Deltas : AdjustStock(w, p, d)
             \/ Crash(w)
      PROVE  [Book!Next]_(Book!bookVars)
  BY <1>1, <1>4 DEF Submit, AdjustStock, Crash
<1> QED
  BY <1>2, <1>3, <1>4 DEF Next
-----------------------------------------------------------------------------
\* The theorems.

\* A customer's points_balance is the opening one, with what the committed sales
\* earned and less what they redeemed.
THEOREM PointsAreSales == Spec => []PointsMatchSales
<1>1. IInv /\ BookInv => PointsMatchSales
  BY DEF BookInv
<1> QED
  BY <1>1, InductiveBook, PTL

\* uses_count passes max_uses by less than the number of handlers.
THEOREM OvershootIsBounded == Spec => []UsesOvershootBounded
  BY InductiveBook, OvershootFromInv, PTL

\* points_balance is overdrawn by at most one redemption of each other handler.
THEOREM OverdraftIsBounded == Spec => []OverdraftBounded
  BY InductiveBook, OverdraftFromInv, PTL

\* The interleaved handlers behave, to whoever sees only what is committed, like the
\* one-step sales and adjustments of SaleBook.
THEOREM Refinement == Spec => ImplementsSaleBook
  BY InductiveBook, BookInit, BookStep, PTL DEF Spec, ImplementsSaleBook, Book!Spec
=============================================================================

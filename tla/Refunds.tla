------------------------------- MODULE Refunds -------------------------------
(***************************************************************************)
(* refund_sale as it runs.  The handler reads the sale and its items,      *)
(* reckons the refund from what it read, and the ORM then writes           *)
(* refunded_qty, refunded_total and status back as plain values.  No row   *)
(* is locked between the read and the write, so two refunds of one sale    *)
(* can work from the same figures.  Stock goes back by atomic UPDATEs.     *)
(***************************************************************************)
EXTENDS Sums, Sequences, SequencesExt, RowLocks

CONSTANTS
    Sales, Items, Products,
    Tracked,        \* the products with track_stock set
    ItemsOf,        \* ItemsOf[s]: the items of sale s, in primary-key order
    Product,        \* Product[i]: the product of item i
    Qty,            \* Qty[i]: units sold
    Cash,           \* Cash[i]: what the customer paid in cash for item i ...
    Tax,            \* Tax[i]: ... and its tax, both in Grain-ths of a satang
    Grain,
    SaleTotal,      \* SaleTotal[s], SaleTax[s]: the sale's figures in satang,
    SaleTax,        \* rounded once for the whole sale
    Bodies,         \* the client_uuids of the refund requests, one body each
    NoBody,
    SaleOf,         \* SaleOf[c]: the sale body c refunds
    Wanted,         \* Wanted[c]: its items with quantities; <<>> asks for the rest
    Deltas,         \* Deltas[p]: what one checkout or adjustment adds to p's stock
    MaxSubmits, MaxCrashes, MaxMoves   \* bounds: requests, crashes, other stock moves

\* create_sale refuses a sale of no items, and a row of sale_items is of one sale.
ASSUME RefundAssumption ==
    /\ NoWorker \notin Workers
    /\ NoBody \notin Bodies
    /\ Bodies \cap (Items \cup Products) = {} /\ Items \cap Products = {}
    /\ Tracked \subseteq Products
    /\ IsFiniteSet(Items)
    /\ ItemsOf \in [Sales -> Seq(Items)]
    /\ \A s \in Sales :
         /\ ItemsOf[s] # <<>>
         /\ \A j, k \in DOMAIN ItemsOf[s] : ItemsOf[s][j] = ItemsOf[s][k] => j = k
         /\ \A q \in Sales \ {s} : Range(ItemsOf[s]) \cap Range(ItemsOf[q]) = {}
    /\ Product \in [Items -> Products]
    /\ Qty \in [Items -> Nat \ {0}]
    /\ Cash \in [Items -> Nat] /\ Tax \in [Items -> Nat] /\ Grain \in Nat \ {0}
    /\ SaleTotal \in [Sales -> Nat] /\ SaleTax \in [Sales -> Nat]
    /\ SaleOf \in [Bodies -> Sales]
    /\ Wanted \in [Bodies -> Seq([item : Items, qty : Nat \ {0}])]
    /\ Deltas \in [Products -> SUBSET Int]

VARIABLES
    refunds,      \* committed rows of refunds, each with its refund_items
    sale,         \* per sale, status and refunded_total
    refundedQty,  \* per sale item
    stock,        \* per product, stock_qty since the behaviour began
    returned,     \* per product, the stock movements of type return ...
    otherMoves,   \* ... and of every other type
    tx,           \* per worker, the request it serves
    answers,      \* per body, every HTTP answer its client received
    submits, crashes, moves

dbVars == <<refunds, sale, refundedQty, stock, returned, otherMoves>>
countVars == <<submits, crashes, moves>>
vars == <<refunds, sale, refundedQty, stock, returned, otherMoves, lock, tx,
          answers, submits, crashes, moves>>

\* A key of the unique index on client_uuid is locked like a row.
Rows == Bodies \cup Items \cup Products

\* No code of the repository sets the fourth status, void.
Status == {"completed", "partially_refunded", "refunded"}
SaleRow == [status : Status, refundedTotal : Int]

\* An entry of targets, with its place in the body or among the items of the sale.
Target == [place : Nat, item : Items, qty : Nat \ {0}]

\* `after` is no column: the refunds of the sale that were there when it was read.
RefundRow ==
    [uuid : Bodies, sale : Sales, units : [Items -> Nat], amount : Int, tax : Int,
     after : SUBSET Bodies]

Steps == {"idle", "find", "sale", "items", "autoflush", "flush", "reply"}

Requests ==
    [step : Steps, body : Bodies \cup {NoBody},
     seen : SaleRow, after : SUBSET Bodies,
     qty : [Items -> Nat],             \* refunded_qty as read
     targets : SUBSET Target,
     pending : SUBSET Items,           \* items whose UPDATE is not yet sent
     inserted : BOOLEAN, amount : Int, tax : Int,
     restock : SUBSET Target,          \* stock_updates still to do
     stock : [Products -> Int], returned : [Products -> Nat]]

Idle ==
    [step |-> "idle", body |-> NoBody,
     seen |-> [status |-> "completed", refundedTotal |-> 0], after |-> {},
     qty |-> [i \in Items |-> 0], targets |-> {}, pending |-> {},
     inserted |-> FALSE, amount |-> 0, tax |-> 0, restock |-> {},
     stock |-> [p \in Products |-> 0], returned |-> [p \in Products |-> 0]]

Init ==
    /\ refunds = {}
    /\ sale = [s \in Sales |-> [status |-> "completed", refundedTotal |-> 0]]
    /\ refundedQty = [i \in Items |-> 0]
    /\ stock = [p \in Products |-> 0]
    /\ returned = [p \in Products |-> 0]
    /\ otherMoves = [p \in Products |-> 0]
    /\ lock = [r \in Rows |-> NoWorker]
    /\ tx = [w \in Workers |-> Idle]
    /\ answers = [c \in Bodies |-> {}]
    /\ submits = 0
    /\ crashes = 0
    /\ moves = 0

At(w, step) == tx[w].step = step
Becomes(w, r) == tx' = [tx EXCEPT ![w] = r]
Reads(w, r) == Becomes(w, r) /\ UNCHANGED <<dbVars, lock, answers, countVars>>
ItemSet(s) == Range(ItemsOf[s])
TargetItems(targets) == {t.item : t \in targets}
Committed(s) == {r \in refunds : r.sale = s}
TaxBack(s) == Sigma([r \in refunds |-> r.tax], Committed(s))

\* Decimal.quantize rounds n/d half to even.
Quantize(n, d) ==
    LET q == n \div d
        r == n % d
    IN  IF 2 * r > d \/ (2 * r = d /\ q % 2 = 1) THEN q + 1 ELSE q

\* The share of a column of item i that n of its units are worth.
Share(column, i, n) == Quantize(column[i] * n, Qty[i] * Grain)

Units(targets, i) == Sigma([t \in targets |-> t.qty], {t \in targets : t.item = i})
ShareSum(column, targets) ==
    Sigma([t \in targets |-> Share(column, t.item, t.qty)], targets)

\* The version of product p's row that w sees in its own UPDATE.
ShelfSeenBy(w, p) == IF lock[p] = w THEN tx[w].stock[p] ELSE stock[p]

-----------------------------------------------------------------------------
\* Variants of definitions below, each with a bug that a property must refute.

\* refunds.client_uuid without its unique index.
InsertRefundNoIndex(w) ==
    /\ At(w, "flush") /\ ~tx[w].inserted
    /\ Reads(w, [tx[w] EXCEPT !.inserted = TRUE])

\* The rest of a sale, with the items that have nothing left.
RestNoFilter(s, qty) ==
    LET item == ItemsOf[s]
    IN  {[place |-> k, item |-> item[k], qty |-> Qty[item[k]] - qty[item[k]]] : k \in DOMAIN item}

\* refunded_qty set to what this refund takes, not raised by it.
NewQtySet(s, targets) == [i \in Items |-> IF i \in ItemSet(s) THEN Units(targets, i) ELSE 0]

\* The refund that empties a sale pays the sum of its lines like any other.
AmountUnforced(w) == ShareSum(Cash, tx[w].targets)

\* A refused request whose transaction is never ended.
AnswerKeepingRows(w, code) ==
    /\ answers' = [answers EXCEPT ![tx[w].body] = @ \cup {code}]
    /\ Becomes(w, Idle)
    /\ UNCHANGED <<dbVars, countVars, lock>>

\* Stock updates for untracked products too.
RestocksAll(targets) == targets

-----------------------------------------------------------------------------
\* The handler is done: what it did not commit is gone, and the client has its answer.
Answer(w, code) ==
    /\ answers' = [answers EXCEPT ![tx[w].body] = @ \cup {code}]
    /\ Becomes(w, Idle)
    /\ ReleaseRows(w)
    /\ UNCHANGED <<dbVars, countVars>>

\* refund_sale.

\* A client sends its body, for the first time or because it has no refund yet.
Submit(w, c) ==
    /\ At(w, "idle")
    /\ submits < MaxSubmits
    /\ 200 \notin answers[c]
    /\ Becomes(w, [Idle EXCEPT !.step = "find", !.body = c])
    /\ submits' = submits + 1
    /\ UNCHANGED <<dbVars, lock, answers, crashes, moves>>

\* _find_by_client_uuid: a body that is already a refund gets that refund back.
FindRefund(w) ==
    LET found == \E r \in refunds : r.uuid = tx[w].body IN
    /\ At(w, "find")
    /\ Reads(w, [tx[w] EXCEPT !.step = IF found THEN "reply" ELSE "sale"])

ReadSale(w) ==
    LET s == SaleOf[tx[w].body] IN
    /\ At(w, "sale")
    /\ IF sale[s].status \in {"completed", "partially_refunded"}
       THEN Reads(w, [tx[w] EXCEPT !.step = "items", !.seen = sale[s],
                                   !.after = {r.uuid : r \in Committed(s)}])
       ELSE Answer(w, 400)

\* No items in the body: everything that qty, the refunded_qty read, leaves.
Rest(s, qty) ==
    LET item == ItemsOf[s]
        left == {k \in DOMAIN item : Qty[item[k]] - qty[item[k]] > 0}
    IN  {[place |-> k, item |-> item[k], qty |-> Qty[item[k]] - qty[item[k]]] : k \in left}

\* The entries of a body that names some.
Entries(items) ==
    {[place |-> k, item |-> items[k].item, qty |-> items[k].qty] : k \in DOMAIN items}

\* Each entry of a body is held against what was left when the items were read.
Refundable(s, qty, targets) ==
    \A t \in targets : t.item \in ItemSet(s) /\ t.qty <= Qty[t.item] - qty[t.item]

Restocks(targets) == {t \in targets : Product[t.item] \in Tracked}

\* refunded_qty of the sale's items once the refund is done.
NewQty(s, targets) ==
    [i \in Items |-> IF i \in ItemSet(s) THEN refundedQty[i] + Units(targets, i) ELSE 0]

\* Reads the items, validates every entry and reckons the new refunded_qty.  The
\* SELECT of earlier refunds that a sale-emptying refund makes flushes first.
ReadItems(w) ==
    LET c == tx[w].body
        s == SaleOf[c]
        targets == IF Wanted[c] = <<>> THEN Rest(s, refundedQty) ELSE Entries(Wanted[c])
        qty == NewQty(s, targets)
        allRefunded == \A i \in ItemSet(s) : qty[i] = Qty[i]
    IN  /\ At(w, "items")
        /\ IF targets # {} /\ Refundable(s, refundedQty, targets)
           THEN Reads(w, [tx[w] EXCEPT !.step = IF allRefunded THEN "autoflush" ELSE "flush",
                                       !.qty = qty, !.targets = targets,
                                       !.pending = TargetItems(targets),
                                       !.amount = ShareSum(Cash, targets),
                                       !.tax = ShareSum(Tax, targets),
                                       !.restock = Restocks(targets)])
           ELSE Answer(w, 400)

\* One UPDATE sale_items SET refunded_qty = a value; a flush sends them in key order.
NextPending(w) ==
    ItemsOf[SaleOf[tx[w].body]][Min({k \in DOMAIN ItemsOf[SaleOf[tx[w].body]] :
                                        ItemsOf[SaleOf[tx[w].body]][k] \in tx[w].pending})]

UpdateItem(w) ==
    /\ tx[w].step \in {"autoflush", "flush"}
    /\ tx[w].pending # {}
    /\ TakeRow(w, NextPending(w))
    /\ Becomes(w, [tx[w] EXCEPT !.pending = @ \ {NextPending(w)}])
    /\ UNCHANGED <<dbVars, answers, countVars>>

\* What the refund that empties the sale is forced to, from the total read earlier.
LastAmount(w) == SaleTotal[SaleOf[tx[w].body]] - tx[w].seen.refundedTotal

ReadPriorRefunds(w) ==
    LET s == SaleOf[tx[w].body] IN
    /\ At(w, "autoflush")
    /\ tx[w].pending = {}
    /\ Reads(w, [tx[w] EXCEPT
                    !.step = "flush",
                    !.amount = LastAmount(w),
                    !.tax = SaleTax[s] - TaxBack(s)])

\* INSERT INTO refunds, under the unique index on client_uuid, before or after the
\* flush's UPDATEs.  The IntegrityError is raised outside the handler's try: a 500.
InsertRefund(w) ==
    LET c == tx[w].body IN
    /\ At(w, "flush") /\ ~tx[w].inserted
    /\ tx[w].pending \in {{}, TargetItems(tx[w].targets)}
    /\ IF \E r \in refunds : r.uuid = c
       THEN lock[c] \in {NoWorker, w} /\ Answer(w, 500)
       ELSE /\ TakeRow(w, c)
            /\ Becomes(w, [tx[w] EXCEPT !.inserted = TRUE])
            /\ UNCHANGED <<dbVars, answers, countVars>>

Flushed(w) == At(w, "flush") /\ tx[w].inserted /\ tx[w].pending = {}

NextRestock(w) == CHOOSE t \in tx[w].restock : \A u \in tx[w].restock : t.place <= u.place

\* One atomic stock increment with its StockMovement.
Restock(w) ==
    LET t == NextRestock(w)
        p == Product[t.item]
    IN  /\ Flushed(w)
        /\ tx[w].restock # {}
        /\ TakeRow(w, p)
        /\ Becomes(w, [tx[w] EXCEPT
                        !.restock = @ \ {t},
                        !.stock = [tx[w].stock EXCEPT ![p] = ShelfSeenBy(w, p) + t.qty],
                        !.returned = [tx[w].returned EXCEPT ![p] = tx[w].returned[p] + t.qty]])
        /\ UNCHANGED <<dbVars, answers, countVars>>

\* The sale row the handler leaves: the ORM writes the columns it changed, as values.
WrittenBack(w, s) ==
    LET seen == tx[w].seen
        status == IF \A i \in ItemSet(s) : tx[w].qty[i] = Qty[i]
                  THEN "refunded" ELSE "partially_refunded"
    IN  [status |-> IF status = seen.status THEN sale[s].status ELSE status,
         refundedTotal |-> IF tx[w].amount = 0 THEN sale[s].refundedTotal
                           ELSE seen.refundedTotal + tx[w].amount]

\* The flush of the sale row, then COMMIT.
Commit(w) ==
    LET t == tx[w]
        s == SaleOf[t.body]
    IN  /\ Flushed(w)
        /\ t.restock = {}
        /\ refunds' = refunds \cup
             {[uuid |-> t.body, sale |-> s, units |-> [i \in Items |-> Units(t.targets, i)],
               amount |-> t.amount, tax |-> t.tax, after |-> t.after]}
        /\ sale' = [sale EXCEPT ![s] = WrittenBack(w, s)]
        /\ refundedQty' = [i \in Items |-> IF lock[i] = w THEN t.qty[i] ELSE refundedQty[i]]
        /\ stock' = [p \in Products |-> ShelfSeenBy(w, p)]
        /\ returned' = [p \in Products |-> returned[p] + t.returned[p]]
        /\ Becomes(w, [Idle EXCEPT !.step = "reply", !.body = t.body])
        /\ ReleaseRows(w)
        /\ UNCHANGED <<otherMoves, answers, countVars>>

Reply(w) == At(w, "reply") /\ Answer(w, 200)

-----------------------------------------------------------------------------
\* Around it.

\* The rows worker w's next statement may have to wait for.
Awaited(w) ==
    IF ~(tx[w].step \in {"autoflush", "flush"}) THEN {}
    ELSE IF tx[w].pending # {} THEN {NextPending(w)}
    ELSE IF At(w, "flush") /\ ~tx[w].inserted THEN {tx[w].body}
    ELSE IF Flushed(w) /\ tx[w].restock # {}
         THEN {Product[NextRestock(w).item]}
    ELSE {}

\* The database breaks a deadlock: the error reaches the client as a 500.
AbortDeadlock(w) ==
    /\ Awaited(w) # {}
    /\ InDeadlock(w, [v \in Workers |-> Awaited(v)])
    /\ Answer(w, 500)

\* A checkout or an adjustment of the same product, from its UPDATE to its commit.
MoveStock(p, d) ==
    /\ moves < MaxMoves
    /\ lock[p] = NoWorker
    /\ stock' = [stock EXCEPT ![p] = @ + d]
    /\ otherMoves' = [otherMoves EXCEPT ![p] = @ + d]
    /\ moves' = moves + 1
    /\ UNCHANGED <<refunds, sale, refundedQty, returned, lock, tx, answers, submits, crashes>>

Crash(w) ==
    /\ ~At(w, "idle")
    /\ crashes < MaxCrashes
    /\ Becomes(w, Idle)
    /\ ReleaseRows(w)
    /\ crashes' = crashes + 1
    /\ UNCHANGED <<dbVars, answers, submits, moves>>

Serve(w) ==
    \/ FindRefund(w) \/ ReadSale(w) \/ ReadItems(w) \/ UpdateItem(w)
    \/ ReadPriorRefunds(w) \/ InsertRefund(w) \/ Restock(w) \/ Commit(w)
    \/ Reply(w) \/ AbortDeadlock(w)

Next ==
    \/ \E w \in Workers : Serve(w) \/ Crash(w) \/ \E c \in Bodies : Submit(w, c)
    \/ \E p \in Products : \E d \in Deltas[p] : MoveStock(p, d)

Spec == Init /\ [][Next]_vars

Fairness == \A w \in Workers : SF_vars(Serve(w))

FairSpec == Spec /\ Fairness

-----------------------------------------------------------------------------
\* Properties.

\* Every variable keeps its type; an amount may be negative, a quantity may not.
TypeOK ==
    /\ refunds \in SUBSET RefundRow
    /\ sale \in [Sales -> SaleRow]
    /\ refundedQty \in [Items -> Nat]
    /\ stock \in [Products -> Int]
    /\ returned \in [Products -> Nat]
    /\ otherMoves \in [Products -> Int]
    /\ lock \in [Rows -> Workers \cup {NoWorker}]
    /\ tx \in [Workers -> Requests]
    /\ answers \in [Bodies -> SUBSET {200, 400, 500}]
    /\ submits \in Nat /\ crashes \in Nat /\ moves \in Nat

Refunded(i) == Sigma([r \in refunds |-> r.units[i]], refunds)
PaidBack(s) == Sigma([r \in refunds |-> r.amount], Committed(s))

\* The refunds of sale s came one after the other, and none names an item twice.
Clean(s) ==
    /\ \A r, q \in Committed(s) : r = q \/ r.uuid \in q.after \/ q.uuid \in r.after
    /\ \A r \in Committed(s) : \A j, k \in DOMAIN Wanted[r.uuid] :
         Wanted[r.uuid][j].item = Wanted[r.uuid][k].item => j = k

\* A body is one refund however often and from however many handlers it is sent,
\* and a client told "refunded" has its refund.
OneRefundPerBody ==
    /\ \A r, q \in refunds : r.uuid = q.uuid => r = q
    /\ \A c \in Bodies : 200 \in answers[c] => \E r \in refunds : r.uuid = c

\* What comes back to the shelf is what was refunded of tracked products, no more
\* and no less, however refunds, other stock moves, deadlocks and crashes interleave.
StockFollowsRefunds ==
    \A p \in Products :
        /\ stock[p] = returned[p] + otherMoves[p]
        /\ returned[p] = IF p \in Tracked
                         THEN Sigma([i \in Items |-> Refunded(i)], {i \in Items : Product[i] = p})
                         ELSE 0

\* Unless two refunds of the sale overlapped, or one names an item twice,
\* refunded_qty is the sum of the refund items and never passes what was sold.
UnitsAddUp ==
    \A s \in Sales : Clean(s) =>
        \A i \in ItemSet(s) : refundedQty[i] = Refunded(i) /\ Refunded(i) <= Qty[i]

\* Under the same condition refunded_total is the sum of the refunds, the status
\* says how far they went, and a sale refunded bit by bit has paid back exactly its
\* total and its tax, whatever each refund was rounded to.
MoneyAddsUp ==
    \A s \in Sales : Clean(s) =>
        LET all == \A i \in ItemSet(s) : Refunded(i) = Qty[i] IN
        /\ sale[s].refundedTotal = PaidBack(s)
        /\ sale[s].status = IF Committed(s) = {} THEN "completed"
                            ELSE IF all THEN "refunded" ELSE "partially_refunded"
        /\ all => PaidBack(s) = SaleTotal[s] /\ TaxBack(s) = SaleTax[s]

\* Every refund request comes to an end, deadlocks and all.
RefundsFinish == \A w \in Workers : ~At(w, "idle") ~> At(w, "idle")

\* The comment on Sale.refunded_total: a running total kept in sync with the
\* refunds, in the same transaction.
RunningTotalKept == \A s \in Sales : sale[s].refundedTotal = PaidBack(s)
=============================================================================

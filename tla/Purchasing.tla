----------------------------- MODULE Purchasing -----------------------------
(***************************************************************************)
(* Purchase orders: created under the tenant's next order number, received *)
(* in one or several deliveries, or cancelled.  A delivery reads the order *)
(* and its items without a lock; it then raises stock product by product   *)
(* with atomic UPDATEs, while the ORM writes qty_received and status back  *)
(* as values reckoned from that read, flushed before every such UPDATE.    *)
(***************************************************************************)
EXTENDS Sums, Sequences, SequencesExt, RowLocks

CONSTANTS
    Orders, Items, Products,
    Tracked,      \* the products with track_stock set
    ItemsOf,      \* ItemsOf[o]: the items of order o, in primary-key order
    Product,      \* Product[i]: the product of item i
    Qty,          \* Qty[i]: qty_ordered
    Bodies,       \* Bodies[o]: the receive bodies clients send for o
    Tenant,       \* the tenant row, which holds po_counter
    NoOrder,
    MaxRequests, MaxCrashes   \* bounds: requests, handlers that die

Entry == [item : Items, qty : Nat \ {0}]

\* Each row is of one table.
ASSUME RowsAssumption ==
    /\ Tenant \notin Orders \cup Items \cup Products
    /\ Orders \cap Items = {} /\ Orders \cap Products = {} /\ Items \cap Products = {}

ASSUME PurchasingAssumption ==
    /\ NoWorker \notin Workers
    /\ NoOrder \notin Orders
    /\ Tracked \subseteq Products
    /\ ItemsOf \in [Orders -> Seq(Items)]
    /\ Product \in [Items -> Products]
    /\ Qty \in [Items -> Nat \ {0}]
    /\ IsFiniteSet(Items)
    \* No order is placed without items, and an item belongs to one order.
    /\ \A o \in Orders : ItemsOf[o] # <<>>
    /\ \A o, q \in Orders : o # q => Range(ItemsOf[o]) \cap Range(ItemsOf[q]) = {}
    /\ \A o \in Orders : Bodies[o] \subseteq Seq(Entry) \ {<<>>}

VARIABLES
    poCounter,    \* tenants.po_counter
    order,        \* per order, its status and number; status none before create
    received,     \* per item, qty_received
    stock,        \* per product, stock_qty since the behaviour began
    shelved,      \* per item, the units its committed deliveries brought
    overlapped,   \* orders on which a transaction committed after a stale read
    tx,           \* per worker, the request it serves
    requests, crashes

dbVars == <<poCounter, order, received, stock, shelved, overlapped>>
vars == <<poCounter, order, received, stock, shelved, overlapped, lock, tx,
          requests, crashes>>

Rows == {Tenant} \cup Orders \cup Items \cup Products
Status == {"none", "ordered", "partially_received", "received", "cancelled"}
OrderRow == [status : Status, no : Nat, writes : Nat]  \* writes is no column
Steps == {"idle", "create", "items", "entry", "product", "status", "flush", "cancel"}
Requests ==
    [step : Steps, order : Orders \cup {NoOrder}, seen : OrderRow, body : Seq(Entry),
     dirty : SUBSET Items, qty : [Items -> Nat], units : [Items -> Nat],
     stock : [Products -> Nat], status : Status]

Idle ==
    [step |-> "idle", order |-> NoOrder,
     seen |-> [status |-> "none", no |-> 0, writes |-> 0],  \* the order as read
     body |-> <<>>,                     \* entries still to deal with
     dirty |-> {},                      \* items changed and not flushed
     qty |-> [i \in Items |-> 0],       \* qty_received in the session
     units |-> [i \in Items |-> 0],     \* what this delivery brings
     stock |-> [p \in Products |-> 0],  \* new versions of locked product rows
     status |-> "none"]                 \* the status to write

Init ==
    /\ poCounter = 0
    /\ order = [o \in Orders |-> Idle.seen]
    /\ received = [i \in Items |-> 0]
    /\ stock = [p \in Products |-> 0]
    /\ shelved = [i \in Items |-> 0]
    /\ overlapped = {}
    /\ lock = [r \in Rows |-> NoWorker]
    /\ tx = [w \in Workers |-> Idle]
    /\ requests = 0
    /\ crashes = 0

At(w, step) == tx[w].step = step
Becomes(w, r) == tx' = [tx EXCEPT ![w] = r]
ItemSet(o) == Range(ItemsOf[o])
Finish(w) == Becomes(w, Idle) /\ ReleaseRows(w)
Runs(w, r) == Becomes(w, r) /\ UNCHANGED <<dbVars, requests, crashes>>

\* A client's request for order o reaches a handler that has none.
Begin(w, r) ==
    /\ At(w, "idle")
    /\ requests < MaxRequests
    /\ Becomes(w, r)
    /\ requests' = requests + 1
    /\ UNCHANGED <<dbVars, crashes>>

\* The version of product p's row that w sees in its own UPDATE.
ShelfSeenBy(w, p) == IF lock[p] = w THEN tx[w].stock[p] ELSE stock[p]

\* What COMMIT leaves of w's order, with this status.
WriteOrder(w, status) ==
    LET o == tx[w].order IN
    /\ order' = [order EXCEPT ![o].status = status, ![o].writes = @ + 1]
    /\ overlapped' = IF order[o].writes = tx[w].seen.writes THEN overlapped
                     ELSE overlapped \cup {o}

-----------------------------------------------------------------------------
\* Variants of definitions below, each with a bug that a property must refute.

\* The order number counted without the row lock.
NextOrderNoUnlocked(w, o) ==
    /\ order[o].status = "none" /\ \A v \in Workers : tx[v].order # o
    /\ Begin(w, [Idle EXCEPT !.step = "create", !.order = o,
                             !.seen = [Idle.seen EXCEPT !.no = poCounter + 1]])
    /\ UNCHANGED lock

\* A delivery for an order in any status.
ReadOrderAnyStatus(w, o) ==
    /\ order[o].status # "none"
    /\ \E body \in Bodies[o] :
         Begin(w, [Idle EXCEPT !.step = "items", !.order = o, !.seen = order[o], !.body = body])
    /\ UNCHANGED lock

\* One item received is the order received.
NewStatusAny(w) ==
    IF \E i \in ItemSet(tx[w].order) : tx[w].qty[i] >= Qty[i]
    THEN "received" ELSE "partially_received"

\* stock_qty raised by the ORM: written back without waiting, from a row read before.
RaiseStockWrittenBack(w) ==
    LET e == Head(tx[w].body)
        p == Product[e.item]
    IN  /\ At(w, "product") /\ tx[w].dirty = {}
        /\ lock' = [lock EXCEPT ![p] = w]
        /\ Runs(w, [tx[w] EXCEPT !.stock = [tx[w].stock EXCEPT ![p] = ShelfSeenBy(w, p) + e.qty],
                                 !.body = Tail(@), !.step = "entry"])

\* Stock lowered, as a checkout does.
StockAfterLowered(w, p, n) == [tx[w].stock EXCEPT ![p] = ShelfSeenBy(w, p) - n]

-----------------------------------------------------------------------------
\* create_purchase_order.

\* _next_order_no: UPDATE tenants SET po_counter + 1 RETURNING.
NextOrderNo(w, o) ==
    /\ order[o].status = "none" /\ \A v \in Workers : tx[v].order # o
    /\ TakeRow(w, Tenant)
    /\ Begin(w, [Idle EXCEPT !.step = "create", !.order = o,
                             !.seen = [Idle.seen EXCEPT !.no = poCounter + 1]])

InsertOrder(w) ==
    /\ At(w, "create")
    /\ order' = [order EXCEPT ![tx[w].order] =
                    [status |-> "ordered", no |-> tx[w].seen.no, writes |-> 0]]
    /\ poCounter' = tx[w].seen.no
    /\ Finish(w)
    /\ UNCHANGED <<received, stock, shelved, overlapped, requests, crashes>>

-----------------------------------------------------------------------------
\* receive_purchase_order.

ReadOrder(w, o) ==
    /\ order[o].status \in {"ordered", "partially_received"}
    /\ \E body \in Bodies[o] :
         Begin(w, [Idle EXCEPT !.step = "items", !.order = o, !.seen = order[o], !.body = body])
    /\ UNCHANGED lock

\* Every entry is held against what was left when the items were read.
Receivable(o, body) ==
    \A k \in DOMAIN body :
        /\ body[k].item \in ItemSet(o)
        /\ body[k].qty <= Qty[body[k].item] - received[body[k].item]

ReadItems(w) ==
    LET o == tx[w].order IN
    /\ At(w, "items")
    /\ IF Receivable(o, tx[w].body)
       THEN /\ Runs(w, [tx[w] EXCEPT !.step = "entry",
                            !.qty = [i \in Items |-> IF i \in ItemSet(o) THEN received[i] ELSE 0]])
            /\ UNCHANGED lock
       ELSE Finish(w) /\ UNCHANGED <<dbVars, requests, crashes>>

\* The next entry adds to its item in the session; a tracked product is up next.
TakeEntry(w) ==
    LET e == Head(tx[w].body) IN
    /\ At(w, "entry") /\ tx[w].body # <<>>
    /\ Runs(w, [tx[w] EXCEPT !.qty[e.item] = @ + e.qty,
                             !.units[e.item] = @ + e.qty,
                             !.dirty = @ \cup {e.item},
                             !.body = IF Product[e.item] \in Tracked THEN @ ELSE Tail(@),
                             !.step = IF Product[e.item] \in Tracked THEN "product" ELSE "entry"])
    /\ UNCHANGED lock

NextDirty(w) ==
    ItemsOf[tx[w].order][Min({k \in DOMAIN ItemsOf[tx[w].order] :
                                 ItemsOf[tx[w].order][k] \in tx[w].dirty})]

\* The flush before a statement sends the UPDATEs of the changed items.
FlushItem(w) ==
    /\ tx[w].step \in {"product", "flush"} /\ tx[w].dirty # {}
    /\ TakeRow(w, NextDirty(w))
    /\ Runs(w, [tx[w] EXCEPT !.dirty = @ \ {NextDirty(w)}])

\* UPDATE products SET stock_qty + n, on the row as w sees it.
StockAfter(w, p, n) == [tx[w].stock EXCEPT ![p] = ShelfSeenBy(w, p) + n]

RaiseStock(w) ==
    LET e == Head(tx[w].body)
        p == Product[e.item]
    IN  /\ At(w, "product") /\ tx[w].dirty = {}
        /\ TakeRow(w, p)
        /\ Runs(w, [tx[w] EXCEPT !.stock = StockAfter(w, p, e.qty),
                                 !.body = Tail(@), !.step = "entry"])

\* received once every item in the session is, else partially_received.
NewStatus(w) ==
    IF \A i \in ItemSet(tx[w].order) : tx[w].qty[i] >= Qty[i]
    THEN "received" ELSE "partially_received"

\* The status is set if it changes; the last flush sends it ahead of the items or
\* behind them: no relationship() tells the ORM which.
SetStatus(w) ==
    LET changed == NewStatus(w) # tx[w].seen.status IN
    /\ At(w, "entry") /\ tx[w].body = <<>>
    /\ \E step \in IF changed THEN {"status", "flush"} ELSE {"flush"} :
         Runs(w, [tx[w] EXCEPT !.step = step, !.status = IF changed THEN NewStatus(w) ELSE "none"])
    /\ UNCHANGED lock

\* UPDATE purchase_orders SET status = a value.
AwaitsOrder(w) ==
    /\ At(w, "status") \/ (At(w, "flush") /\ tx[w].dirty = {})
    /\ tx[w].status # "none" /\ lock[tx[w].order] # w

FlushStatus(w) ==
    /\ AwaitsOrder(w)
    /\ TakeRow(w, tx[w].order)
    /\ Runs(w, [tx[w] EXCEPT !.step = "flush"])

Commit(w) ==
    LET o == tx[w].order IN
    /\ At(w, "flush") /\ tx[w].dirty = {} /\ ~AwaitsOrder(w)
    /\ WriteOrder(w, IF tx[w].status = "none" THEN order[o].status ELSE tx[w].status)
    /\ received' = [i \in Items |-> IF tx[w].units[i] > 0 THEN tx[w].qty[i] ELSE received[i]]
    /\ shelved' = [i \in Items |-> shelved[i] + tx[w].units[i]]
    /\ stock' = [p \in Products |-> ShelfSeenBy(w, p)]
    /\ Finish(w)
    /\ UNCHANGED <<poCounter, requests, crashes>>

-----------------------------------------------------------------------------
\* cancel_purchase_order.

ReadForCancel(w, o) ==
    /\ order[o].status = "ordered"
    /\ Begin(w, [Idle EXCEPT !.step = "cancel", !.order = o, !.seen = order[o]])
    /\ UNCHANGED lock

Cancel(w) ==
    /\ At(w, "cancel")
    /\ lock[tx[w].order] = NoWorker
    /\ WriteOrder(w, "cancelled")
    /\ Finish(w)
    /\ UNCHANGED <<poCounter, received, stock, shelved, requests, crashes>>

-----------------------------------------------------------------------------
\* The row w's next statement wants.
Awaited(w) ==
    IF tx[w].step \in {"product", "flush"} /\ tx[w].dirty # {} THEN {NextDirty(w)}
    ELSE IF At(w, "product") THEN {Product[Head(tx[w].body).item]}
    ELSE IF AwaitsOrder(w) \/ At(w, "cancel") THEN {tx[w].order}
    ELSE {}

\* The database breaks a deadlock: the client gets a 500 and nothing has happened.
AbortDeadlock(w) ==
    /\ Awaited(w) # {}
    /\ InDeadlock(w, [v \in Workers |-> Awaited(v)])
    /\ Finish(w)
    /\ UNCHANGED <<dbVars, requests, crashes>>

Crash(w) ==
    /\ ~At(w, "idle")
    /\ crashes < MaxCrashes
    /\ Finish(w)
    /\ crashes' = crashes + 1
    /\ UNCHANGED <<dbVars, requests>>

Serve(w) ==
    \/ InsertOrder(w) \/ ReadItems(w) \/ TakeEntry(w) \/ FlushItem(w) \/ RaiseStock(w)
    \/ SetStatus(w) \/ FlushStatus(w) \/ Commit(w) \/ Cancel(w) \/ AbortDeadlock(w)

Next ==
    \E w \in Workers :
        \/ Serve(w) \/ Crash(w)
        \/ \E o \in Orders : NextOrderNo(w, o) \/ ReadOrder(w, o) \/ ReadForCancel(w, o)

Spec == Init /\ [][Next]_vars

\* As in Checkout: the event loop runs every handler and row locks are queues.
Fairness == \A w \in Workers : SF_vars(Serve(w))

FairSpec == Spec /\ Fairness

-----------------------------------------------------------------------------
\* Properties.

\* Every variable keeps its type.
TypeOK ==
    /\ poCounter \in Nat
    /\ order \in [Orders -> OrderRow]
    /\ received \in [Items -> Nat]
    /\ stock \in [Products -> Nat]
    /\ shelved \in [Items -> Nat]
    /\ overlapped \subseteq Orders
    /\ lock \in [Rows -> Workers \cup {NoWorker}]
    /\ tx \in [Workers -> Requests]
    /\ requests \in Nat /\ crashes \in Nat

Created == {o \in Orders : order[o].status # "none"}

\* Orders bear the numbers 1..po_counter, each once, though a handler may die with
\* a number in hand and two orders may be placed at the same moment.
OrderNumbersGapFree ==
    /\ {order[o].no : o \in Created} = 1 .. poCounter
    /\ \A o, q \in Created : order[o].no = order[q].no => o = q

\* What committed deliveries brought is what is on the shelf, for tracked products,
\* whatever deliveries overlap, wait for each other in a cycle or die half-way.
StockFollowsDeliveries ==
    \A p \in Products :
        stock[p] = IF p \in Tracked
                   THEN Sigma(shelved, {i \in Items : Product[i] = p})
                   ELSE 0

\* No body for order o names an item twice: each entry would be checked alone.
NamesItemsOnce(o) ==
    \A body \in Bodies[o] : \A j, k \in DOMAIN body : body[j].item = body[k].item => j = k

\* On an order whose transactions did not overlap, qty_received is what came and
\* never more than was ordered, the status says how much of it that is, and a
\* cancelled order has received nothing.
StatusTellsWhatCame ==
    \A o \in {q \in Created \ overlapped : NamesItemsOnce(q)} :
        LET all == \A i \in ItemSet(o) : received[i] = Qty[i]
            none == \A i \in ItemSet(o) : received[i] = 0
        IN  /\ \A i \in ItemSet(o) : received[i] = shelved[i] /\ received[i] <= Qty[i]
            /\ order[o].status =
                 IF all THEN "received"
                 ELSE IF ~none THEN "partially_received"
                 ELSE IF order[o].status = "cancelled" THEN "cancelled" ELSE "ordered"

\* Overlap or not, an order never goes back to ordered, and one that is received
\* or cancelled only changes by a transaction that read it before.
SettledStaysUnlessOverlapped ==
    [][\A o \in Orders :
         order'[o].status # order[o].status =>
            /\ order'[o].status # "ordered" \/ order[o].status = "none"
            /\ order[o].status \in {"received", "cancelled"} => o \in overlapped']_vars

\* Every request comes to an end, deadlocks and all.
DeliveriesFinish == \A w \in Workers : ~At(w, "idle") ~> At(w, "idle")
=============================================================================

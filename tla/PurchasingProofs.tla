-------------------------- MODULE PurchasingProofs --------------------------
(***************************************************************************)
(* Theorems about Purchasing for any number of handlers, orders, items,    *)
(* products and deliveries.                                                *)
(***************************************************************************)
EXTENDS Purchasing, DataTheorems

Delivering == {"items", "entry", "product", "status", "flush"}
Counting == {"entry", "product", "status", "flush"}

\* The tenant row is held exactly while an order is being placed; the number in
\* hand is then the next one, and nobody else has a request for that order.
CreateOK(w) ==
    /\ tx[w].step = "idle" => tx[w] = Idle
    /\ tx[w].step # "idle" => tx[w].order \in Orders
    /\ lock[Tenant] = w <=> tx[w].step = "create"
    /\ tx[w].step = "create" =>
         /\ order[tx[w].order].status = "none"
         /\ tx[w].seen.no = poCounter + 1
         /\ \A v \in Workers \ {w} : tx[v].order # tx[w].order
         /\ tx[w].units = Idle.units

\* No transaction has committed on w's order since w read it.
Fresh(w) == tx[w].seen.writes = order[tx[w].order].writes

\* The order as it was read, for a delivery or a cancellation.
SeenOK(w) ==
    tx[w].step \in Delivering \cup {"cancel"} =>
        /\ order[tx[w].order].status # "none"
        /\ tx[w].seen.writes <= order[tx[w].order].writes
        /\ Fresh(w) => tx[w].seen = order[tx[w].order]
        /\ tx[w].seen.status \in {"ordered", "partially_received"}
        /\ tx[w].step = "cancel" => tx[w].seen.status = "ordered"
        /\ tx[w].step \in {"items", "cancel"} => tx[w].units = Idle.units
        /\ tx[w].step = "items" => tx[w].body \in Bodies[tx[w].order] /\ tx[w].dirty = {}

\* A delivery names items of its order only, has something to bring, and has
\* reckoned the status it is about to write from the items it has in hand.
BodyOK(w) ==
    tx[w].step \in Counting =>
        /\ \A k \in DOMAIN tx[w].body : tx[w].body[k].item \in ItemSet(tx[w].order)
        /\ tx[w].dirty \subseteq ItemSet(tx[w].order)
        /\ \A i \in Items : tx[w].units[i] > 0 => i \in ItemSet(tx[w].order)
        /\ tx[w].step = "product" => tx[w].body # <<>>
        /\ tx[w].step # "entry" => \E i \in Items : tx[w].units[i] > 0
        /\ tx[w].body = <<>> => \E i \in Items : tx[w].units[i] > 0
        /\ tx[w].step \in {"status", "flush"} =>
             /\ tx[w].body = <<>>
             /\ tx[w].status \in {"none", NewStatus(w)}
             /\ tx[w].status = "none" => NewStatus(w) = tx[w].seen.status

\* If nobody has interfered and no item is named twice, what is in hand is what
\* the table says plus what this delivery brings, and that much was ordered.
CountOK(w) ==
    tx[w].step \in Counting /\ Fresh(w) /\ NamesItemsOnce(tx[w].order) =>
        /\ \A i \in ItemSet(tx[w].order) :
             /\ tx[w].qty[i] = received[i] + tx[w].units[i]
             /\ tx[w].units[i] > 0 => tx[w].qty[i] <= Qty[i]
        /\ \A j, k \in DOMAIN tx[w].body :
             tx[w].body[j].item = tx[w].body[k].item => j = k
        /\ \A k \in DOMAIN tx[w].body :
             /\ tx[w].body[k].qty <= Qty[tx[w].body[k].item] - received[tx[w].body[k].item]
             /\ k > 1 \/ tx[w].step # "product" => tx[w].units[tx[w].body[k].item] = 0

OfProduct(p) == {i \in Items : Product[i] = p}

\* Whether a unit of product p is counted and not yet on the shelf.
Pending(w, p) ==
    IF At(w, "product") /\ Product[Head(tx[w].body).item] = p THEN Head(tx[w].body).qty ELSE 0

\* The version of a product row is the committed row plus what the delivery has
\* put there, and it has put nothing on a row it does not hold.
StockOK(w) ==
    /\ \A p \in Products :
         /\ lock[p] = w => p \in Tracked /\ tx[w].step \in Counting
         /\ p \in Tracked =>
              IF lock[p] = w
              THEN tx[w].stock[p] + Pending(w, p) = stock[p] + Sigma(tx[w].units, OfProduct(p))
              ELSE Sigma(tx[w].units, OfProduct(p)) = Pending(w, p)
    /\ At(w, "product") => Product[Head(tx[w].body).item] \in Tracked

\* An order that has not been placed has no deliveries.
NothingYet ==
    \A o \in Orders : order[o].status = "none" =>
        \A i \in ItemSet(o) : received[i] = 0 /\ shelved[i] = 0

RequestOK(w) == CreateOK(w) /\ SeenOK(w) /\ BodyOK(w) /\ CountOK(w) /\ StockOK(w)

\* The inductive invariant.
IInv ==
    /\ TypeOK
    /\ OrderNumbersGapFree
    /\ StockFollowsDeliveries
    /\ StatusTellsWhatCame
    /\ NothingYet
    /\ \A w \in Workers : RequestOK(w)
-----------------------------------------------------------------------------
\* What a request is, before and after.

\* A handler without a request.
LEMMA IdleRequest ==
    /\ Idle \in Requests
    /\ Idle.step = "idle" /\ Idle.order = NoOrder /\ Idle.body = <<>> /\ Idle.dirty = {}
    /\ Idle.units = [i \in Items |-> 0] /\ Idle.qty = [i \in Items |-> 0]
    /\ Idle.seen = [status |-> "none", no |-> 0, writes |-> 0]
    /\ Idle.seen \in OrderRow
  BY DEF Idle, Requests, Steps, OrderRow, Status, Entry

\* Only worker w's request changes.
LEMMA BecomesOne ==
    ASSUME tx \in [Workers -> Requests], NEW w \in Workers, NEW r \in Requests,
           Becomes(w, r)
    PROVE  /\ tx' \in [Workers -> Requests]
           /\ tx'[w] = r
           /\ \A v \in Workers \ {w} : tx'[v] = tx[v]
  BY DEF Becomes

\* An order's items are items, and an order has some.
LEMMA ItemsOfOrder ==
    ASSUME NEW o \in Orders
    PROVE  /\ ItemSet(o) \subseteq Items
           /\ \E i \in Items : i \in ItemSet(o)
           /\ \A q \in Orders \ {o} : ItemSet(o) \cap ItemSet(q) = {}
<1>1. ItemsOf[o] \in Seq(Items) /\ ItemsOf[o] # <<>>
  BY PurchasingAssumption
<1>2. ItemSet(o) \subseteq Items
  BY <1>1 DEF ItemSet, Range
<1>3. ItemsOf[o][1] \in Items /\ 1 \in DOMAIN ItemsOf[o]
  BY <1>1
<1>4. ItemsOf[o][1] \in ItemSet(o)
  BY <1>3 DEF ItemSet, Range
<1> QED
  BY <1>2, <1>3, <1>4, PurchasingAssumption DEF ItemSet

\* The items of one product are finitely many.
LEMMA OfProductFinite == \A p : IsFiniteSet(OfProduct(p)) /\ OfProduct(p) \subseteq Items
  BY PurchasingAssumption, FS_Subset DEF OfProduct

\* A delivery that brings nothing brings nothing of any product.
LEMMA NoUnits ==
    ASSUME NEW p
    PROVE  Sigma([i \in Items |-> 0], OfProduct(p)) = 0
  BY OfProductFinite, SigmaZero

\* The row that a flush writes next is an item's.
LEMMA NextDirtyIsItem ==
    ASSUME NEW w \in Workers, tx[w].order \in Orders, tx[w].dirty # {},
           tx[w].dirty \subseteq ItemSet(tx[w].order)
    PROVE  NextDirty(w) \in Items
<1> DEFINE s == ItemsOf[tx[w].order]
           K == {k \in DOMAIN s : s[k] \in tx[w].dirty}
<1>1. s \in Seq(Items)
  BY PurchasingAssumption
<1>2. K \in SUBSET Nat /\ K # {}
  BY <1>1 DEF ItemSet, Range
<1>3. Min(K) \in DOMAIN s
  <2> HIDE DEF s
  <2>1. Min(K) \in K
    <3> HIDE DEF K
    <3> QED
      BY <1>2, MinOfNat
  <2> QED
    BY <2>1
<1>4. s[Min(K)] \in Items
  <2> HIDE DEF K
  <2> QED
    BY <1>1, <1>3
<1> QED
  BY <1>4 DEF NextDirty

\* The invariant holds at first.
LEMMA InitInv == Init => IInv
<1> SUFFICES ASSUME Init PROVE IInv
  OBVIOUS
<1> USE DEF Init
<1>1. TypeOK
  BY IdleRequest, PurchasingAssumption DEF TypeOK, OrderRow, Status
<1>2. \A o \in Orders : order[o].status = "none"
  BY IdleRequest
<1>3. OrderNumbersGapFree /\ StatusTellsWhatCame
  BY <1>2 DEF OrderNumbersGapFree, StatusTellsWhatCame, Created
<1>4. StockFollowsDeliveries
  BY NoUnits DEF StockFollowsDeliveries, OfProduct
<1>5. NothingYet
  BY ItemsOfOrder DEF NothingYet
<1>6. ASSUME NEW w \in Workers PROVE RequestOK(w)
  <2>1. CreateOK(w)
    BY IdleRequest, PurchasingAssumption DEF CreateOK, Rows
  <2>2. SeenOK(w) /\ BodyOK(w) /\ CountOK(w)
    BY IdleRequest DEF SeenOK, BodyOK, CountOK, Delivering, Counting
  <2>3. \A p \in Products : lock[p] # w /\ Sigma(tx[w].units, OfProduct(p)) = Pending(w, p)
    BY IdleRequest, NoUnits, PurchasingAssumption DEF Pending, At, Rows
  <2>4. StockOK(w)
    BY <2>3, IdleRequest DEF StockOK, At
  <2> QED
    BY <2>1, <2>2, <2>4 DEF RequestOK
<1> QED
  BY <1>1, <1>3, <1>4, <1>5, <1>6 DEF IInv

\* A request stays in order while others move, if the tables keep what it rests on:
\* a row of its order that looks as it was read, the rows it holds.
LEMMA OtherRequest ==
    ASSUME TypeOK, NEW v \in Workers, RequestOK(v), tx'[v] = tx[v],
           \A row \in Rows : lock'[row] = v <=> lock[row] = v,
           \A p \in Products : lock[p] = v => stock'[p] = stock[p],
           tx[v].step = "create" =>
             /\ order'[tx[v].order].status = "none"
             /\ poCounter' = poCounter
             /\ \A u \in Workers \ {v} : tx'[u].order # tx[v].order,
           tx[v].step \in Delivering \cup {"cancel"} =>
             LET o == tx[v].order IN
             /\ order'[o].status # "none"
             /\ tx[v].seen.writes <= order'[o].writes
             /\ order'[o].writes = tx[v].seen.writes =>
                  order'[o] = order[o] /\ \A i \in ItemSet(o) : received'[i] = received[i]
    PROVE  RequestOK(v)'
<1>1. CreateOK(v)'
  BY DEF RequestOK, CreateOK, Rows
<1>2. SeenOK(v)'
  BY DEF RequestOK, SeenOK, Fresh
<1>3. BodyOK(v)'
  BY DEF RequestOK, BodyOK, NewStatus
<1>4. CountOK(v)'
  <2> SUFFICES ASSUME tx[v].step \in Counting, Fresh(v)', NamesItemsOnce(tx[v].order)
               PROVE  CountOK(v)'
    BY DEF CountOK, NamesItemsOnce
  <2>1. Fresh(v) /\ \A i \in ItemSet(tx[v].order) : received'[i] = received[i]
    BY DEF Fresh, Delivering, Counting
  <2>2. \A k \in DOMAIN tx[v].body : tx[v].body[k].item \in ItemSet(tx[v].order)
    BY DEF RequestOK, BodyOK
  <2> QED
    BY <2>1, <2>2 DEF RequestOK, CountOK
<1>5. StockOK(v)'
  BY DEF RequestOK, StockOK, Pending, At, Rows
<1> QED
  BY <1>1, <1>2, <1>3, <1>4, <1>5 DEF RequestOK

\* The invariants of the tables rest on the tables.
LEMMA TablesOnly ==
    ASSUME UNCHANGED dbVars
    PROVE  /\ OrderNumbersGapFree' = OrderNumbersGapFree
           /\ StockFollowsDeliveries' = StockFollowsDeliveries
           /\ StatusTellsWhatCame' = StatusTellsWhatCame
           /\ NothingYet' = NothingYet
<1>1. OrderNumbersGapFree' = OrderNumbersGapFree
  BY DEF dbVars, OrderNumbersGapFree, Created
<1>2. StockFollowsDeliveries' = StockFollowsDeliveries
  BY DEF dbVars, StockFollowsDeliveries
<1>3. StatusTellsWhatCame' = StatusTellsWhatCame
  BY DEF dbVars, StatusTellsWhatCame, Created, NamesItemsOnce
<1>4. NothingYet' = NothingYet
  BY DEF dbVars, NothingYet
<1> QED
  BY <1>1, <1>2, <1>3, <1>4

\* A step of w's own that commits nothing and takes at most one row.
LEMMA PrivateStep ==
    ASSUME IInv, NEW w \in Workers, NEW r \in Requests, Becomes(w, r),
           UNCHANGED dbVars, requests' \in Nat, crashes' \in Nat,
           \/ lock' = lock
           \/ \E row \in Rows : TakeRow(w, row),
           \A v \in Workers \ {w} : tx[v].step = "create" => r.order # tx[v].order,
           RequestOK(w)'
    PROVE  IInv'
<1> USE DEF IInv
<1>1. /\ tx' \in [Workers -> Requests]
      /\ tx'[w] = r
      /\ \A v \in Workers \ {w} : tx'[v] = tx[v]
  BY BecomesOne DEF TypeOK
<1>2. /\ lock' \in [Rows -> Workers \cup {NoWorker}]
      /\ \A v \in Workers \ {w} : \A row \in Rows : lock'[row] = v <=> lock[row] = v
  BY PurchasingAssumption DEF TypeOK, TakeRow
<1>3. TypeOK'
  BY <1>1, <1>2 DEF TypeOK, dbVars
<1>4. (OrderNumbersGapFree /\ StockFollowsDeliveries /\ StatusTellsWhatCame /\ NothingYet)'
  BY TablesOnly
<1>5. ASSUME NEW v \in Workers \ {w} PROVE RequestOK(v)'
  <2>1. RequestOK(v)
    OBVIOUS
  <2>2. tx[v].step = "create" => \A u \in Workers \ {v} : tx'[u].order # tx[v].order
    BY <1>1, <2>1 DEF RequestOK, CreateOK
  <2> QED
    BY <1>1, <1>2, <2>1, <2>2, OtherRequest DEF dbVars, RequestOK, CreateOK, SeenOK
<1> QED
  BY <1>3, <1>4, <1>5

\* A request that has come to an end: nothing is in hand and no row is held.
LEMMA FinishedRequest ==
    ASSUME IInv, NEW w \in Workers, Finish(w)
    PROVE  /\ tx' \in [Workers -> Requests]
           /\ tx'[w] = Idle
           /\ \A v \in Workers \ {w} : tx'[v] = tx[v]
           /\ lock' \in [Rows -> Workers \cup {NoWorker}]
           /\ \A v \in Workers \ {w} : \A row \in Rows : lock'[row] = v <=> lock[row] = v
           /\ RequestOK(w)'
           /\ \A v \in Workers \ {w} : tx[v].step = "create" =>
                 \A u \in Workers \ {v} : tx'[u].order # tx[v].order
<1> USE DEF IInv
<1>1. /\ tx' \in [Workers -> Requests]
      /\ tx'[w] = Idle
      /\ \A v \in Workers \ {w} : tx'[v] = tx[v]
  BY BecomesOne, IdleRequest DEF TypeOK, Finish
<1>2. /\ lock' \in [Rows -> Workers \cup {NoWorker}]
      /\ \A row \in Rows : lock'[row] # w
      /\ \A v \in Workers \ {w} : \A row \in Rows : lock'[row] = v <=> lock[row] = v
  BY PurchasingAssumption DEF TypeOK, Finish, ReleaseRows
<1>3. CreateOK(w)'
  BY <1>1, <1>2, IdleRequest DEF CreateOK, Rows
<1>4. (SeenOK(w) /\ BodyOK(w) /\ CountOK(w))'
  BY <1>1, IdleRequest DEF SeenOK, BodyOK, CountOK, Delivering, Counting
<1>5. StockOK(w)'
  <2>1. ASSUME NEW p \in Products
        PROVE  lock'[p] # w /\ Sigma(tx'[w].units, OfProduct(p)) = Pending(w, p)'
    <3>1. lock'[p] # w /\ Pending(w, p)' = 0
      BY <1>1, <1>2, IdleRequest DEF Pending, At, Rows
    <3> QED
      BY <1>1, <3>1, IdleRequest, NoUnits
  <2> QED
    BY <1>1, <2>1, IdleRequest DEF StockOK, At, OfProduct
<1>6. ASSUME NEW v \in Workers \ {w}, tx[v].step = "create", NEW u \in Workers \ {v}
      PROVE  tx'[u].order # tx[v].order
  <2>1. tx[u].order # tx[v].order /\ tx[v].order \in Orders
    BY <1>6 DEF RequestOK, CreateOK
  <2> QED
    BY <1>1, <2>1, IdleRequest, PurchasingAssumption
<1> QED
  BY <1>1, <1>2, <1>3, <1>4, <1>5, <1>6 DEF RequestOK

\* A request that ends without a commit.
LEMMA EndStep ==
    ASSUME IInv, NEW w \in Workers, Finish(w), UNCHANGED dbVars,
           requests' \in Nat, crashes' \in Nat
    PROVE  IInv'
<1> USE DEF IInv
<1>1. TypeOK'
  BY FinishedRequest DEF TypeOK, dbVars
<1>2. (OrderNumbersGapFree /\ StockFollowsDeliveries /\ StatusTellsWhatCame /\ NothingYet)'
  BY TablesOnly
<1>3. ASSUME NEW v \in Workers \ {w} PROVE RequestOK(v)'
  <2>1. RequestOK(v)
    OBVIOUS
  <2> QED
    BY <2>1, FinishedRequest, OtherRequest DEF dbVars, RequestOK, CreateOK, SeenOK
<1> QED
  BY <1>1, <1>2, <1>3, FinishedRequest
-----------------------------------------------------------------------------
\* One lemma per action.

\* A request that has just begun has nothing in hand.
LEMMA BeginStep ==
    ASSUME IInv, NEW w \in Workers, NEW r \in Requests, Begin(w, r),
           \/ lock' = lock
           \/ TakeRow(w, Tenant),
           \A v \in Workers \ {w} : tx[v].step = "create" => r.order # tx[v].order,
           r.step \in {"create", "items", "cancel"}, r.order \in Orders,
           r.units = Idle.units,
           CreateOK(w)', SeenOK(w)'
    PROVE  IInv'
<1> USE DEF IInv
<1>1. tx'[w] = r /\ tx[w].step = "idle" /\ tx[w] = Idle /\ UNCHANGED <<dbVars, crashes>>
  BY DEF TypeOK, Begin, Becomes, At, RequestOK, CreateOK
<1>2. BodyOK(w)' /\ CountOK(w)'
  BY <1>1 DEF BodyOK, CountOK, Counting
<1>3. StockOK(w)'
  <2>1. ASSUME NEW p \in Products
        PROVE  lock'[p] # w /\ Sigma(tx'[w].units, OfProduct(p)) = Pending(w, p)'
    <3>1. lock[p] # w
      BY <1>1, IdleRequest DEF RequestOK, StockOK, Counting
    <3>2. lock'[p] # w
      BY <3>1, RowsAssumption DEF TakeRow, TypeOK, Rows
    <3>3. Pending(w, p)' = 0
      BY <1>1 DEF Pending, At
    <3> QED
      BY <1>1, <3>2, <3>3, IdleRequest, NoUnits
  <2> QED
    BY <1>1, <2>1 DEF StockOK, At, OfProduct
<1>4. RequestOK(w)'
  BY <1>2, <1>3 DEF RequestOK
<1>5. Becomes(w, r) /\ requests' \in Nat /\ crashes' \in Nat
  BY <1>1 DEF Begin, TypeOK
<1> QED
  BY <1>1, <1>4, <1>5, PrivateStep DEF Rows

\* NextOrderNo keeps the invariant.
LEMMA NextOrderNoInv ==
    ASSUME IInv, NEW w \in Workers, NEW o \in Orders, NextOrderNo(w, o)
    PROVE  IInv'
<1> USE DEF IInv
<1> DEFINE seen == [Idle.seen EXCEPT !.no = poCounter + 1]
           r == [Idle EXCEPT !.step = "create", !.order = o, !.seen = seen]
<1>1. seen \in OrderRow /\ seen.no = poCounter + 1
  BY IdleRequest DEF TypeOK, OrderRow
<1> HIDE DEF seen
<1>2. /\ r \in Requests /\ r.step = "create" /\ r.order = o /\ r.seen = seen
      /\ r.units = Idle.units
  BY <1>1, IdleRequest DEF Requests, Steps
<1>3. Begin(w, r) /\ TakeRow(w, Tenant)
  BY DEF NextOrderNo, seen
<1> HIDE DEF r
<1>4. /\ order[o].status = "none"
      /\ \A v \in Workers : tx[v].order # o
      /\ UNCHANGED dbVars
  BY <1>3 DEF NextOrderNo, Begin
<1>5. tx'[w] = r /\ \A v \in Workers \ {w} : tx'[v] = tx[v]
  BY <1>2, <1>3, BecomesOne DEF Begin, TypeOK
<1>6. lock'[Tenant] = w
  BY <1>3 DEF TakeRow, TypeOK, Rows
<1>7. CreateOK(w)'
  BY <1>1, <1>2, <1>4, <1>5, <1>6 DEF CreateOK, dbVars
<1>8. SeenOK(w)'
  BY <1>2, <1>5 DEF SeenOK, Delivering
<1> QED
  BY <1>2, <1>3, <1>4, <1>7, <1>8, BeginStep

\* A request that read order o when it began.
LEMMA BeginReading ==
    ASSUME IInv, NEW w \in Workers, NEW o \in Orders, NEW r \in Requests, Begin(w, r),
           UNCHANGED lock, order[o].status # "none",
           r.step \in {"items", "cancel"}, r.order = o, r.seen = order[o],
           r.units = Idle.units,
           order[o].status \in {"ordered", "partially_received"},
           r.step = "cancel" => order[o].status = "ordered",
           r.step = "items" => r.body \in Bodies[o] /\ r.dirty = {}
    PROVE  IInv'
<1> USE DEF IInv
<1>1. UNCHANGED dbVars /\ tx[w].step = "idle"
  BY DEF Begin, At
<1>2. tx'[w] = r /\ \A v \in Workers \ {w} : tx'[v] = tx[v]
  BY BecomesOne DEF Begin, TypeOK
<1>3. CreateOK(w)'
  <2>1. lock[Tenant] # w
    BY <1>1 DEF RequestOK, CreateOK
  <2> QED
    BY <1>2, <2>1 DEF CreateOK
<1>4. SeenOK(w)'
  BY <1>1, <1>2 DEF SeenOK, dbVars, Fresh, TypeOK, OrderRow
<1>5. \A v \in Workers \ {w} : tx[v].step = "create" => r.order # tx[v].order
  BY DEF RequestOK, CreateOK
<1> QED
  BY <1>3, <1>4, <1>5, BeginStep

\* ReadOrder keeps the invariant.
LEMMA ReadOrderInv ==
    ASSUME IInv, NEW w \in Workers, NEW o \in Orders, ReadOrder(w, o)
    PROVE  IInv'
<1>1. PICK body \in Bodies[o] :
        Begin(w, [Idle EXCEPT !.step = "items", !.order = o, !.seen = order[o], !.body = body])
  BY DEF ReadOrder
<1> DEFINE r == [Idle EXCEPT !.step = "items", !.order = o, !.seen = order[o], !.body = body]
<1>2. body \in Seq(Entry) /\ order[o] \in OrderRow
  BY PurchasingAssumption DEF IInv, TypeOK
<1>3. /\ r \in Requests /\ r.step = "items" /\ r.order = o /\ r.seen = order[o]
      /\ r.body = body /\ r.dirty = {} /\ r.units = Idle.units
  BY <1>2, IdleRequest DEF Requests, Steps
<1> HIDE DEF r
<1> QED
  BY <1>1, <1>3, BeginReading DEF ReadOrder, r

\* ReadForCancel keeps the invariant.
LEMMA ReadForCancelInv ==
    ASSUME IInv, NEW w \in Workers, NEW o \in Orders, ReadForCancel(w, o)
    PROVE  IInv'
<1> DEFINE r == [Idle EXCEPT !.step = "cancel", !.order = o, !.seen = order[o]]
<1>1. order[o] \in OrderRow
  BY DEF IInv, TypeOK
<1>2. /\ r \in Requests /\ r.step = "cancel" /\ r.order = o /\ r.seen = order[o]
      /\ r.units = Idle.units
  BY <1>1, IdleRequest DEF Requests, Steps
<1>3. Begin(w, r)
  BY DEF ReadForCancel
<1> HIDE DEF r
<1> QED
  BY <1>2, <1>3, BeginReading DEF ReadForCancel

\* A delivery moves on, and may take a row that is not the tenant's.
LEMMA MoveStep ==
    ASSUME IInv, NEW w \in Workers, NEW r \in Requests, Runs(w, r),
           \/ lock' = lock
           \/ \E row \in Rows \ {Tenant} : TakeRow(w, row),
           tx[w].step \in Delivering, r.step \in Counting,
           r.order = tx[w].order, r.seen = tx[w].seen,
           BodyOK(w)', CountOK(w)', StockOK(w)'
    PROVE  IInv'
<1> USE DEF IInv
<1>1. tx'[w] = r /\ \A v \in Workers \ {w} : tx'[v] = tx[v]
  BY BecomesOne DEF Runs, TypeOK
<1>2. UNCHANGED dbVars /\ Becomes(w, r) /\ requests' \in Nat /\ crashes' \in Nat
  BY DEF Runs, TypeOK
<1>3. CreateOK(w)'
  <2>1. lock[Tenant] # w /\ tx[w].order \in Orders
    BY DEF RequestOK, CreateOK, Delivering
  <2>2. lock'[Tenant] # w
    BY <2>1 DEF TakeRow, TypeOK, Rows
  <2> QED
    BY <1>1, <2>1, <2>2 DEF CreateOK, Counting
<1>4. SeenOK(w)'
  BY <1>1, <1>2 DEF RequestOK, SeenOK, Fresh, dbVars, Counting, Delivering
<1>5. RequestOK(w)'
  BY <1>3, <1>4 DEF RequestOK
<1>6. \A v \in Workers \ {w} : tx[v].step = "create" => r.order # tx[v].order
  BY DEF RequestOK, CreateOK
<1> QED
  BY <1>2, <1>5, <1>6, PrivateStep

\* ReadItems keeps the invariant.
LEMMA ReadItemsInv ==
    ASSUME IInv, NEW w \in Workers, ReadItems(w)
    PROVE  IInv'
<1> USE DEF IInv
<1> DEFINE o == tx[w].order
           q == [i \in Items |-> IF i \in ItemSet(o) THEN received[i] ELSE 0]
           r == [tx[w] EXCEPT !.step = "entry", !.qty = q]
<1>1. /\ tx[w] \in Requests /\ tx[w].step = "items" /\ o \in Orders
      /\ tx[w].body \in Bodies[o] /\ tx[w].dirty = {} /\ tx[w].units = Idle.units
  BY DEF ReadItems, At, TypeOK, RequestOK, CreateOK, SeenOK, Delivering
<1>2. tx[w].body \in Seq(Entry) /\ tx[w].body # <<>>
  BY <1>1, PurchasingAssumption
<1>3. CASE Finish(w) /\ UNCHANGED <<dbVars, requests, crashes>>
  BY <1>3, EndStep DEF TypeOK
<1>4. CASE Receivable(o, tx[w].body) /\ Runs(w, r) /\ UNCHANGED lock
  <2>1. q \in [Items -> Nat] /\ \A i \in ItemSet(o) : q[i] = received[i]
    BY <1>1, ItemsOfOrder DEF TypeOK
  <2> HIDE DEF q
  <2>2. /\ r \in Requests /\ r.step = "entry" /\ r.order = o /\ r.seen = tx[w].seen
        /\ r.body = tx[w].body /\ r.units = Idle.units /\ r.qty = q /\ r.dirty = tx[w].dirty
    BY <1>1, <2>1 DEF Requests, Steps
  <2> HIDE DEF r
  <2>3. tx'[w] = r
    BY <1>4, <2>2, BecomesOne DEF Runs, TypeOK
  <2>4. BodyOK(w)'
    BY <1>1, <1>2, <1>4, <2>2, <2>3, IdleRequest DEF BodyOK, Receivable
  <2>5. CountOK(w)'
    <3>1. \A i \in Items : r.units[i] = 0
      BY <2>2, IdleRequest
    <3>2. \A k \in DOMAIN r.body :
            /\ r.body[k].item \in ItemSet(o) /\ r.body[k].item \in Items
            /\ r.body[k].qty <= Qty[r.body[k].item] - received[r.body[k].item]
      BY <1>1, <1>4, <2>2, ItemsOfOrder DEF Receivable
    <3>3. \A i \in ItemSet(o) : r.qty[i] = received[i] /\ received[i] \in Nat /\ i \in Items
      BY <1>1, <2>1, <2>2, ItemsOfOrder DEF TypeOK
    <3>4. NamesItemsOnce(o) =>
            \A j, k \in DOMAIN r.body : r.body[j].item = r.body[k].item => j = k
      BY <1>1, <2>2 DEF NamesItemsOnce
    <3>5. received' = received
      BY <1>4 DEF Runs, dbVars
    <3>6. r.step = "entry" /\ r.order = o
      BY <2>2
    <3> QED
      BY <2>3, <3>1, <3>2, <3>3, <3>4, <3>5, <3>6 DEF CountOK, NamesItemsOnce
  <2>6. StockOK(w)'
    <3>1. \A p \in Products : lock'[p] # w
      BY <1>1, <1>4 DEF RequestOK, StockOK, Counting
    <3>2. \A p \in Products : Sigma(tx'[w].units, OfProduct(p)) = 0
      BY <2>2, <2>3, IdleRequest, NoUnits
    <3>3. \A p \in Products : Pending(w, p)' = 0
      BY <2>2, <2>3 DEF Pending, At
    <3> QED
      BY <2>2, <2>3, <3>1, <3>2, <3>3 DEF StockOK, At, OfProduct
  <2> QED
    BY <1>1, <1>4, <2>2, <2>4, <2>5, <2>6, MoveStep DEF Delivering, Counting
<1> QED
  BY <1>3, <1>4 DEF ReadItems

\* More at one place of a column.
LEMMA AddedAt ==
    ASSUME NEW f \in [Items -> Nat], NEW i \in Items, NEW n \in Nat
    PROVE  LET g == [f EXCEPT ![i] = @ + n]
           IN  g \in [Items -> Nat] /\ g[i] = f[i] + n /\ \A j \in Items \ {i} : g[j] = f[j]
  OBVIOUS

\* One more entry of a body, in the sum over the items of a product.
LEMMA UnitsAdded ==
    ASSUME NEW f \in [Items -> Nat], NEW i \in Items, NEW n \in Nat, NEW p
    PROVE  /\ Sigma(f, OfProduct(p)) \in Int
           /\ Sigma([f EXCEPT ![i] = @ + n], OfProduct(p))
                = Sigma(f, OfProduct(p)) + (IF Product[i] = p THEN n ELSE 0)
<1> DEFINE S == OfProduct(p)
           g == [f EXCEPT ![i] = @ + n]
<1>1. IsFiniteSet(S) /\ S \subseteq Items
  BY OfProductFinite
<1>2. i \in S <=> Product[i] = p
  BY DEF OfProduct
<1>3. g \in [Items -> Nat] /\ g[i] = f[i] + n /\ \A j \in Items \ {i} : g[j] = f[j]
  BY AddedAt
<1> HIDE DEF S, g
<1>4. Sigma(f, S) \in Int
  <2>1. \A x \in S : f[x] \in Int
    BY <1>1
  <2> QED
    BY <1>1, <2>1, SigmaType
<1>5. CASE Product[i] = p
  <2>1. Sigma(g, S) = Sigma(f, S) + g[i] - f[i]
    <3>1. \A y \in S : f[y] \in Int /\ g[y] \in Int
      BY <1>1, <1>3
    <3>2. \A y \in S \ {i} : g[y] = f[y]
      BY <1>1, <1>3
    <3> QED
      BY <1>1, <1>2, <1>5, <3>1, <3>2, SigmaChange
  <2> QED
    BY <1>3, <1>4, <1>5, <2>1 DEF S, g
<1>6. CASE Product[i] # p
  <2>1. Sigma(g, S) = Sigma(f, S)
    <3>1. \A y \in S : f[y] \in Int /\ g[y] = f[y]
      BY <1>1, <1>2, <1>3, <1>6
    <3> QED
      BY <1>1, <3>1, SigmaSame
  <2> QED
    BY <1>4, <1>6, <2>1 DEF S, g
<1> QED
  BY <1>4, <1>5, <1>6 DEF S

\* TakeEntry keeps the invariant.
LEMMA TakeEntryInv ==
    ASSUME IInv, NEW w \in Workers, TakeEntry(w)
    PROVE  IInv'
<1> USE DEF IInv
<1> DEFINE t == tx[w]
           e == Head(t.body)
           tracked == Product[e.item] \in Tracked
           q == [t.qty EXCEPT ![e.item] = @ + e.qty]
           u == [t.units EXCEPT ![e.item] = @ + e.qty]
           r == [t EXCEPT !.qty = q, !.units = u, !.dirty = @ \cup {e.item},
                          !.body = IF tracked THEN @ ELSE Tail(@),
                          !.step = IF tracked THEN "product" ELSE "entry"]
<1>1. /\ t \in Requests /\ t.step = "entry" /\ t.order \in Orders
      /\ t.body \in Seq(Entry) /\ t.body # <<>>
      /\ t.qty \in [Items -> Nat] /\ t.units \in [Items -> Nat] /\ t.dirty \subseteq Items
  BY DEF TakeEntry, At, TypeOK, RequestOK, CreateOK, Requests
<1>2. /\ e \in Entry /\ e = t.body[1] /\ Tail(t.body) \in Seq(Entry)
      /\ Len(t.body) \in Nat /\ Len(t.body) > 0
      /\ DOMAIN Tail(t.body) = 1 .. (Len(t.body) - 1)
      /\ \A k \in 1 .. (Len(t.body) - 1) : Tail(t.body)[k] = t.body[k + 1]
  BY <1>1, HeadAndTail
<1>3. e.item \in Items /\ e.qty \in Nat /\ e.qty > 0
  BY <1>2 DEF Entry
<1>4. e.item \in ItemSet(t.order)
  BY <1>1, <1>2 DEF RequestOK, BodyOK, Counting
<1> HIDE DEF e
<1>5. /\ q \in [Items -> Nat] /\ u \in [Items -> Nat]
      /\ u[e.item] = t.units[e.item] + e.qty /\ q[e.item] = t.qty[e.item] + e.qty
      /\ \A i \in Items \ {e.item} : u[i] = t.units[i] /\ q[i] = t.qty[i]
  BY <1>1, <1>3, AddedAt
<1>6. Runs(w, r) /\ UNCHANGED lock
  BY DEF TakeEntry, e
<1>7. \A p : /\ Sigma(t.units, OfProduct(p)) \in Int
             /\ Sigma(u, OfProduct(p)) = Sigma(t.units, OfProduct(p))
                                          + (IF Product[e.item] = p THEN e.qty ELSE 0)
  BY <1>1, <1>3, UnitsAdded
<1> HIDE DEF q, u
<1>8. /\ r \in Requests /\ r.order = t.order /\ r.seen = t.seen /\ r.qty = q /\ r.units = u
      /\ r.dirty = t.dirty \cup {e.item} /\ r.stock = t.stock
      /\ tracked => r.step = "product" /\ r.body = t.body
      /\ ~tracked => r.step = "entry" /\ r.body = Tail(t.body)
  BY <1>1, <1>2, <1>3, <1>5 DEF Requests, Steps
<1> HIDE DEF r
<1> DEFINE m(k) == IF tracked THEN k ELSE k + 1
<1>a. ASSUME NEW k \in DOMAIN r.body
      PROVE  /\ k \in Nat /\ k > 0 /\ m(k) \in DOMAIN t.body /\ r.body[k] = t.body[m(k)]
             /\ k > 1 \/ r.step # "product" => m(k) > 1
  <2>1. DOMAIN t.body = 1 .. Len(t.body)
    BY <1>1
  <2>2. CASE tracked
    BY <1>1, <1>2, <1>8, <1>a, <2>1, <2>2
  <2>3. CASE ~tracked
    <3>1. r.body = Tail(t.body)
      BY <1>8, <2>3
    <3> QED
      BY <1>a, <1>2, <2>1, <2>3, <3>1
  <2> QED
    BY <2>2, <2>3
<1> HIDE DEF m
<1>9. tx'[w] = r /\ UNCHANGED dbVars
  BY <1>6, <1>8, BecomesOne DEF Runs, TypeOK
<1>10. BodyOK(w)'
  <2>1. \A k \in DOMAIN r.body : r.body[k].item \in ItemSet(t.order)
    <3>1. \A k \in DOMAIN t.body : t.body[k].item \in ItemSet(t.order)
      BY <1>1 DEF RequestOK, BodyOK, Counting
    <3> QED
      BY <1>a, <3>1
  <2>2. \A i \in Items : u[i] > 0 => i \in ItemSet(t.order)
    BY <1>1, <1>4, <1>5 DEF RequestOK, BodyOK, Counting
  <2>3. u[e.item] > 0
    BY <1>1, <1>3, <1>5
  <2>4. t.dirty \subseteq ItemSet(t.order)
    BY <1>1 DEF RequestOK, BodyOK, Counting
  <2> QED
    BY <1>1, <1>3, <1>4, <1>8, <1>9, <2>1, <2>2, <2>3, <2>4 DEF BodyOK
<1>11. CountOK(w)'
  <2> SUFFICES ASSUME Fresh(w), NamesItemsOnce(t.order)
               PROVE  CountOK(w)'
    BY <1>8, <1>9 DEF CountOK, Fresh, NamesItemsOnce, dbVars
  <2>1. /\ \A i \in ItemSet(t.order) : t.qty[i] = received[i] + t.units[i]
        /\ \A i \in ItemSet(t.order) : t.units[i] > 0 => t.qty[i] <= Qty[i]
        /\ \A j, k \in DOMAIN t.body : t.body[j].item = t.body[k].item => j = k
        /\ \A k \in DOMAIN t.body :
             /\ t.body[k].qty <= Qty[t.body[k].item] - received[t.body[k].item]
             /\ t.units[t.body[k].item] = 0
    BY <1>1 DEF RequestOK, CountOK, Counting
  <2>2. 1 \in DOMAIN t.body /\ DOMAIN t.body = 1 .. Len(t.body)
    BY <1>1, <1>2
  <2>3. ItemSet(t.order) \subseteq Items
    BY <1>1, ItemsOfOrder
  <2>4. \A i \in Items : received[i] \in Nat /\ Qty[i] \in Nat /\ t.units[i] \in Nat
    BY <1>1, PurchasingAssumption DEF TypeOK
  <2>5. ASSUME NEW i \in ItemSet(t.order)
        PROVE  q[i] = received[i] + u[i] /\ (u[i] > 0 => q[i] <= Qty[i])
    <3>1. CASE i = e.item
      <4>1. t.units[i] = 0 /\ e.qty <= Qty[i] - received[i] /\ t.qty[i] = received[i] + t.units[i]
        BY <1>2, <2>1, <2>2, <2>5, <3>1
      <4> QED
        BY <1>3, <1>5, <2>4, <3>1, <4>1
    <3>2. CASE i # e.item
      BY <1>5, <2>1, <2>3, <2>5, <3>2
    <3> QED
      BY <3>1, <3>2
  <2>6. \A j, k \in DOMAIN r.body : r.body[j].item = r.body[k].item => j = k
    <3> SUFFICES ASSUME NEW j \in DOMAIN r.body, NEW k \in DOMAIN r.body,
                        r.body[j].item = r.body[k].item
                 PROVE  j = k
      OBVIOUS
    <3>1. m(j) = m(k)
      BY <1>a, <2>1
    <3> QED
      BY <1>a, <3>1 DEF m
  <2>7. ASSUME NEW k \in DOMAIN r.body
        PROVE  /\ r.body[k].qty <= Qty[r.body[k].item] - received[r.body[k].item]
               /\ k > 1 \/ r.step # "product" => u[r.body[k].item] = 0
    <3>1. m(k) \in DOMAIN t.body /\ r.body[k] = t.body[m(k)] /\ k \in Nat
      BY <1>a
    <3>2. k > 1 \/ r.step # "product" => m(k) > 1
      BY <1>a
    <3>3. m(k) > 1 => t.body[m(k)].item # e.item
      BY <1>2, <2>1, <2>2, <3>1
    <3>4. t.body[m(k)].item \in Items
      <4>1. t.body[m(k)] \in Entry
        BY <1>1, <3>1
      <4> QED
        BY <4>1 DEF Entry
    <3>5. t.body[m(k)].qty <= Qty[t.body[m(k)].item] - received[t.body[m(k)].item] /\ t.units[t.body[m(k)].item] = 0
      BY <2>1, <3>1
    <3> QED
      BY <1>5, <3>1, <3>2, <3>3, <3>4, <3>5
  <2> QED
    BY <1>8, <1>9, <2>5, <2>6, <2>7 DEF CountOK, dbVars
<1>12. StockOK(w)'
  <2>1. ASSUME NEW p \in Products, p \in Tracked
        PROVE  Pending(w, p)' = IF Product[e.item] = p THEN e.qty ELSE 0
    BY <1>8, <1>9, <2>1 DEF Pending, At, e
  <2>2. \A p \in Products : Pending(w, p) = 0
    BY <1>1 DEF Pending, At
  <2>3. \A p \in Products : t.stock[p] \in Nat /\ stock[p] \in Nat
    BY <1>1 DEF TypeOK, Requests
  <2>4. At(w, "product")' => Product[Head(tx[w].body).item]' \in Tracked
    BY <1>8, <1>9 DEF At, e
  <2>5. ASSUME NEW p \in Products
        PROVE  /\ lock'[p] = w => p \in Tracked /\ tx'[w].step \in Counting
               /\ p \in Tracked =>
                    IF lock'[p] = w
                    THEN tx'[w].stock[p] + Pending(w, p)'
                           = stock'[p] + Sigma(tx'[w].units, OfProduct(p))
                    ELSE Sigma(tx'[w].units, OfProduct(p)) = Pending(w, p)'
    BY <1>3, <1>6, <1>7, <1>8, <1>9, <2>1, <2>2, <2>3, <2>5
       DEF RequestOK, StockOK, dbVars, Counting
  <2> QED
    BY <2>4, <2>5 DEF StockOK, OfProduct
<1> QED
  BY <1>1, <1>6, <1>8, <1>10, <1>11, <1>12, MoveStep DEF Delivering, Counting

\* FlushItem keeps the invariant.
LEMMA FlushItemInv ==
    ASSUME IInv, NEW w \in Workers, FlushItem(w)
    PROVE  IInv'
<1> USE DEF IInv
<1> DEFINE t == tx[w]
           i == NextDirty(w)
           r == [t EXCEPT !.dirty = @ \ {i}]
<1>1. /\ t \in Requests /\ t.step \in {"product", "flush"} /\ t.order \in Orders
      /\ t.dirty # {} /\ t.dirty \subseteq ItemSet(t.order)
  BY DEF FlushItem, TypeOK, RequestOK, CreateOK, BodyOK, Counting
<1>2. i \in Items
  BY <1>1, NextDirtyIsItem
<1>3. Runs(w, r) /\ TakeRow(w, i)
  BY DEF FlushItem
<1> HIDE DEF i
<1>4. /\ r \in Requests /\ r.step = t.step /\ r.order = t.order /\ r.seen = t.seen
      /\ r.body = t.body /\ r.dirty \subseteq t.dirty /\ r.qty = t.qty /\ r.units = t.units
      /\ r.stock = t.stock /\ r.status = t.status
  BY <1>1 DEF Requests
<1> HIDE DEF r
<1>5. tx'[w] = r /\ UNCHANGED dbVars
  BY <1>3, <1>4, BecomesOne DEF Runs, TypeOK
<1>6. \A p \in Products : lock'[p] = lock[p]
  BY <1>2, <1>3, RowsAssumption DEF TakeRow, TypeOK, Rows
<1>7. NewStatus(w)' = NewStatus(w)
  BY <1>4, <1>5 DEF NewStatus
<1>8. BodyOK(w)'
  BY <1>1, <1>4, <1>5, <1>7 DEF RequestOK, BodyOK
<1>9. CountOK(w)'
  BY <1>4, <1>5 DEF RequestOK, CountOK, Fresh, NamesItemsOnce, dbVars
<1>10. StockOK(w)'
  BY <1>4, <1>5, <1>6 DEF RequestOK, StockOK, Pending, At, OfProduct, dbVars
<1>11. i \in Rows \ {Tenant}
  BY <1>2, RowsAssumption DEF Rows
<1> QED
  BY <1>1, <1>3, <1>4, <1>8, <1>9, <1>10, <1>11, MoveStep DEF Delivering, Counting

\* RaiseStock keeps the invariant.
LEMMA RaiseStockInv ==
    ASSUME IInv, NEW w \in Workers, RaiseStock(w)
    PROVE  IInv'
<1> USE DEF IInv
<1> DEFINE t == tx[w]
           e == Head(t.body)
           p == Product[e.item]
           shelf == ShelfSeenBy(w, p)
           r == [t EXCEPT !.stock = StockAfter(w, p, e.qty), !.body = Tail(@), !.step = "entry"]
<1>1. /\ t \in Requests /\ t.step = "product" /\ t.order \in Orders
      /\ t.body \in Seq(Entry) /\ t.body # <<>> /\ t.stock \in [Products -> Nat]
      /\ p \in Tracked
  BY DEF RaiseStock, At, TypeOK, RequestOK, CreateOK, BodyOK, StockOK, Requests, Counting
<1>2. /\ e \in Entry /\ e = t.body[1] /\ Tail(t.body) \in Seq(Entry)
      /\ Len(t.body) \in Nat /\ Len(t.body) > 0
      /\ DOMAIN Tail(t.body) = 1 .. (Len(t.body) - 1)
      /\ \A k \in 1 .. (Len(t.body) - 1) : Tail(t.body)[k] = t.body[k + 1]
  BY <1>1, HeadAndTail
<1>3. e.qty \in Nat /\ p \in Products
  BY <1>1, <1>2, PurchasingAssumption DEF Entry
<1>4. Runs(w, r) /\ TakeRow(w, p)
  BY DEF RaiseStock
<1> HIDE DEF e, p
<1>5. \A n \in Products : stock[n] \in Nat
  BY DEF TypeOK
<1>6. /\ StockAfter(w, p, e.qty) \in [Products -> Nat]
      /\ StockAfter(w, p, e.qty)[p] = shelf + e.qty
      /\ \A n \in Products \ {p} : StockAfter(w, p, e.qty)[n] = t.stock[n]
  BY <1>1, <1>3, <1>5 DEF StockAfter, ShelfSeenBy
<1>7. /\ r \in Requests /\ r.step = "entry" /\ r.order = t.order /\ r.seen = t.seen
      /\ r.body = Tail(t.body) /\ r.dirty = t.dirty /\ r.qty = t.qty /\ r.units = t.units
      /\ r.stock = StockAfter(w, p, e.qty)
  BY <1>1, <1>2, <1>6 DEF Requests, Steps
<1> HIDE DEF r
<1>8. tx'[w] = r /\ UNCHANGED dbVars
  BY <1>4, <1>7, BecomesOne DEF Runs, TypeOK
<1>9. ASSUME NEW k \in DOMAIN r.body
      PROVE  k \in Nat /\ k > 0 /\ k + 1 \in DOMAIN t.body /\ r.body[k] = t.body[k + 1]
  <2>1. DOMAIN t.body = 1 .. Len(t.body)
    BY <1>1
  <2> QED
    BY <1>2, <1>7, <1>9, <2>1
<1>10. BodyOK(w)'
  <2>1. /\ \A k \in DOMAIN t.body : t.body[k].item \in ItemSet(t.order)
        /\ t.dirty \subseteq ItemSet(t.order)
        /\ \A i \in Items : t.units[i] > 0 => i \in ItemSet(t.order)
        /\ \E i \in Items : t.units[i] > 0
    BY <1>1 DEF RequestOK, BodyOK, Counting
  <2> QED
    BY <1>7, <1>8, <1>9, <2>1 DEF BodyOK
<1>11. CountOK(w)'
  <2> SUFFICES ASSUME Fresh(w), NamesItemsOnce(t.order)
               PROVE  CountOK(w)'
    BY <1>7, <1>8 DEF CountOK, Fresh, NamesItemsOnce, dbVars
  <2>1. /\ \A i \in ItemSet(t.order) : t.qty[i] = received[i] + t.units[i]
        /\ \A i \in ItemSet(t.order) : t.units[i] > 0 => t.qty[i] <= Qty[i]
        /\ \A j, k \in DOMAIN t.body : t.body[j].item = t.body[k].item => j = k
        /\ \A k \in DOMAIN t.body :
             /\ t.body[k].qty <= Qty[t.body[k].item] - received[t.body[k].item]
             /\ k > 1 => t.units[t.body[k].item] = 0
    BY <1>1 DEF RequestOK, CountOK, Counting
  <2>2. \A j, k \in DOMAIN r.body : r.body[j].item = r.body[k].item => j = k
    <3> SUFFICES ASSUME NEW j \in DOMAIN r.body, NEW k \in DOMAIN r.body,
                        r.body[j].item = r.body[k].item
                 PROVE  j = k
      OBVIOUS
    <3>1. j + 1 = k + 1
      BY <1>9, <2>1
    <3> QED
      BY <1>9, <3>1
  <2>3. \A k \in DOMAIN r.body :
          /\ r.body[k].qty <= Qty[r.body[k].item] - received[r.body[k].item]
          /\ t.units[r.body[k].item] = 0
    BY <1>9, <2>1
  <2> QED
    BY <1>7, <1>8, <2>1, <2>2, <2>3 DEF CountOK, dbVars
<1>12. StockOK(w)'
  <2>1. \A n \in Products : Pending(w, n)' = 0
    BY <1>7, <1>8 DEF Pending, At
  <2>2. \A n \in Products : Pending(w, n) = IF n = p THEN e.qty ELSE 0
    BY <1>1 DEF Pending, At, p, e
  <2>3. lock'[p] = w /\ \A n \in Products \ {p} : lock'[n] = lock[n]
    BY <1>3, <1>4 DEF TakeRow, TypeOK, Rows
  <2>4. \A n \in Products : Sigma(t.units, OfProduct(n)) \in Int
    <3>1. t.units \in [Items -> Nat]
      BY <1>1 DEF Requests
    <3> QED
      BY <3>1, OfProductFinite, SigmaType
  <2>5. ASSUME NEW n \in Products
        PROVE  /\ lock'[n] = w => n \in Tracked /\ tx'[w].step \in Counting
               /\ n \in Tracked =>
                    IF lock'[n] = w
                    THEN tx'[w].stock[n] + Pending(w, n)'
                           = stock'[n] + Sigma(tx'[w].units, OfProduct(n))
                    ELSE Sigma(tx'[w].units, OfProduct(n)) = Pending(w, n)'
    <3>1. /\ lock[n] = w => n \in Tracked
          /\ n \in Tracked =>
               IF lock[n] = w
               THEN t.stock[n] + Pending(w, n) = stock[n] + Sigma(t.units, OfProduct(n))
               ELSE Sigma(t.units, OfProduct(n)) = Pending(w, n)
      BY DEF RequestOK, StockOK
    <3>2. /\ t.stock[n] \in Nat /\ stock[n] \in Nat
          /\ tx'[w].units = t.units /\ stock' = stock /\ tx'[w].step \in Counting
      BY <1>1, <1>5, <1>7, <1>8 DEF dbVars, Counting
    <3>3. CASE n = p
      <4>1. tx'[w].stock[n] = shelf + e.qty
        BY <1>6, <1>7, <1>8, <3>3
      <4>2. shelf = IF lock[n] = w THEN t.stock[n] ELSE stock[n]
        BY <3>3 DEF ShelfSeenBy
      <4>3. Pending(w, n)' = 0 /\ Pending(w, n) = e.qty /\ lock'[n] = w
        BY <2>1, <2>2, <2>3, <3>3
      <4> QED
        BY <1>1, <1>3, <2>4, <3>1, <3>2, <3>3, <4>1, <4>2, <4>3
    <3>4. CASE n # p
      <4>1. tx'[w].stock[n] = t.stock[n]
        BY <1>6, <1>7, <1>8, <3>4
      <4> QED
        BY <2>1, <2>2, <2>3, <3>1, <3>2, <3>4, <4>1
    <3> QED
      BY <3>3, <3>4
  <2> QED
    BY <1>7, <1>8, <2>5 DEF StockOK, OfProduct, At
<1>13. p \in Rows \ {Tenant}
  BY <1>3, RowsAssumption DEF Rows
<1> QED
  BY <1>1, <1>4, <1>7, <1>10, <1>11, <1>12, <1>13, MoveStep DEF Delivering, Counting

\* From the last entry to the commit only the step, the status to write and the
\* hold on the order's row change.
LEMMA StatusStep ==
    ASSUME IInv, NEW w \in Workers, NEW r \in Requests, Runs(w, r),
           \/ lock' = lock
           \/ TakeRow(w, tx[w].order),
           tx[w].step \in {"entry", "status", "flush"}, tx[w].body = <<>>,
           r.step \in {"status", "flush"}, r.order = tx[w].order, r.seen = tx[w].seen,
           r.body = tx[w].body, r.dirty = tx[w].dirty, r.qty = tx[w].qty,
           r.units = tx[w].units, r.stock = tx[w].stock,
           r.status \in {"none", NewStatus(w)},
           r.status = "none" => NewStatus(w) = tx[w].seen.status
    PROVE  IInv'
<1> USE DEF IInv
<1>1. tx'[w] = r /\ UNCHANGED dbVars
  BY BecomesOne DEF Runs, TypeOK
<1>2. tx[w].order \in Orders
  BY DEF RequestOK, CreateOK
<1>3. \A p \in Products : lock'[p] = lock[p]
  BY <1>2, RowsAssumption DEF TakeRow, TypeOK, Rows
<1>4. NewStatus(w)' = NewStatus(w)
  BY <1>1 DEF NewStatus
<1>5. BodyOK(w)'
  BY <1>1, <1>4 DEF RequestOK, BodyOK, Counting
<1>6. CountOK(w)'
  BY <1>1 DEF RequestOK, CountOK, Counting, Fresh, NamesItemsOnce, dbVars
<1>7. StockOK(w)'
  <2>1. \A p \in Products : Pending(w, p) = 0 /\ Pending(w, p)' = 0
    BY <1>1 DEF Pending, At
  <2>2. ~At(w, "product")'
    BY <1>1 DEF At
  <2> QED
    <3>1. tx'[w].units = tx[w].units /\ tx'[w].stock = tx[w].stock /\ tx'[w].step \in Counting
      BY <1>1 DEF Counting
    <3>2. stock' = stock
      BY <1>1 DEF dbVars
    <3>3. ASSUME NEW p \in Products
          PROVE  /\ lock'[p] = w => p \in Tracked /\ tx'[w].step \in Counting
                 /\ p \in Tracked =>
                      IF lock'[p] = w
                      THEN tx'[w].stock[p] + Pending(w, p)'
                             = stock'[p] + Sigma(tx'[w].units, OfProduct(p))
                      ELSE Sigma(tx'[w].units, OfProduct(p)) = Pending(w, p)'
      BY <1>3, <2>1, <3>1, <3>2 DEF RequestOK, StockOK
    <3> QED
      BY <2>2, <3>3 DEF StockOK, OfProduct
<1>8. tx[w].order \in Rows \ {Tenant}
  BY <1>2, RowsAssumption DEF Rows
<1> QED
  BY <1>5, <1>6, <1>7, <1>8, MoveStep DEF Delivering, Counting

\* SetStatus keeps the invariant.
LEMMA SetStatusInv ==
    ASSUME IInv, NEW w \in Workers, SetStatus(w)
    PROVE  IInv'
<1> DEFINE changed == NewStatus(w) # tx[w].seen.status
           s == IF changed THEN NewStatus(w) ELSE "none"
<1>1. PICK step \in {"status", "flush"} :
        Runs(w, [tx[w] EXCEPT !.step = step, !.status = s])
  BY DEF SetStatus
<1> DEFINE r == [tx[w] EXCEPT !.step = step, !.status = s]
<1>2. tx[w] \in Requests /\ tx[w].step = "entry" /\ tx[w].body = <<>> /\ UNCHANGED lock
  BY DEF SetStatus, At, IInv, TypeOK
<1>3. s \in Status /\ s \in {"none", NewStatus(w)}
  BY DEF NewStatus, Status
<1>4. s = "none" => NewStatus(w) = tx[w].seen.status
  BY DEF NewStatus
<1> HIDE DEF s
<1>5. /\ r \in Requests /\ r.step \in {"status", "flush"} /\ r.order = tx[w].order
      /\ r.seen = tx[w].seen /\ r.body = tx[w].body /\ r.dirty = tx[w].dirty
      /\ r.qty = tx[w].qty /\ r.units = tx[w].units /\ r.stock = tx[w].stock /\ r.status = s
  BY <1>2, <1>3 DEF Requests, Steps
<1> HIDE DEF r
<1> QED
  BY <1>1, <1>2, <1>3, <1>4, <1>5, StatusStep DEF r

\* FlushStatus keeps the invariant.
LEMMA FlushStatusInv ==
    ASSUME IInv, NEW w \in Workers, FlushStatus(w)
    PROVE  IInv'
<1> DEFINE r == [tx[w] EXCEPT !.step = "flush"]
<1>1. /\ tx[w] \in Requests /\ tx[w].step \in {"status", "flush"}
      /\ Runs(w, r) /\ TakeRow(w, tx[w].order)
  BY DEF FlushStatus, AwaitsOrder, At, IInv, TypeOK
<1>2. /\ tx[w].body = <<>> /\ tx[w].status \in {"none", NewStatus(w)}
      /\ tx[w].status = "none" => NewStatus(w) = tx[w].seen.status
  BY <1>1 DEF IInv, RequestOK, BodyOK, Counting
<1>3. /\ r \in Requests /\ r.step = "flush" /\ r.order = tx[w].order
      /\ r.seen = tx[w].seen /\ r.body = tx[w].body /\ r.dirty = tx[w].dirty
      /\ r.qty = tx[w].qty /\ r.units = tx[w].units /\ r.stock = tx[w].stock
      /\ r.status = tx[w].status
  BY <1>1 DEF Requests, Steps
<1> HIDE DEF r
<1> QED
  BY <1>1, <1>2, <1>3, StatusStep

\* InsertOrder keeps the invariant.
LEMMA InsertOrderInv ==
    ASSUME IInv, NEW w \in Workers, InsertOrder(w)
    PROVE  IInv'
<1> USE DEF IInv
<1> DEFINE o == tx[w].order
<1>1. /\ o \in Orders /\ order[o].status = "none" /\ tx[w].step = "create"
      /\ poCounter \in Nat /\ tx[w].seen.no = poCounter + 1 /\ lock[Tenant] = w
  BY DEF InsertOrder, At, TypeOK, RequestOK, CreateOK
<1>2. /\ order' = [order EXCEPT ![o] = [status |-> "ordered", no |-> poCounter + 1, writes |-> 0]]
      /\ poCounter' = poCounter + 1
      /\ Finish(w)
      /\ UNCHANGED <<received, stock, shelved, overlapped, requests, crashes>>
  BY <1>1 DEF InsertOrder
<1>3. /\ order' \in [Orders -> OrderRow]
      /\ order'[o].status = "ordered" /\ order'[o].no = poCounter + 1
      /\ \A q \in Orders \ {o} : order'[q] = order[q]
  BY <1>1, <1>2 DEF TypeOK, OrderRow, Status
<1>4. TypeOK'
  BY <1>1, <1>2, <1>3, FinishedRequest DEF TypeOK
<1>5. Created' = Created \cup {o} /\ o \notin Created
  BY <1>1, <1>3 DEF Created
<1>6. OrderNumbersGapFree'
  <2>1. {order'[q].no : q \in Created'} = {order[q].no : q \in Created} \cup {poCounter + 1}
    BY <1>3, <1>5 DEF Created
  <2>2. {order[q].no : q \in Created} = 1 .. poCounter
    BY DEF OrderNumbersGapFree
  <2>3. (1 .. poCounter) \cup {poCounter + 1} = 1 .. poCounter'
    BY <1>1, <1>2
  <2>4. \A q \in Created : order[q].no # poCounter + 1 /\ order'[q] = order[q]
    <3>1. \A q \in Created : order[q].no \in 1 .. poCounter
      BY <2>2
    <3> QED
      BY <1>1, <1>3, <1>5, <3>1 DEF Created
  <2> QED
    BY <1>3, <1>5, <2>1, <2>2, <2>3, <2>4 DEF OrderNumbersGapFree
<1>7. StockFollowsDeliveries'
  BY <1>2 DEF StockFollowsDeliveries
<1>8. NothingYet'
  BY <1>2, <1>3 DEF NothingYet
<1>9. StatusTellsWhatCame'
  <2> SUFFICES ASSUME NEW q \in (Created \cup {o}) \ overlapped, NamesItemsOnce(q)
               PROVE  LET all == \A i \in ItemSet(q) : received[i] = Qty[i]
                          none == \A i \in ItemSet(q) : received[i] = 0
                      IN  /\ \A i \in ItemSet(q) : received[i] = shelved[i] /\ received[i] <= Qty[i]
                          /\ order'[q].status =
                               IF all THEN "received"
                               ELSE IF ~none THEN "partially_received"
                               ELSE IF order'[q].status = "cancelled" THEN "cancelled" ELSE "ordered"
    BY <1>2, <1>5 DEF StatusTellsWhatCame, NamesItemsOnce
  <2>1. CASE q = o
    <3>1. \A i \in ItemSet(q) : received[i] = 0 /\ shelved[i] = 0
      BY <1>1, <2>1 DEF NothingYet
    <3>2. PICK i \in Items : i \in ItemSet(q)
      BY <1>1, <2>1, ItemsOfOrder
    <3>3. \A j \in ItemSet(q) : Qty[j] \in Nat \ {0}
      BY <1>1, <2>1, ItemsOfOrder, PurchasingAssumption
    <3> QED
      BY <1>3, <2>1, <3>1, <3>2, <3>3
  <2>2. CASE q # o
    <3>1. q \in Created \ overlapped /\ order'[q] = order[q]
      BY <1>3, <2>2 DEF Created
    <3> QED
      BY <3>1 DEF StatusTellsWhatCame
  <2> QED
    BY <2>1, <2>2
<1>10. ASSUME NEW v \in Workers \ {w} PROVE RequestOK(v)'
  <2>1. RequestOK(v)
    OBVIOUS
  <2>2. tx[v].step # "create"
    BY <1>1, <2>1 DEF RequestOK, CreateOK
  <2>3. ASSUME tx[v].step \in Delivering \cup {"cancel"}
        PROVE  tx[v].order # o /\ tx[v].order \in Orders
    BY <1>1, <2>1, <2>3 DEF RequestOK, SeenOK, CreateOK, Delivering
  <2>4. tx[v].step \in Delivering \cup {"cancel"} =>
             LET q == tx[v].order IN
             /\ order'[q].status # "none"
             /\ tx[v].seen.writes <= order'[q].writes
             /\ order'[q].writes = tx[v].seen.writes =>
                  order'[q] = order[q] /\ \A i \in ItemSet(q) : received'[i] = received[i]
    BY <1>2, <1>3, <2>1, <2>3 DEF RequestOK, SeenOK
  <2> QED
    BY <1>2, <2>1, <2>2, <2>4, FinishedRequest, OtherRequest
<1> QED
  BY <1>2, <1>4, <1>6, <1>7, <1>8, <1>9, <1>10, FinishedRequest

\* What a commit that writes w's order leaves of the orders: the counts of orders and
\* their numbers stand, and the order has one write more.
LEMMA OrderWritten ==
    ASSUME IInv, NEW w \in Workers, NEW s \in Status \ {"none"}, WriteOrder(w, s),
           tx[w].step \in Delivering \cup {"cancel"}
    PROVE  LET o == tx[w].order IN
           /\ o \in Created /\ o \in Orders
           /\ order' \in [Orders -> OrderRow]
           /\ order'[o].status = s /\ order'[o].no = order[o].no
           /\ order'[o].writes = order[o].writes + 1
           /\ \A q \in Orders \ {o} : order'[q] = order[q]
           /\ Created' = Created
           /\ overlapped' \subseteq Orders
           /\ overlapped \subseteq overlapped' /\ overlapped' \subseteq overlapped \cup {o}
           /\ o \notin overlapped' => Fresh(w)
           /\ ~Fresh(w) => o \in overlapped'
           /\ OrderNumbersGapFree' <=> {order[q].no : q \in Created} = 1 .. poCounter'
<1> USE DEF IInv
<1> DEFINE o == tx[w].order
<1>1. o \in Orders /\ order[o].status # "none"
  BY DEF RequestOK, CreateOK, SeenOK, Delivering
<1>2. order[o] \in OrderRow /\ order \in [Orders -> OrderRow]
  BY <1>1 DEF TypeOK
<1>3. /\ order' = [order EXCEPT ![o].status = s, ![o].writes = @ + 1]
      /\ overlapped' = IF Fresh(w) THEN overlapped ELSE overlapped \cup {o}
  BY DEF WriteOrder, Fresh
<1> DEFINE n == order[o].writes + 1
           row == [order[o] EXCEPT !.status = s, !.writes = n]
<1>a. n \in Nat
  BY <1>2 DEF OrderRow
<1>b. order' = [order EXCEPT ![o] = row]
  BY DEF WriteOrder
<1> HIDE DEF n
<1>4. row \in OrderRow /\ row.status = s /\ row.no = order[o].no /\ row.writes = n
  BY <1>2, <1>a DEF OrderRow
<1> HIDE DEF row
<1>5. /\ order' \in [Orders -> OrderRow]
      /\ order'[o].status = s /\ order'[o].no = order[o].no
      /\ order'[o].writes = order[o].writes + 1
      /\ \A q \in Orders \ {o} : order'[q] = order[q]
  BY <1>1, <1>2, <1>4, <1>b DEF n
<1>6. Created' = Created
  BY <1>1, <1>5 DEF Created
<1>7. \A q \in Orders : order'[q].no = order[q].no
  BY <1>5
<1>8. OrderNumbersGapFree' <=> {order[q].no : q \in Created} = 1 .. poCounter'
  <2>1. {order'[q].no : q \in Created'} = {order[q].no : q \in Created}
    BY <1>6, <1>7 DEF Created
  <2>2. \A q, z \in Created' : order'[q].no = order'[z].no => q = z
    BY <1>6, <1>7 DEF Created, OrderNumbersGapFree
  <2> QED
    BY <2>1, <2>2 DEF OrderNumbersGapFree
<1>9. overlapped \subseteq Orders
  BY DEF TypeOK
<1> QED
  BY <1>1, <1>3, <1>5, <1>6, <1>8, <1>9 DEF Created

\* The other requests when w's order has been written: one on the same order is no
\* longer fresh, one on another order sees nothing of it.
LEMMA OthersAfterWrite ==
    ASSUME IInv, NEW w \in Workers, NEW s \in Status \ {"none"}, WriteOrder(w, s), Finish(w),
           tx[w].step \in Delivering \cup {"cancel"}, UNCHANGED poCounter,
           \A p \in Products : lock[p] # w => stock'[p] = stock[p],
           \A i \in Items \ ItemSet(tx[w].order) : received'[i] = received[i],
           NEW v \in Workers \ {w}
    PROVE  RequestOK(v)'
<1> USE DEF IInv
<1> DEFINE o == tx[w].order
           q == tx[v].order
<1>1. RequestOK(v)
  OBVIOUS
<1>2. tx[v].step = "create" => q # o /\ q \in Orders
  BY <1>1, OrderWritten DEF RequestOK, CreateOK
<1>3. tx[v].step = "create" =>
        /\ order'[q].status = "none"
        /\ poCounter' = poCounter
        /\ \A u \in Workers \ {v} : tx'[u].order # q
  BY <1>1, <1>2, OrderWritten, FinishedRequest DEF RequestOK, CreateOK
<1>4. ASSUME tx[v].step \in Delivering \cup {"cancel"}
      PROVE  /\ order'[q].status # "none"
             /\ tx[v].seen.writes <= order'[q].writes
             /\ order'[q].writes = tx[v].seen.writes =>
                  order'[q] = order[q] /\ \A i \in ItemSet(q) : received'[i] = received[i]
  <2>1. /\ q \in Orders /\ order[q].status # "none"
        /\ tx[v].seen.writes <= order[q].writes
    BY <1>1, <1>4 DEF RequestOK, SeenOK, CreateOK, Delivering
  <2>2. order[q].writes \in Nat /\ tx[v].seen.writes \in Nat
    BY <2>1 DEF TypeOK, OrderRow, Requests
  <2>3. CASE q = o
    BY <2>1, <2>2, <2>3, OrderWritten
  <2>4. CASE q # o
    <3>1. order'[q] = order[q] /\ o \in Orders
      BY <2>1, <2>4, OrderWritten
    <3>2. \A i \in ItemSet(q) : received'[i] = received[i]
      BY <2>1, <2>4, <3>1, ItemsOfOrder
    <3> QED
      BY <2>1, <3>1, <3>2
  <2> QED
    BY <2>3, <2>4
<1>5. \A p \in Products : lock[p] = v => stock'[p] = stock[p]
  OBVIOUS
<1> QED
  BY <1>1, <1>3, <1>4, <1>5, FinishedRequest, OtherRequest

\* Commit keeps the invariant.
LEMMA CommitInv ==
    ASSUME IInv, NEW w \in Workers, Commit(w)
    PROVE  IInv'
<1> USE DEF IInv
<1> DEFINE t == tx[w]
           o == t.order
           s == IF t.status = "none" THEN order[o].status ELSE t.status
<1>1. /\ t \in Requests /\ t.step = "flush" /\ o \in Orders
      /\ order[o].status # "none" /\ order[o].status \in Status
      /\ t.qty \in [Items -> Nat] /\ t.units \in [Items -> Nat] /\ t.stock \in [Products -> Nat]
  BY DEF Commit, At, TypeOK, RequestOK, CreateOK, SeenOK, Delivering, Requests, OrderRow
<1>2. /\ t.status \in {"none", NewStatus(w)}
      /\ t.status = "none" => NewStatus(w) = t.seen.status
      /\ \A i \in Items : t.units[i] > 0 => i \in ItemSet(o)
      /\ \E i \in Items : t.units[i] > 0
  BY <1>1 DEF RequestOK, BodyOK, Counting
<1>3. s \in Status \ {"none"}
  BY <1>1, <1>2 DEF NewStatus, Status
<1>4. /\ WriteOrder(w, s) /\ Finish(w)
      /\ received' = [i \in Items |-> IF t.units[i] > 0 THEN t.qty[i] ELSE received[i]]
      /\ shelved' = [i \in Items |-> shelved[i] + t.units[i]]
      /\ stock' = [p \in Products |-> ShelfSeenBy(w, p)]
      /\ UNCHANGED <<poCounter, requests, crashes>>
  BY DEF Commit
<1>5. t.step \in Delivering \cup {"cancel"}
  BY <1>1 DEF Delivering
<1> HIDE DEF s
<1>6. /\ o \in Created
      /\ order' \in [Orders -> OrderRow] /\ order'[o].status = s
      /\ \A q \in Orders \ {o} : order'[q] = order[q]
      /\ Created' = Created
      /\ overlapped' \subseteq Orders /\ overlapped \subseteq overlapped'
      /\ o \notin overlapped' => Fresh(w)
  BY <1>3, <1>4, <1>5, OrderWritten
<1>7. \A i \in Items : received[i] \in Nat /\ shelved[i] \in Nat /\ t.units[i] \in Nat /\ t.qty[i] \in Nat
  BY <1>1 DEF TypeOK
<1>8. TypeOK'
  <2>1. stock' \in [Products -> Nat]
    BY <1>1, <1>4 DEF ShelfSeenBy, TypeOK
  <2>2. received' \in [Items -> Nat] /\ shelved' \in [Items -> Nat]
    BY <1>4, <1>7
  <2> QED
    BY <1>4, <1>6, <2>1, <2>2, FinishedRequest DEF TypeOK
<1>9. OrderNumbersGapFree'
  BY <1>3, <1>4, <1>5, OrderWritten DEF OrderNumbersGapFree
<1>10. ASSUME NEW i \in Items, t.units[i] = 0
       PROVE  received'[i] = received[i] /\ shelved'[i] = shelved[i]
  BY <1>4, <1>7, <1>10
<1>11. \A i \in Items \ ItemSet(o) : t.units[i] = 0
  BY <1>2, <1>7
<1>12. ASSUME NEW p \in Products
       PROVE  stock'[p] = stock[p] + (IF p \in Tracked THEN Sigma(t.units, OfProduct(p)) ELSE 0)
  <2>1. Pending(w, p) = 0 /\ t.stock[p] \in Nat /\ stock[p] \in Nat
    BY <1>1 DEF Pending, At, TypeOK
  <2>2. Sigma(t.units, OfProduct(p)) \in Int
    BY <1>7, OfProductFinite, SigmaType
  <2>3. stock'[p] = IF lock[p] = w THEN t.stock[p] ELSE stock[p]
    BY <1>4 DEF ShelfSeenBy
  <2> QED
    BY <2>1, <2>2, <2>3 DEF RequestOK, StockOK
<1>13. StockFollowsDeliveries'
  <2> SUFFICES ASSUME NEW p \in Products
               PROVE  stock'[p] = IF p \in Tracked THEN Sigma(shelved', OfProduct(p)) ELSE 0
    BY DEF StockFollowsDeliveries, OfProduct
  <2>1. stock[p] = IF p \in Tracked THEN Sigma(shelved, OfProduct(p)) ELSE 0
    BY DEF StockFollowsDeliveries, OfProduct
  <2>2. Sigma(shelved', OfProduct(p)) = Sigma(shelved, OfProduct(p)) + Sigma(t.units, OfProduct(p))
    <3>1. \A i \in OfProduct(p) : shelved[i] \in Int /\ t.units[i] \in Int
                                  /\ shelved'[i] = shelved[i] + t.units[i]
      BY <1>4, <1>7, OfProductFinite
    <3> QED
      BY <3>1, OfProductFinite, SigmaPlus
  <2> QED
    BY <1>12, <2>1, <2>2
<1>14. NothingYet'
  <2> SUFFICES ASSUME NEW q \in Orders, order'[q].status = "none", NEW i \in ItemSet(q)
               PROVE  received'[i] = 0 /\ shelved'[i] = 0
    BY DEF NothingYet
  <2>1. q # o /\ order[q].status = "none"
    BY <1>3, <1>6
  <2>2. i \in Items \ ItemSet(o)
    BY <1>1, <2>1, ItemsOfOrder
  <2> QED
    BY <1>10, <1>11, <2>1, <2>2 DEF NothingYet
<1>15. StatusTellsWhatCame'
  <2> SUFFICES ASSUME NEW q \in Created \ overlapped', NamesItemsOnce(q)
               PROVE  LET all == \A i \in ItemSet(q) : received'[i] = Qty[i]
                          none == \A i \in ItemSet(q) : received'[i] = 0
                      IN  /\ \A i \in ItemSet(q) : received'[i] = shelved'[i] /\ received'[i] <= Qty[i]
                          /\ order'[q].status =
                               IF all THEN "received"
                               ELSE IF ~none THEN "partially_received"
                               ELSE IF order'[q].status = "cancelled" THEN "cancelled" ELSE "ordered"
    BY <1>6 DEF StatusTellsWhatCame, NamesItemsOnce
  <2>1. /\ q \in Orders /\ q \in Created \ overlapped /\ ItemSet(q) \subseteq Items
        /\ \A i \in ItemSet(q) : received[i] = shelved[i] /\ received[i] <= Qty[i]
    BY <1>6, ItemsOfOrder DEF Created, StatusTellsWhatCame
  <2>2. CASE q # o
    <3>1. \A i \in ItemSet(q) : received'[i] = received[i] /\ shelved'[i] = shelved[i]
      BY <1>1, <1>10, <1>11, <2>1, <2>2, ItemsOfOrder
    <3>2. order'[q] = order[q]
      BY <1>6, <2>1, <2>2
    <3> QED
      BY <2>1, <3>1, <3>2 DEF StatusTellsWhatCame
  <2>3. CASE q = o
    <3>1. Fresh(w) /\ t.seen = order[o]
      BY <1>1, <1>5, <1>6, <2>3 DEF RequestOK, SeenOK
    <3>2. /\ \A i \in ItemSet(o) : t.qty[i] = received[i] + t.units[i]
          /\ \A i \in ItemSet(o) : t.units[i] > 0 => t.qty[i] <= Qty[i]
      BY <1>1, <2>3, <3>1 DEF RequestOK, CountOK, Counting
    <3>3. s = NewStatus(w)
      BY <1>2, <3>1 DEF s
    <3>4. ASSUME NEW i \in ItemSet(o)
          PROVE  received'[i] = t.qty[i] /\ shelved'[i] = t.qty[i] /\ t.qty[i] <= Qty[i]
      <4>1. i \in Items /\ Qty[i] \in Nat
        BY <2>1, <2>3, PurchasingAssumption
      <4>2. received[i] = shelved[i] /\ received[i] <= Qty[i]
        BY <2>1, <2>3
      <4> QED
        BY <1>4, <1>7, <3>2, <4>1, <4>2
    <3>5. PICK i \in Items : t.units[i] > 0 /\ i \in ItemSet(o)
      BY <1>2
    <3>6. received'[i] # 0
      BY <1>7, <3>2, <3>4, <3>5
    <3>7. (\A j \in ItemSet(o) : t.qty[j] >= Qty[j]) <=> (\A j \in ItemSet(o) : received'[j] = Qty[j])
      <4>1. \A j \in ItemSet(o) : t.qty[j] \in Nat /\ Qty[j] \in Nat
        BY <1>7, <2>1, <2>3, PurchasingAssumption
      <4> QED
        BY <3>4, <4>1
    <3> QED
      BY <1>6, <2>3, <3>3, <3>4, <3>5, <3>6, <3>7 DEF NewStatus
  <2> QED
    BY <2>2, <2>3
<1>16. ASSUME NEW v \in Workers \ {w} PROVE RequestOK(v)'
  <2>1. \A p \in Products : lock[p] # w => stock'[p] = stock[p]
    BY <1>4 DEF ShelfSeenBy
  <2>2. \A i \in Items \ ItemSet(o) : received'[i] = received[i]
    BY <1>10, <1>11
  <2> QED
    BY <1>3, <1>4, <1>5, <2>1, <2>2, OthersAfterWrite
<1> QED
  BY <1>4, <1>8, <1>9, <1>13, <1>14, <1>15, <1>16, FinishedRequest

\* Cancel keeps the invariant.
LEMMA CancelInv ==
    ASSUME IInv, NEW w \in Workers, Cancel(w)
    PROVE  IInv'
<1> USE DEF IInv
<1> DEFINE o == tx[w].order
<1>1. /\ tx[w].step = "cancel" /\ o \in Orders /\ tx[w].seen.status = "ordered"
  BY DEF Cancel, At, RequestOK, CreateOK, SeenOK
<1>2. "cancelled" \in Status \ {"none"} /\ tx[w].step \in Delivering \cup {"cancel"}
  BY <1>1 DEF Status
<1>3. /\ WriteOrder(w, "cancelled") /\ Finish(w)
      /\ UNCHANGED <<poCounter, received, stock, shelved, requests, crashes>>
  BY DEF Cancel
<1>4. /\ order' \in [Orders -> OrderRow] /\ order'[o].status = "cancelled"
      /\ \A q \in Orders \ {o} : order'[q] = order[q]
      /\ Created' = Created
      /\ overlapped' \subseteq Orders /\ overlapped \subseteq overlapped'
      /\ o \notin overlapped' => Fresh(w)
  BY <1>2, <1>3, OrderWritten
<1>5. TypeOK'
  BY <1>3, <1>4, FinishedRequest DEF TypeOK
<1>6. OrderNumbersGapFree'
  BY <1>2, <1>3, OrderWritten DEF OrderNumbersGapFree
<1>7. StockFollowsDeliveries'
  BY <1>3 DEF StockFollowsDeliveries
<1>8. NothingYet'
  BY <1>1, <1>3, <1>4 DEF NothingYet
<1>9. StatusTellsWhatCame'
  <2> SUFFICES ASSUME NEW q \in Created \ overlapped', NamesItemsOnce(q)
               PROVE  LET all == \A i \in ItemSet(q) : received[i] = Qty[i]
                          none == \A i \in ItemSet(q) : received[i] = 0
                      IN  /\ \A i \in ItemSet(q) : received[i] = shelved[i] /\ received[i] <= Qty[i]
                          /\ order'[q].status =
                               IF all THEN "received"
                               ELSE IF ~none THEN "partially_received"
                               ELSE IF order'[q].status = "cancelled" THEN "cancelled" ELSE "ordered"
    BY <1>3, <1>4 DEF StatusTellsWhatCame, NamesItemsOnce
  <2>1. q \in Created \ overlapped /\ q \in Orders
    BY <1>4 DEF Created
  <2>2. CASE q # o
    <3>1. order'[q] = order[q]
      BY <1>4, <2>1, <2>2
    <3> QED
      BY <2>1, <3>1 DEF StatusTellsWhatCame
  <2>3. CASE q = o
    <3>1. order[o].status = "ordered"
      BY <1>1, <1>2, <1>4, <2>3 DEF RequestOK, SeenOK
    <3> QED
      BY <1>4, <2>1, <2>3, <3>1 DEF StatusTellsWhatCame
  <2> QED
    BY <2>2, <2>3
<1>10. ASSUME NEW v \in Workers \ {w} PROVE RequestOK(v)'
  BY <1>2, <1>3, OthersAfterWrite
<1> QED
  BY <1>3, <1>5, <1>6, <1>7, <1>8, <1>9, <1>10, FinishedRequest
-----------------------------------------------------------------------------

\* Every step keeps the invariant.
LEMMA StepInv == IInv /\ [Next]_vars => IInv'
<1> SUFFICES ASSUME IInv, [Next]_vars PROVE IInv'
  OBVIOUS
<1>1. CASE UNCHANGED vars
  <2>1. UNCHANGED dbVars
    BY <1>1 DEF vars, dbVars
  <2>2. TypeOK'
    BY <1>1 DEF vars, IInv, TypeOK
  <2>3. ASSUME NEW w \in Workers PROVE RequestOK(w)'
    <3>1. RequestOK(w)
      BY DEF IInv
    <3> QED
      BY <1>1, <3>1, OtherRequest DEF IInv, vars, RequestOK, CreateOK, SeenOK
  <2> QED
    BY <2>1, <2>2, <2>3, TablesOnly DEF IInv
<1>2. ASSUME NEW w \in Workers, Serve(w) PROVE IInv'
  <2>1. CASE AbortDeadlock(w)
    BY <2>1, EndStep DEF AbortDeadlock, IInv, TypeOK
  <2> QED
    BY <1>2, <2>1, InsertOrderInv, ReadItemsInv, TakeEntryInv, FlushItemInv, RaiseStockInv,
       SetStatusInv, FlushStatusInv, CommitInv, CancelInv
       DEF Serve
<1>3. ASSUME NEW w \in Workers, Crash(w) PROVE IInv'
  BY <1>3, EndStep DEF Crash, IInv, TypeOK
<1> QED
  BY <1>1, <1>2, <1>3, NextOrderNoInv, ReadOrderInv, ReadForCancelInv DEF Next

\* The strengthened invariant holds of every behaviour.
THEOREM Inductive == Spec => []IInv
<1> QED
  BY InitInv, StepInv, PTL DEF Spec

\* Every table and every request keeps its type, for any number of handlers,
\* orders, items and products.
THEOREM TypeCorrect == Spec => []TypeOK
<1>1. IInv => TypeOK
  BY DEF IInv
<1> QED
  BY <1>1, Inductive, PTL

\* _next_order_no: placed orders bear the numbers 1..po_counter, each once, whatever
\* handlers die with a number in hand.
THEOREM GapFreeOrderNumbers == Spec => []OrderNumbersGapFree
<1>1. IInv => OrderNumbersGapFree
  BY DEF IInv
<1> QED
  BY <1>1, Inductive, PTL

\* receive_purchase_order: what is on the shelf is what committed deliveries
\* brought, under any interleaving of deliveries, deadlocks and crashes.
THEOREM StockIsDelivered == Spec => []StockFollowsDeliveries
<1>1. IInv => StockFollowsDeliveries
  BY DEF IInv
<1> QED
  BY <1>1, Inductive, PTL

\* On an order whose transactions never overlapped, qty_received is what came and
\* the status says how much of the order that is.
THEOREM StatusIsRight == Spec => []StatusTellsWhatCame
<1>1. IInv => StatusTellsWhatCame
  BY DEF IInv
<1> QED
  BY <1>1, Inductive, PTL

\* No order goes back to ordered, and a received or cancelled one changes only by a
\* transaction that read it before somebody else's commit.
THEOREM SettledOrdersStay == Spec => SettledStaysUnlessOverlapped
<1> DEFINE Kept == \A o \in Orders :
                      order'[o].status # order[o].status =>
                         /\ order'[o].status # "ordered" \/ order[o].status = "none"
                         /\ order[o].status \in {"received", "cancelled"} => o \in overlapped'
<1>1. ASSUME IInv, NEW w \in Workers, NEW s \in Status \ {"none"}, WriteOrder(w, s),
             tx[w].step \in Delivering \cup {"cancel"},
             s # "ordered" \/ s = order[tx[w].order].status
      PROVE  Kept
  <2> SUFFICES ASSUME NEW o \in Orders, order'[o].status # order[o].status
               PROVE  /\ order'[o].status # "ordered"
                      /\ order[o].status \in {"received", "cancelled"} => o \in overlapped'
    OBVIOUS
  <2>1. o = tx[w].order /\ order'[o].status = s
    BY <1>1, OrderWritten
  <2>2. Fresh(w) => order[o].status \in {"ordered", "partially_received"}
    BY <1>1, <2>1 DEF IInv, RequestOK, SeenOK
  <2>3. ~Fresh(w) => o \in overlapped'
    BY <1>1, <2>1, OrderWritten
  <2> QED
    BY <1>1, <2>1, <2>2, <2>3
<1>2. ASSUME IInv, NEW w \in Workers, Commit(w) PROVE Kept
  <2> DEFINE s == IF tx[w].status = "none" THEN order[tx[w].order].status ELSE tx[w].status
  <2>1. /\ tx[w].step = "flush" /\ tx[w].step \in Delivering /\ tx[w].order \in Orders
        /\ order[tx[w].order].status \in Status \ {"none"}
        /\ tx[w].status \in {"none", NewStatus(w)}
    BY <1>2 DEF Commit, At, IInv, TypeOK, OrderRow, RequestOK, CreateOK, SeenOK, BodyOK,
                Delivering, Counting
  <2>2. s \in Status \ {"none"} /\ (s # "ordered" \/ s = order[tx[w].order].status)
    BY <2>1 DEF NewStatus, Status
  <2>3. WriteOrder(w, s)
    BY <1>2 DEF Commit
  <2> HIDE DEF s, Kept
  <2> QED
    BY <1>1, <1>2, <2>1, <2>2, <2>3
<1>3. ASSUME IInv, NEW w \in Workers, Cancel(w) PROVE Kept
  <2> HIDE DEF Kept
  <2> QED
    BY <1>1, <1>3 DEF Cancel, At, Status
<1>4. ASSUME IInv, NEW w \in Workers, InsertOrder(w) PROVE Kept
  BY <1>4 DEF InsertOrder, At, IInv, TypeOK, RequestOK, CreateOK
<1>5. IInv /\ [Next]_vars => [Kept]_vars
  <2> SUFFICES ASSUME IInv, Next PROVE Kept
    OBVIOUS
  <2>1. UNCHANGED order => Kept
    OBVIOUS
  <2> HIDE DEF Kept
  <2> QED
    BY <1>2, <1>3, <1>4, <2>1
       DEF Next, Serve, Crash, ReadItems, TakeEntry, FlushItem, RaiseStock, SetStatus, FlushStatus,
           AbortDeadlock, NextOrderNo, ReadOrder, ReadForCancel, Begin, Runs, dbVars
<1> QED
  BY <1>5, Inductive, PTL DEF Spec, SettledStaysUnlessOverlapped
=============================================================================

------------------------------ MODULE Checkout ------------------------------
(***************************************************************************)
(* create_sale and adjust_stock as they run: request handlers interleave   *)
(* at every statement they await, each in one READ COMMITTED transaction.  *)
(* A read sees what is committed at that moment.  An UPDATE waits for the  *)
(* row, then computes the new row version from the committed one; the      *)
(* version is private to the transaction, and the row stays locked, until  *)
(* commit installs it or a rollback drops it.  A handler or its connection *)
(* can die at any statement; a client that got no sale resends the body.   *)
(***************************************************************************)
EXTENDS SaleTerms, RowLocks

CONSTANTS
    NoCart,
    Tenant,      \* the tenant row, which holds receipt_counter
    Deltas,      \* qty_delta values of manual stock adjustments
    MaxSubmits,  \* bound: requests the clients send
    MaxCrashes,  \* bound: handlers that die with a request in flight
    MaxAdjusts   \* bound: manual stock adjustments

ASSUME WorkerAssumption ==
    /\ IsFiniteSet(Workers) /\ Workers # {} /\ NoWorker \notin Workers
    /\ NoCart \notin Carts
    /\ Tenant \notin Products \cup Customers
    /\ Products \cap Customers = {}
    /\ Deltas \subseteq Int
    /\ MaxSubmits \in Nat /\ MaxCrashes \in Nat /\ MaxAdjusts \in Nat

VARIABLES
    sales,           \* committed rows of table sales
    receiptCounter,  \* tenants.receipt_counter
    stock,           \* products.stock_qty
    moved,           \* per product, the sum of qty_delta over stock_movements
    points,          \* customers.points_balance
    uses,            \* promotions.uses_count
    tx,              \* per worker, the request it serves
    answers,         \* per cart, every HTTP answer its client received
    submits, crashes, adjusts

dbVars == <<sales, receiptCounter, stock, moved, points, uses>>
countVars == <<submits, crashes, adjusts>>
vars == <<sales, receiptCounter, stock, moved, points, uses, lock, tx, answers,
          submits, crashes, adjusts>>

Rows == {Tenant} \cup Products \cup Customers

Steps == {"idle", "find", "customer", "promotions", "receipt", "insert",
          "lines", "points", "uses", "commit", "reply", "adjusted"}

\* The steps between taking the tenant row and commit.
HoldingSteps == {"insert", "lines", "points", "uses", "commit"}

Requests ==
    [step : Steps, cart : Carts \cup {NoCart},
     balance : Int,               \* points_balance as the handler read it
     applied : SUBSET Promos,     \* promotions the engine applied
     receipt : Nat, line : Nat \ {0},
     stock : [Products -> Int],   \* new versions of the locked product rows
     moved : [Products -> Int],   \* StockMovement rows added
     points : Int,                \* new version of the locked customer row
     used : [Promos -> Nat]]      \* uses_count as record_uses read it

Idle ==
    [step |-> "idle", cart |-> NoCart, balance |-> 0, applied |-> {},
     receipt |-> 0, line |-> 1, stock |-> [p \in Products |-> 0],
     moved |-> [p \in Products |-> 0], points |-> 0,
     used |-> [k \in Promos |-> 0]]

Init ==
    /\ sales = {}
    /\ receiptCounter = 0
    /\ stock = OpeningStock
    /\ moved = [p \in Products |-> 0]
    /\ points = OpeningPoints
    /\ uses = [k \in Promos |-> 0]
    /\ lock = [r \in Rows |-> NoWorker]
    /\ tx = [w \in Workers |-> Idle]
    /\ answers = [c \in Carts |-> {}]
    /\ submits = 0
    /\ crashes = 0
    /\ adjusts = 0

At(w, step) == tx[w].step = step

\* Worker w's request becomes r; the others stay as they are.
Becomes(w, r) == tx' = [tx EXCEPT ![w] = r]

-----------------------------------------------------------------------------
\* Variants of definitions below, each with a plausible bug that a property
\* must refute.  They are no part of the specification.

\* A refused request whose transaction is never ended.
AnswerKeepingRows(w, code, receipt) ==
    /\ answers' = [answers EXCEPT ![tx[w].cart] =
                      @ \cup {[code |-> code, receipt |-> receipt]}]
    /\ Becomes(w, Idle)
    /\ UNCHANGED <<dbVars, countVars, lock>>

\* A counter bumped by SELECT and a later write, without the row lock.
NextReceiptNoUnlocked(w) ==
    /\ At(w, "receipt")
    /\ Becomes(w, [tx[w] EXCEPT !.step = "insert",
                                !.receipt = receiptCounter + 1])
    /\ UNCHANGED <<dbVars, lock, answers, countVars>>

\* RETURNING the counter as it was.
NextReceiptNoStale(w) ==
    /\ At(w, "receipt")
    /\ lock[Tenant] \in {NoWorker, w}
    /\ lock' = [lock EXCEPT ![Tenant] = w]
    /\ Becomes(w, [tx[w] EXCEPT !.step = "insert",
                                !.receipt = receiptCounter])
    /\ UNCHANGED <<dbVars, answers, countVars>>

\* sales.client_uuid without its unique index.
InsertSaleNoIndex(w) ==
    /\ At(w, "insert")
    /\ Becomes(w, [tx[w] EXCEPT !.step = "lines"])
    /\ UNCHANGED <<dbVars, lock, answers, countVars>>

\* stock_qty lowered by the ORM: written back without waiting, from a row read before.
DecrementStockWrittenBack(w) ==
    LET line == Lines[tx[w].cart][tx[w].line]
        p == line.product
        shelf == IF lock[p] = w THEN tx[w].stock[p] ELSE stock[p]
    IN  /\ At(w, "lines")
        /\ p \in Tracked
        /\ lock' = [lock EXCEPT ![p] = w]
        /\ Becomes(w, [tx[w] EXCEPT !.stock = [tx[w].stock EXCEPT ![p] = shelf - line.qty],
                                    !.moved = [tx[w].moved EXCEPT ![p] = @ - line.qty],
                                    !.line = @ + 1,
                                    !.step = IF tx[w].line < Len(Lines[tx[w].cart]) THEN "lines"
                                             ELSE IF Buyer[tx[w].cart] # NoCustomer THEN "points"
                                             ELSE "uses"])
        /\ UNCHANGED <<dbVars, answers, countVars>>

\* The last line left out.
StepAfterLineOffByOne(w) ==
    LET c == tx[w].cart IN
    IF tx[w].line + 1 < Len(Lines[c]) THEN "lines"
    ELSE IF Buyer[c] # NoCustomer THEN "points" ELSE "uses"

\* The balance read at the start, written back by the ORM.
UpdatePointsStale(w) ==
    LET c == tx[w].cart IN
    /\ At(w, "points")
    /\ lock[Buyer[c]] \in {NoWorker, w}
    /\ lock' = [lock EXCEPT ![Buyer[c]] = w]
    /\ Becomes(w, [tx[w] EXCEPT !.points = tx[w].balance + PointsDelta(c, tx[w].applied),
                                !.step = "uses"])
    /\ UNCHANGED <<dbVars, answers, countVars>>

\* uses_count <= max_uses.
AppliedNowOffByOne(c) == {k \in Offers[c] : uses[k] <= MaxUses[k]}

\* redeem_points > customer.points_balance left out.
EnoughPointsAssumed(w) == TRUE

-----------------------------------------------------------------------------
\* Transactions.

\* The version of product p's row that w sees in its own UPDATE.
ShelfSeenBy(w, p) == IF lock[p] = w THEN tx[w].stock[p] ELSE stock[p]

\* The handler is done: its uncommitted work is gone and the client has the answer.
Answer(w, code, receipt) ==
    /\ answers' = [answers EXCEPT ![tx[w].cart] =
                      @ \cup {[code |-> code, receipt |-> receipt]}]
    /\ Becomes(w, Idle)
    /\ ReleaseRows(w)
    /\ UNCHANGED <<dbVars, countVars>>

-----------------------------------------------------------------------------
\* create_sale.

\* A client sends its body, for the first time or because it has no sale yet.
Submit(w, c) ==
    /\ At(w, "idle")
    /\ submits < MaxSubmits
    /\ \A a \in answers[c] : a.code # 200
    /\ Becomes(w, [Idle EXCEPT !.step = "find", !.cart = c])
    /\ submits' = submits + 1
    /\ UNCHANGED <<dbVars, lock, answers, crashes, adjusts>>

\* _find_by_client_uuid: a body that is already a sale gets that sale back.
FindSale(w) ==
    /\ At(w, "find")
    /\ \E s \in sales :
         /\ s.uuid = tx[w].cart
         /\ Becomes(w, [tx[w] EXCEPT !.step = "reply",
                                     !.receipt = s.receipt])
    /\ UNCHANGED <<dbVars, lock, answers, countVars>>

FindNoSale(w) ==
    /\ At(w, "find")
    /\ \A s \in sales : s.uuid # tx[w].cart
    /\ IF Lines[tx[w].cart] = <<>>
       THEN Answer(w, 400, 0)
       ELSE /\ Becomes(w, [tx[w] EXCEPT !.step = "customer"])
            /\ UNCHANGED <<dbVars, lock, answers, countVars>>

\* _resolve_checkout reads the customer, and with it the points balance.
ReadCustomer(w) ==
    LET buyer == Buyer[tx[w].cart] IN
    /\ At(w, "customer")
    /\ Becomes(w, [tx[w] EXCEPT !.step = "promotions",
                                !.balance = IF buyer = NoCustomer THEN 0 ELSE points[buyer]])
    /\ UNCHANGED <<dbVars, lock, answers, countVars>>

\* The promotions the engine finds valid for the cart: max_uses not reached.
AppliedNow(c) == {k \in Offers[c] : uses[k] < MaxUses[k]}

\* The redeem_points check, on the balance read earlier.
EnoughPoints(w) ==
    LET c == tx[w].cart IN
    \/ Redeem[c] = 0
    \/ /\ Buyer[c] # NoCustomer
       /\ LoyaltyEnabled
       /\ Redeem[c] <= tx[w].balance

\* load_for_engine, resolve, the totals and the points check.
ResolveCheckout(w) ==
    LET c == tx[w].cart
        applied == AppliedNow(c)
        accepted == /\ Coupons[c] \subseteq applied
                    /\ Total[c][applied] >= 0
                    /\ EnoughPoints(w)
    IN  /\ At(w, "promotions")
        /\ \/ /\ accepted
              /\ Becomes(w, [tx[w] EXCEPT !.step = "receipt",
                                          !.applied = applied])
              /\ UNCHANGED <<dbVars, lock, answers, countVars>>
           \/ ~accepted /\ Answer(w, 400, 0)

\* _next_receipt_no: UPDATE tenants SET receipt_counter + 1 RETURNING.
NextReceiptNo(w) ==
    /\ At(w, "receipt")
    /\ TakeRow(w, Tenant)
    /\ Becomes(w, [tx[w] EXCEPT !.step = "insert",
                                !.receipt = receiptCounter + 1])
    /\ UNCHANGED <<dbVars, answers, countVars>>

\* The INSERT INTO sales of the flush, under the unique index on client_uuid.
\* The IntegrityError is raised outside the handler's try: the client gets a 500.
InsertSale(w) ==
    /\ At(w, "insert")
    /\ \/ /\ \A s \in sales : s.uuid # tx[w].cart
          /\ Becomes(w, [tx[w] EXCEPT !.step = "lines"])
          /\ UNCHANGED <<dbVars, lock, answers, countVars>>
       \/ /\ \E s \in sales : s.uuid = tx[w].cart
          /\ Answer(w, 500, 0)

\* After the last line the customer's points move, if there is a customer.
StepAfterLine(w) ==
    LET c == tx[w].cart IN
    IF tx[w].line < Len(Lines[c]) THEN "lines"
    ELSE IF Buyer[c] # NoCustomer THEN "points" ELSE "uses"

\* One resolved line: the atomic stock decrement and its StockMovement.
DecrementStock(w) ==
    LET line == Lines[tx[w].cart][tx[w].line]
        p == line.product
    IN  /\ At(w, "lines")
        /\ p \in Tracked
        /\ TakeRow(w, p)
        /\ Becomes(w, [tx[w] EXCEPT !.stock = [tx[w].stock EXCEPT ![p] = ShelfSeenBy(w, p) - line.qty],
                                    !.moved = [tx[w].moved EXCEPT ![p] = @ - line.qty],
                                    !.line = @ + 1,
                                    !.step = StepAfterLine(w)])
        /\ UNCHANGED <<dbVars, answers, countVars>>

SkipUntracked(w) ==
    /\ At(w, "lines")
    /\ Lines[tx[w].cart][tx[w].line].product \notin Tracked
    /\ Becomes(w, [tx[w] EXCEPT !.line = @ + 1,
                                !.step = StepAfterLine(w)])
    /\ UNCHANGED <<dbVars, lock, answers, countVars>>

\* points_balance - points_redeemed + points_earned, in one UPDATE.
UpdatePoints(w) ==
    LET c == tx[w].cart IN
    /\ At(w, "points")
    /\ TakeRow(w, Buyer[c])
    /\ Becomes(w, [tx[w] EXCEPT !.points = points[Buyer[c]] + PointsDelta(c, tx[w].applied),
                                !.step = "uses"])
    /\ UNCHANGED <<dbVars, answers, countVars>>

\* record_uses reads the rows again, not the objects of load_for_engine: nothing keeps
\* those in the session.  Commit writes back the count it read plus one.
RecordUses(w) ==
    /\ At(w, "uses")
    /\ Becomes(w, [tx[w] EXCEPT !.used = uses,
                                !.step = "commit"])
    /\ UNCHANGED <<dbVars, lock, answers, countVars>>

\* COMMIT installs the sale and every new row version at once.
Commit(w) ==
    LET t == tx[w] IN
    /\ At(w, "commit")
    /\ sales' = sales \cup {SaleRow(t.cart, t.receipt, t.applied)}
    /\ receiptCounter' = t.receipt
    /\ stock' = [p \in Products |-> ShelfSeenBy(w, p)]
    /\ moved' = [p \in Products |-> moved[p] + t.moved[p]]
    /\ points' = [m \in Customers |-> IF lock[m] = w THEN t.points ELSE points[m]]
    /\ uses' = [k \in Promos |-> IF k \in t.applied THEN t.used[k] + 1 ELSE uses[k]]
    /\ Becomes(w, [tx[w] EXCEPT !.step = "reply"])
    /\ ReleaseRows(w)
    /\ UNCHANGED <<answers, countVars>>

Reply(w) == At(w, "reply") /\ Answer(w, 200, tx[w].receipt)

-----------------------------------------------------------------------------
\* adjust_stock: one atomic UPDATE with its StockMovement, then commit.

AdjustStock(w, p, d) ==
    /\ At(w, "idle")
    /\ adjusts < MaxAdjusts
    /\ TakeRow(w, p)
    /\ Becomes(w, [Idle EXCEPT !.step = "adjusted",
                               !.stock = [Idle.stock EXCEPT ![p] = ShelfSeenBy(w, p) + d],
                               !.moved = [Idle.moved EXCEPT ![p] = d]])
    /\ adjusts' = adjusts + 1
    /\ UNCHANGED <<dbVars, answers, submits, crashes>>

CommitAdjust(w) ==
    /\ At(w, "adjusted")
    /\ stock' = [p \in Products |-> ShelfSeenBy(w, p)]
    /\ moved' = [p \in Products |-> moved[p] + tx[w].moved[p]]
    /\ Becomes(w, Idle)
    /\ ReleaseRows(w)
    /\ UNCHANGED <<sales, receiptCounter, points, uses, answers, countVars>>

-----------------------------------------------------------------------------
\* The handler or its connection dies: the database rolls back, nobody is answered.
Crash(w) ==
    /\ ~At(w, "idle")
    /\ crashes < MaxCrashes
    /\ Becomes(w, Idle)
    /\ ReleaseRows(w)
    /\ crashes' = crashes + 1
    /\ UNCHANGED <<dbVars, answers, submits, adjusts>>

\* What worker w does by itself once it has a request.
Serve(w) ==
    \/ FindSale(w) \/ FindNoSale(w) \/ ReadCustomer(w) \/ ResolveCheckout(w)
    \/ NextReceiptNo(w) \/ InsertSale(w) \/ DecrementStock(w) \/ SkipUntracked(w)
    \/ UpdatePoints(w) \/ RecordUses(w) \/ Commit(w) \/ Reply(w) \/ CommitAdjust(w)

Next ==
    \E w \in Workers :
        \/ \E c \in Carts : Submit(w, c)
        \/ Serve(w)
        \/ \E p \in Products, d \in Deltas : AdjustStock(w, p, d)
        \/ Crash(w)

Spec == Init /\ [][Next]_vars

\* The event loop keeps running every handler, and a row lock is granted to those
\* waiting for it in turn: a wait that ends again and again ends for each waiter.
Fairness == \A w \in Workers : SF_vars(Serve(w))

FairSpec == Spec /\ Fairness

-----------------------------------------------------------------------------
\* Properties.

\* Every variable keeps its type; a balance may be negative, a counter never.
TypeOK ==
    /\ sales \in SUBSET SaleRows
    /\ receiptCounter \in Nat
    /\ stock \in [Products -> Int]
    /\ moved \in [Products -> Int]
    /\ points \in [Customers -> Int]
    /\ uses \in [Promos -> Nat]
    /\ lock \in [Rows -> Workers \cup {NoWorker}]
    /\ tx \in [Workers -> Requests]
    /\ answers \in [Carts -> SUBSET [code : {200, 400, 500}, receipt : Nat]]
    /\ submits \in Nat
    /\ crashes \in Nat
    /\ adjusts \in Nat

\* Receipts are consecutive: the committed sales bear the numbers 1..counter,
\* each once.  The counter is taken before the sale is inserted, so a number
\* must come back whenever the checkout that took it is refused or dies.
ReceiptsGapFree ==
    /\ {s.receipt : s \in sales} = 1 .. receiptCounter
    /\ \A s, t \in sales : s.receipt = t.receipt => s = t

\* A body resent after a lost answer, by two handlers at once or after a crash,
\* is one sale, and every client told "sold" was told that sale's receipt.
OneSalePerCart ==
    /\ \A s, t \in sales : s.uuid = t.uuid => s = t
    /\ \A c \in Carts : \A a \in answers[c] :
         a.code = 200 => \E s \in sales : s.uuid = c /\ s.receipt = a.receipt

\* stock_qty is the running total of the ledger of stock movements, whatever
\* checkouts and adjustments run into each other on the product.
StockMatchesLedger ==
    \A p \in Products : stock[p] = OpeningStock[p] + moved[p]

\* A customer's balance is what the committed sales say it is: no checkout's
\* points are lost, counted twice, or kept after its transaction is gone.
PointsMatchSales ==
    \A m \in Customers :
        points[m] = OpeningPoints[m]
                    + Sigma([s \in sales |-> s.earned - s.redeemed],
                            {s \in sales : Buyer[s.uuid] = m})

\* uses_count counts the committed sales the promotion discounted, although
\* record_uses reads it and writes it back as a number.
UsesMatchSales ==
    \A k \in Promos : uses[k] = Cardinality({s \in sales : k \in s.applied})

\* max_uses is checked on a count read before the sale is serialised.  What is
\* left of the limit: only the other handlers' checkouts in flight can pass it.
UsesOvershootBounded ==
    \A k \in Promos : uses[k] < MaxUses[k] + Cardinality(Workers)

\* The points check reads a balance that other checkouts may spend before this
\* one does; each of the other handlers can overdraw by one redemption at most.
OverdraftBounded ==
    \A m \in Customers :
        LET largest == Max({0} \cup {Redeem[c] : c \in {d \in Carts : Buyer[d] = m}})
        IN  points[m] + largest * (Cardinality(Workers) - 1) >= 0

\* The interleaved handlers implement the one-step sales of SaleBook.
Book == INSTANCE SaleBook WITH
            sales <- sales, receiptCounter <- receiptCounter, stock <- stock,
            points <- points, uses <- uses
ImplementsSaleBook == Book!Spec

\* No request hangs: whoever waits for a row gets it, and every handler that
\* has a request comes to its end.
RequestsFinish == \A w \in Workers : ~At(w, "idle") ~> At(w, "idle")

\* The comment at the unique-violation handler: a submission that lost the race
\* to a concurrent one of the same client_uuid is given the existing sale.
DuplicateGetsTheSale ==
    \A c \in Carts : \A a \in answers[c] : a.code # 500
=============================================================================

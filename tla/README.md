# A verification development for the BubusuperPOS backend

The backend (`src/app`, Python, FastAPI with SQLAlchemy's async ORM on
PostgreSQL) serves small shops: a point of sale with stock, promotions, points,
refunds and purchase orders, and a micro-finance arm ("turbo") with income
estimates, loans, shop insurance, parametric claims and branches of champions who
look after the shops. This directory holds
TLA+ modules that model its services, TLC configurations that check them on
small instances, and proofs that TLAPS checks for every instance.

    tlc -config Checkout.cfg MCCheckout        # one run
    tlapm CheckoutProofs.tla                   # the proofs of one module

`PROJECT.json` lists every run, the lines of `src/` each definition models, a
mutant of the model for each property (a bug that the property detects), the
hazards of the code and the findings.

## 1. How the program executes

Everything here follows from four facts about the code.

* **One process, one event loop, many handlers.** A request handler runs until
  it awaits the database; any other handler may run then. Nothing in the
  services takes an in-process lock.
* **One transaction per request**, READ COMMITTED, on a session that
  `app/core/db.py` closes (and so rolls back) when the handler ends in any way
  other than its own `commit()`. An exception is an answer 400, 404 or 500 and no
  change; a crash is the same without the answer.
* **Two kinds of write.** `update(Product).values(stock_qty=Product.stock_qty - n)`
  is computed by PostgreSQL from the committed row after waiting for the row's
  lock. `obj.attr += n` is computed by Python from a row read earlier, and the ORM
  sends the *value* in its next flush. The code mixes both; which one it uses
  where decides most of what holds.
* **Autoflush.** Every `SELECT` or `UPDATE` the session executes first sends the
  pending changes, so the order in which row locks are taken is not the order of
  the statements in the source. No model declares a `relationship()`, so in one
  flush rows of different tables go out in either order, rows of one table in
  primary-key order.

The modules share this reading of PostgreSQL (`RowLocks`): an `UPDATE` takes the
row until the end of the transaction and others wait for it; an `INSERT` under a
unique index waits for a transaction that inserted the same key; a cycle of waits
is broken by aborting one waiter. A transaction's new row versions are private to
it (fields of `tx[w]`, in `Promotions` of `session[w]`) until `Commit` installs them in the database variables.
Every action is one stretch of a handler from one await to the next; stretches
that wait for nothing and that no other handler can observe are merged, as each
module's header says.

## 2. Inventory

| component | state | operations | what it meets | hard behaviour | must hold | status |
|---|---|---|---|---|---|---|
| Checkout (`sales_service`) | sales, `tenants.receipt_counter`, stock, points, promotion uses | create_sale, preview_sale | stock ledger, promotions, refunds | offline queue resends bodies; reads before locks; ORM write-back | one sale per body, gap-free receipts, stock = ledger, points and uses = sales | **modelled**, safety and refinement proved |
| Stock ledger (`inventory_service`) | `products.stock_qty`, stock_movements | adjust_stock | checkout, refund, receipt | two writes of one fact | running total = ledger | **modelled**, proved |
| Refunds (`refund_service`) | refunds, refund_items, `sale.refunded_total`, `refunded_qty` | refund_sale | stock ledger | everything but stock is written back from an unlocked read; deadlocks | one refund per body, money and units add up | **modelled**, safety proved |
| Purchase orders | orders, items, `po_counter` | create, receive, cancel | stock ledger | as refunds; cancel against receive | numbers gap-free, stock = deliveries, status tells what came | **modelled**, safety proved |
| Promotion counters, promotions (`promotion_service`) | promotions, their targets, `uses_count` | create, update, deactivate, load_for_engine, record_uses | checkout | limit checked early, counted late; targets are replaced row by row | uses = sales; bounded overshoot; the targets of one edit | **modelled**, proved |
| Promotion engine, pricing | none (pure) | resolve, calc_totals | checkout, preview | the best of several promotions; lines that are split | independent of the order of rows; no unit or satang lost | **modelled**, proved |
| Loans (`loan_service`, `loan_review_service`) | applications, events, accounts, installments | apply, views (which run the clock), fast-forward, advance, reject, disburse, pay; quote and schedule | champions, tenants, a clock driven by reads | stale clock against locked decisions; counts as keys; rounding, short months | money leaves once and after approval; people act on the latest status; the review ends; the schedule repays the loan | **modelled**, safety and the schedule proved |
| Insurance, claims, daily close | policies, claims, closes | quote, purchase, detect, create_claim, close_day, reopen_day | each other, sales | a day is reopened while it is claimed; nothing locks | no day paid twice | **modelled**, proved |
| Income, credit | none (pure reads) | profile, streak, tier | loans, insurance | days of the shop against days of UTC | no revenue left out | **partly** (volatility is not), proved |
| Reports (`report_service`) | none (pure reads) | summary, series, by staff, by method, best sellers, comparison | everyone's sales | the same sales cut in many ways | the tables add up to each other | **modelled**, proved |
| Notifications, jobs | settings, notifications, deliveries, alert states | create, dispatch, sweeps, mark read | channels outside, stock, the scheduler | send before commit; overlapping sweeps; a count as a key | each spell told once; tries bounded; everything sent or given up | **modelled**, safety proved |
| Failure limiter (`rate_limit`) | failures per key, in memory | check, record, clear, evict | logins, public forms | check, await, record; a full table | guesses bounded | **modelled**, proved |
| Staff, accounts, logins | users, tokens | create, update, signup, login, pin_login, refresh | limiter | read, await a hash, write | never without an owner; distinct PINs | **modelled**, proved |
| Branch, O2O leads | branches, prospects, leads | champion signup, prospects, respond, leaderboard, public quote forms | limiter, quotes | two champions of a branch write one row | the leaderboard scores what was done | **partly** (list_nearby is not), proved |
| Tokens, tenancy and permissions | none | a token carries a role | everyone | a role that changed since the token was issued | - | **partly** |
| Barcodes | counter, product.barcode | assign, bulk | catalogue | read, allocate, write | unique and valid labels | planned |
| Catalogue, customers, lookup, audit log, schemas, routes, scripts | single rows, or none | CRUD, reads | everyone | none of their own | - | not modelled (see 7) |

Components meet only through the database, but for the failure limiter, which is
memory of the process. The shared rows are the tenant (receipt
and order counters), the product (`stock_qty`), the customer (points) and the
promotion (uses): these are the `Rows` of the modules.

## 3. The modules

| module | models | its actions |
|---|---|---|
| `RowLocks` | PostgreSQL's row locks, deadlock test | operators `TakeRow`, `ReleaseRows`, `InDeadlock` |
| `SaleTerms` | the fixed data of a shop's checkouts and the sale row a body becomes | operators |
| `SaleBook` | the **abstract specification**: a checkout is one indivisible `Sell` | `Sell`, `Adjust` |
| `Checkout` | `create_sale` and `adjust_stock` await by await | `Submit`, `FindSale`, `FindNoSale`, `ReadCustomer`, `ResolveCheckout`, `NextReceiptNo`, `InsertSale`, `DecrementStock`, `SkipUntracked`, `UpdatePoints`, `RecordUses`, `Commit`, `Reply`, `AdjustStock`, `CommitAdjust`, `Crash` |
| `Refunds` | `refund_sale` | `Submit`, `FindRefund`, `ReadSale`, `ReadItems`, `UpdateItem`, `ReadPriorRefunds`, `InsertRefund`, `Restock`, `Commit`, `Reply`, `AbortDeadlock`, `MoveStock`, `Crash` |
| `Loans` | applications, the clock, reviews, accounts, payments | `Apply`, `InsertApplication`, `Tick`, `View`, `FastForward`, `AutoAdvance`, `LoadForUpdate`, `Review`, `RefuseReview`, `Disburse`, `CountAccounts`, `OpenAccount`, `RefuseAccount`, `ReadInstallment`, `CountUnpaid`, `Settle`, `Crash` |
| `Purchasing` | purchase orders | `NextOrderNo`, `InsertOrder`, `ReadOrder`, `ReadItems`, `TakeEntry`, `FlushItem`, `RaiseStock`, `SetStatus`, `FlushStatus`, `Commit`, `ReadForCancel`, `Cancel`, `AbortDeadlock`, `Crash` |
| `PromotionEngine` | `promotion_engine` and `pricing` | operators `Resolve`, `CalcTotals` |
| `Promotions` | the promotions of a shop, edited while tills price carts | `CreatePromotion`, `ReadPromotion`, `FlushColumns`, `RefuseCode`, `ReadTargets`, `Commit`, `DeactivatePromotion`, `LoadPromotions`, `LoadTargets`, `Answer` |
| `Reports` | `report_service` | operators, one per report |
| `LoanQuotes` | caps of a quote, amortization, the public quotes | operators `Quote`, `BuildSchedule`, `PublicLoanQuote`, `PublicInsuranceQuote` |
| `TurboDays` | daily close, income, credit, insurance, claims | `Ring`, `DeactivateProduct`, `CloseDay`, `ReopenDay`, `WriteDay`, `ReadSales`, `ReadCloses`, `AnswerQuote`, `BuyFlat`, `CheckPolicies`, `IssuePolicy`, `ReadClaims`, `ReadEvidence`, `PayClaim`, `Tick` |
| `Notifications` | settings, notices, deliveries, the jobs and the scheduler | `RunSweep`, `InsertSettings`, `ReadStates`, `FlushStates`, `CreateNote`, `DispatchNote`, `RunDispatch`, `Send`, `RecordSends`, `UpdateSettings`, `MarkRead`, `StockMoves`, `Tick`, `Crash` |
| `FailureLimiter` | `rate_limit` | operators `Blocked`, `Checked`, `RecordFailure`, `Clear` |
| `Accounts` | staff, signup, logins, tokens | `CreateStaff`, `InsertStaff`, `UpdateStaff`, `CheckStaff`, `ScanPins`, `WriteStaff`, `Signup`, `BeginLogin`, `AnswerLogin`, `Refresh`, `Tick`, `Restart` |
| `Branches` | champions, prospects, leads, leaderboard, public forms | `JoinBranch`, `OpenBranch`, `CommitChampion`, `CreateProspect`, `ReadProspect`, `WriteProspect`, `DeleteProspect`, `ReadLead`, `WriteLead`, `PublicForm` |
| `Sums` | sums of a column over rows | operator `Sigma` |
| `DataTheorems` | lemmas about sums, sums by groups, least and largest elements and sequences, for the proofs | |
| `CheckoutProofs` | theorems about `Checkout`, among them that it implements `SaleBook` | |
| `RefundsProofs`, `PurchasingProofs`, `LoansProofs`, `NotificationsProofs` | theorems about the module of that name | |
| `ShopProofs` | theorems about `TurboDays`, with the reports and quotes it extends, and about `Promotions` | |
| `PeopleProofs` | theorems about `FailureLimiter`, `Accounts` and `Branches` | |
| `MCCheckout`, `MCRefunds`, `MCLoans`, `MCPurchasing`, `MCPromotions`, `MCTurboDays`, `MCNotifications`, `MCBranches` | instances for TLC | |

Composition: `Checkout` uses `SaleTerms` and `RowLocks` and is shown to implement
`SaleBook` (`INSTANCE SaleBook WITH ...`); `Promotions` extends `PromotionEngine` and
`RowLocks`; `TurboDays` extends `Reports` and `LoanQuotes`, since income is a report of
sales and a credit offer is a quote under the tier that income earns; `Branches` extends
`Accounts`, which extends `FailureLimiter`: their handlers share users, workers and the
limiter's memory and run against each other. `ShopProofs` extends both `TurboDays` and
`Promotions`, which share nothing; so the latter's state, actions and specification have
names of their own (`session`, `PromoInit`, `PromoNext`, `PromoSpec`).

How state corresponds: a table is a set of records (`sales`, `refunds`) or a
function over its ids (`sale`, `order`, `app`), a column is a field or a function
(`stock`, `points`, `uses`), a session is `tx[w]` with the step its handler has
reached and what it has read, the row locks are `lock`, and a client's memory is
`answers`. Ghost state, which no code reads, is marked where it is declared: `log`
of Loans is the events table, but `hurried`, `after`, `shelved`, `writes` and
`overlapped` exist for properties only; so do `commits`, `read` and `wrote` of TurboDays,
`spell`, `alone`, `clean`, `tries` and `out` of Notifications, and `spent`, `forgotten`,
`changes`, `raced`, `happened` and a row's `version` in Accounts and Branches.

Each module has a section of *variants*: definitions with a plausible bug, used by
the mutants of `PROJECT.json` and by nothing else.

### Checkout

A worker picks up a body (`Submit`), looks for a sale of that client_uuid, reads
the customer, resolves promotions and totals (the engine and `calc_totals` are
given as `Offers` and `Total`), takes a receipt number from the tenant row, which
it holds until commit, inserts the sale, decrements stock line by line, moves
points, reads the promotions again for `record_uses`, and commits. The tenant row
serialises the second half of all checkouts of a shop; the first half, with its
points and `max_uses` checks, is not serialised. That is why `UsesMatchSales` is
exact although `record_uses` is a read-modify-write, and why `max_uses` and the
balance hold only up to what the other handlers had in flight.

### Refunds and purchase orders

Both read an order-like row and its items without a lock, check every entry
against them, add to the items in memory, and raise stock atomically. What is
atomic always holds (`StockFollowsRefunds`, `StockFollowsDeliveries`); what is
written back holds only if the transactions on that row did not overlap. The models
record overlap, and the properties say exactly what remains true without it
(`MoneyAddsUp`, `UnitsAddUp`, `StatusTellsWhatCame`) and with it
(`SettledStaysUnlessOverlapped`). A body that names an item twice is checked entry by
entry against the same remainder and can pass it; both instances contain one, and
the properties about quantities exclude it.

### Loans

Champions and `disburse` use `SELECT ... FOR UPDATE`; the clock does not, and moves
an application whenever somebody reads it. `PeopleActOnTheLatest` holds for people
and, by design of the code, not for the clock, which is finding 3. `OneActiveAccount`
rests on the partial unique index. The account number is a count of all accounts
plus one, read before the INSERT; since `account_number` is unique, the index
rejects every disbursal whose count went stale (the check for an active account and the
count are statements of their own, `Disburse` and `CountAccounts`): it serialises disbursals of all
tenants, and the numbers come out gap-free.

### Promotions

`PromotionEngine` is the pure part: which promotions hold at a moment (window, weekdays,
hours that may pass midnight, uses), what each is worth on a line, the winner, the parts
a line is split into, a stackable coupon on top, and `calc_totals` with VAT in or on top.
`Promotions` runs it: a till reads the promotions in one statement and their targets in
the next, and the query has no `ORDER BY`, so `LoadTargets` hands the engine every order.
`BestPromotionWins` compares the engine's left-to-right search with the definition of a
winner. An edit flushes the changed columns before it reads the old targets, so an edit
that changes a column holds the row and a second edit waits; one that changes none holds
nothing, and two of those can leave the targets of both (`TargetsOfOneRequest`).

### A shop's days

`TurboDays` has one clock in hours and days of the shop that start `Offset` hours before
those of UTC. Requests read sales, closes, policies and claims in statements of their own
and insert one row; commits are numbered so that `ClaimsSound` can say "overlapped"
precisely: each of two read before the other wrote. `ReportsAgree` holds the reports
against one another in every state a run reaches. `active` is the products that are on
sale: `deactivate_product` takes one out and leaves its sales in the books, so
`get_best_sellers` still lists it and adds up to the summary's items, while
`get_worst_sellers` (`report_service.py:358`) drops it and adds up only to what best
sellers says of products still on sale. Days add up to their week in items and tax
exactly, and in profit but for the rounding of each summary. `SchedulePaysOff` is about every
quote that is answered, and bounds an offer by the limit of the tier that the tenant's
streak and on-time payments have reached. What the last installment differs by from the others is stated as what
their roundings can grow to (`WithinRounding`) and not as a number of satang: a satang
early in a long loan at a high rate is many by its end, and a loan of fewer satang than it
has installments repays nothing in some of them. At 2 % a month over
a year the bound is 13 satang.

### Notices

A sweep reads stock and alert states, inserts or updates the states, counts the digests
of the day for a key, and inserts a notice that does nothing on a key already used; what
it flushed is committed all the same. The dispatch of a notice is a SELECT after that
commit (`DispatchNote`), so a job or a crash may come between. A dispatch reads deliveries, sends one after the
other and commits once at the end with `attempts` reckoned from its read. The
scheduler runs one instance of each job; buttons run them beside it. `DigestsSound` and
`DeliveriesBounded` say what holds and name the overlap, or the crash between send and
commit, that voids the rest. The shipped `CHANNELS` holds only the in-app channel, which
cannot fail; the instance registers one that pushes, as the `Protocol` foresees,
because the retry code is there for it.

### People

Staff changes read, count the owners, scan the PINs, hash, and write; a login asks the limiter, verifies, and counts.
`StaffSound` says which requests must not overlap for the last owner and the PINs to
be safe; `LimitsHold` allows one guess more per handler that was verifying meanwhile;
a public form asks and tells in one step and is exact. `LeaderboardTrue` compares the
columns the leaderboard counts with the events themselves.

## 4. What the runs check

| run | instance and bounds | shows |
|---|---|---|
| `checkout` | 2 handlers, 5 bodies, 3 requests, 1 crash, 1 adjustment | 8 invariants, `ImplementsSaleBook` (refinement), `RequestsFinish` (liveness) |
| `checkout_duplicate` | 2 handlers, as above | **violation**: a duplicate in flight is answered 500 (finding 1) |
| `refunds` | 2 handlers, 4 bodies on 2 sales, 3 requests, 1 crash, 1 other stock move | 5 invariants, `RefundsFinish` |
| `refunds_running_total` | the same | **violation**: an overlapping refund is lost from `refunded_total` (finding 2) |
| `loan_review` | 1 application, 2 handlers, 2 presses of a button, times 0, 2, 3, 5 | 3 invariants, `ReviewEnds` |
| `loan_accounts` | 3 applications of 2 tenants, 2 installments, 1 crash | `OneActiveAccount`, `ClosedMeansPaid` |
| `loan_rejection` | as `loan_review`, 1 press | **violation**: the clock revives a rejected application (finding 3) |
| `purchasing` | 2 orders, 4 items on 3 products, 2 handlers, 5 requests, 1 crash | 4 invariants, `SettledStaysUnlessOverlapped`, `DeliveriesFinish` |
| `promotions` | shelves of 2 of 10 promotions and a coupon, 5 carts; on two of the shelves 2 edits meet the till | `TargetsOfOneRequest`, `BestPromotionWins`, `NothingLostInTheSplit` |
| `turbo_days` | 2 handlers, 3 days of 3 hours, 2 books of sales and closes with 1 and 3 requests, 5 loan requests | `ReportsAgree`, `SchedulePaysOff`, `ClaimsSound` |
| `notices` | 2 workers, 4 scenes with up to 4 presses, 2 channels, 2 tries, 1 crash, days of 3 hours | `DigestsSound`, `DeliveriesBounded`, `AlertsArrive` (liveness) |
| `people` | 2 handlers, 4 scenes with 4 or 5 requests, 2 failures in 2 instants, a table of 2 keys, 1 restart | `StaffSound`, `LimitsHold`, `LeaderboardTrue` |

**Why the bounds are enough.** Every interference in this code is between two
transactions: one reads, another commits, the first writes. Two handlers produce
all of those, and three requests let a third transaction see what the two left
(the lost-answer resend, the refund that empties a sale after an overlap). A
cycle of waits needs two handlers and two rows taken in opposite orders, which the
instances of Refunds and Purchasing contain. One crash suffices because a crash
leaves no trace but a rolled-back transaction. Quantities are one, two or three,
so that part, all and too much are distinct; amounts are in fractions of a satang
so that rounding differs between one refund and two; `doc_review` lasts two ticks
so that a late clock stops half-way through a stage. `Moments` skips ticks, so that
the clock is late. Purchasing allows five requests so that an order can be created,
received in part, received again by two overlapping deliveries, and cancelled.
Prices of 333 and 1000 satang and discounts of 15 % and 601 divide into nothing evenly;
the shelves hold every pair of promotions, because the engine compares two at a time,
with two of equal worth, two codes that differ in case, one that passes midnight and one
used up. A day has three hours of which one falls on another day in UTC, so every sale
near midnight is met on both sides; the loan requests hit each cap and start on the last
days of long months, in a leap year and not. A limit of two failures within two instants
has a key that is one below, at and past its limit, and a table of two keys is full with
the third; in Notifications, two tries separate "tried again" from "given up" and three
hours give a day its quiet, its poll and its night.

**Scenes.** Where a product of everything would be too large and mostly the same, an
instance starts from one of several *scenes* (`MCNotifications`, `MCBranches`) or *books*
(`MCTurboDays`): data the program can have reached, chosen so that each interference
meets what it can interfere with. Every action fires in some scene.

**Bounds by name.** `MaxSubmits`, `MaxRequests`, `MaxPresses`: requests that clients
send; `MaxCrashes`: handlers that die; `MaxAdjusts`, `MaxMoves`: stock moves from
elsewhere; `Moments`, `LastPress`: the times at which anything happens and the last
at which people act; `MaxCarts`, `EditsFrom`: carts priced, and edits made by shelf;
`FirstHour`, `LastHour`, `LastInstant`: when the clock starts and stops; `MaxRestarts`:
restarts; a scene's `presses`, `requests`: what people still do. `MaxTracked`, `Limits`,
`MaxAttempts`, `Repeat`, `DayLength`, `Week`, `Month` are constants of the code, given
small values. `CHECK_DEADLOCK FALSE` is set because all of these run out and a
quiet shop is no error; whether a handler can get stuck is what the liveness
properties ask.

**Fairness.** `SF_vars(Serve(w))` per handler: the event loop resumes every handler
whose statement has returned (weak fairness of each step), and PostgreSQL queues
those who wait for a row in turn, so a handler whose row becomes free again and
again gets it (strong fairness). Clients, crashes and adjustments have no fairness.
Loans adds `WF_vars(Tick)` (time goes on) and strong fairness of the view of each
application: the code's clock runs only when somebody reads, so the claim that a
review ends is conditional on somebody looking, and this states the condition.
Notifications has `WF_vars(Tick)`, `SF_vars` of each job's run by the scheduler, which
polls every few minutes and skips a poll while the job still runs (strong, because a run is
possible between two runs only), and `SF_vars(Work(w))` of each started job. People's
buttons and crashes have no fairness, and `AlertsArrive` is claimed only where
`scheduler_enabled` is set. The other modules have no liveness to claim: their
handlers wait for no one, or at most for one row.

**Symmetry** is used in runs without a liveness property: `loan_accounts` (handlers, and
the two applications of one tenant), `promotions` and `turbo_days` (handlers). `notices`
and `people` have none.

## 5. What is proved

Each theorem holds for every value of the constants that the modules' named assumptions
allow: any number of bodies, products, orders, applications, users and so on, any bound
on what is sent, and any settings. `Inductive` (`Spec => []IInv`), where a module has it,
is the theorem that the others of the module follow from.

| theorem | property | about |
|---|---|---|
| `CheckoutProofs!TypeCorrect` | `TypeOK` | |
| `CheckoutProofs!GapFreeReceipts` | `ReceiptsGapFree` | committed receipts are exactly 1..counter, each once |
| `CheckoutProofs!IdempotentCheckout` | `OneSalePerCart` | one sale per body, every "sold" answer names it |
| `CheckoutProofs!StockIsLedger` | `StockMatchesLedger` | running total = opening stock + movements |
| `CheckoutProofs!UsesAreSales` | `UsesMatchSales` | `uses_count` = the sales that name the promotion |
| `CheckoutProofs!PointsAreSales` | `PointsMatchSales` | a balance = opening balance + what its sales moved |
| `CheckoutProofs!OvershootIsBounded` | `UsesOvershootBounded` | `max_uses` is passed by less than the number of handlers |
| `CheckoutProofs!OverdraftIsBounded` | `OverdraftBounded` | so is a balance, by one redemption for each handler but one |
| `CheckoutProofs!Refinement` | `ImplementsSaleBook` | every step of `Checkout` is a step of `SaleBook` or a stutter |
| `RefundsProofs!TypeCorrect` | `TypeOK` | |
| `RefundsProofs!EachBodyRefundedOnce` | `OneRefundPerBody` | a resent refund is one refund |
| `RefundsProofs!ShelvesFollowRefunds` | `StockFollowsRefunds` | stock = other moves + what refunds brought back |
| `RefundsProofs!UnitsOfRefundsAddUp` | `UnitsAddUp` | no item returned more than bought, unless refunds overlapped |
| `RefundsProofs!MoneyOfRefundsAddsUp` | `MoneyAddsUp` | paid back in full once emptied, to the satang, unless refunds overlapped |
| `PurchasingProofs!TypeCorrect` | `TypeOK` | |
| `PurchasingProofs!GapFreeOrderNumbers` | `OrderNumbersGapFree` | |
| `PurchasingProofs!StockIsDelivered` | `StockFollowsDeliveries` | stock = what deliveries brought, overlapping or not |
| `PurchasingProofs!StatusIsRight` | `StatusTellsWhatCame` | status and counts agree, unless deliveries overlapped |
| `PurchasingProofs!SettledOrdersStay` | `SettledStaysUnlessOverlapped` | **action property**: a settled order changes only by a stale write |
| `LoansProofs!TypeCorrect` | `TypeOK` (of that module) | |
| `LoansProofs!OneAccountAtATime` | `OneActiveAccount` | per tenant |
| `LoansProofs!ClosedAccountsArePaid` | `ClosedMeansPaid` | |
| `LoansProofs!MoneyFollowsApproval` | `AccountsAreApproved` | money leaves once, and after an approval |
| `LoansProofs!PeopleSeeTheLatest` | `PeopleActOnTheLatest` | a person's decision starts from the status it found |
| `LoansProofs!TheClockDoesNotDrift` | `ClockKeepsTime` | stages follow each other on schedule however late the clock is read |
| `ShopProofs!ClaimsStaySound` | `ClaimsSound` | a day is paid once and a product insured once, unless the requests overlapped; what a claim pays, from which day; what is proposed is what is accepted |
| `ShopProofs!ReportsStayAgreed` | `ReportsAgree` | staff, methods, best sellers and days each add up to the summary, and the worst sellers to the products still on sale, whatever was sold and taken off sale since; the income profile to the month |
| `ShopProofs!SchedulesPayOff` | `SchedulePaysOff` | the schedule of an offer repays it, to the satang, for any amount, rate, term and date |
| `ShopProofs!OneListOfTargets` | `TargetsOfOneRequest` | the targets of a promotion are one request's list, unless edits overlapped that change no column |
| `ShopProofs!BestAlwaysWins` | `BestPromotionWins` | each item is charged as the promotion worth most on it says, in whatever order the rows come |
| `ShopProofs!NothingIsLost` | `NothingLostInTheSplit` | items = charge + reported discounts + manual ones, to the unit and the satang; without a code, the reported ones are what the winners were ranked by |
| `NotificationsProofs!TriesAreBounded` | `DeliveriesBounded` | tries and sends of a delivery, unless dispatches overlapped or one died |
| `NotificationsProofs!DigestsTell` | `DigestsSound` | digests of low stock, unless sweeps overlapped |
| `PeopleProofs!GuessesAreLimited` | `LimitsHold` | wrong guesses within the window |
| `PeopleProofs!ShopsKeepOwners` | `StaffSound` | the last owner, distinct PINs, kinds of accounts |
| `PeopleProofs!TheLeaderboardIsTrue` | `LeaderboardTrue` | its score = the events of the week, unless a row was written on a stale read |

### Assumptions

They give constants their types, keep rows of different tables and null values apart, and
stand with names (`...Assumption`) in the modules that declare the constants; TLC
evaluates each in a run. Those that say more than a type:

* `DaysAssumption` of TurboDays: the days that requests name and the installments paid are
  finite sets, a book's sales are a finite set of sale rows, the first tier asks for no
  payment (`resolve_tier` never refuses a shop with a streak), and a loan request is what
  `LoanQuoteRequest` accepts, about a product of positive term and on a date that exists.
* `ReportsAssumption`: a shop has finitely many products, and `Week > 1`, as today is
  compared with yesterday.
* `Workers` is finite in Checkout, Accounts and Branches (bounds count handlers), `Carts` in
  Checkout and `Items` in Refunds (sums range over them). A process has finitely many.
* A `body` of Refunds or Purchasing may name an item twice; nothing excludes it but the
  properties that say so.
* `ScenesAssumption` of Notifications: a behaviour starts before the first notice, and so
  with no alert row that a digest would have told of. Stock and alert rows are any.
* `ScenesAssumption` of Accounts: it starts with a table of users for which `StaffSound` holds
  (shops with an active owner, distinct PINs), and no failures. An induction needs a start;
  what is proved is that no request leads out of there.
* `EditsAssumption` of Promotions: a body sets each column to a value of the column's type.
* `PromotionsAssumption`: the shop may have finitely many promotions (`IsFiniteSet(Ids)`), as a statement
  returns finitely many rows; carts are finite sequences of items of at least one unit.
* `RowsAssumption` of Branches: it starts with rows that no champion has touched, so that the
  record of what happened is complete.

### The arguments

**Checkout.** None of the properties is inductive alone. `RequestOK(w)` says what a handler's
private state means: past `receipt` it holds the tenant row and its number is
counter + 1 (so no other handler can commit a sale before it, and a rollback gives
the number back); past `insert` no committed sale has its client_uuid; for each row
it has locked its private stock is the committed stock plus its own movements, and
it has no movement where it holds no lock; at `commit` the uses it read are still the
committed ones, since only a holder of the tenant row writes them. `IsFiniteSet(sales)`
is needed for the cardinality in `UsesMatchSales`. One lemma per
action; `PrivateStep` and `EndStep` carry the steps that touch nothing but the
handler's own state, respectively end it. The other modules are laid out the same way.

**`SaleBook`.** `Commit` maps to `Sell`, `CommitAdjust` to `Adjust`, everything else to a stutter:
for this a handler at its commit must hold exactly the stock, points and uses that `Sell`
computes from the committed ones (`BookOK`: the movements so far are those of the lines so
far, the new balance is the old one plus the sale's points). The two bounds are counting
arguments over handlers in flight. `UsesLeft` adds to `uses[k]` those who resolved
with `k` and have not committed: a handler joins them only when `uses[k]` is below `MaxUses[k]`,
and then the others among them are fewer than the handlers. `PointsLeft` does so with the sum of what
handlers whose read of the balance covered it will redeem.

**Refunds.** What a request has read (`ReadOK`) is as it was *if* no refund of
the sale has committed since, which is what the committed refunds' `after` records; what is
atomic (`ShelfOK`) holds without that condition. `NamesOnce` is the condition that a body names an item
once. The amount a last refund pays is reckoned from
all refunds before it, so `MoneyAddsUp` needs sums over the table before and
after a commit.

**Purchasing.** The number is as in Checkout; `SeenOK`, `BodyOK` and `CountOK` are the version of the
order and of its items that a delivery has in hand; `writes` makes "nobody interfered"
a comparison of two numbers. `StockOK` splits a delivery's units in those on the shelf
and the one counted and not yet there.

**Loans.** `PersonOK`: who reads `FOR UPDATE` holds the row, so what it read is the row. The clock has
no lock; of its stale row `ClockOK` says only that it was on time. `DisbursalsOK` and
`OneActiveAccount` rest on the two unique indexes; `count <= Cardinality(Opened)` says that a stale
count can only be too small, which the index refuses. `LogOK` makes the first event the one
of `apply`.

**Promotions.** A request that has sent its UPDATE or INSERT holds the promotion's row to its
commit, and so is the only one of its kind; at its commit it has read every row of targets that such
requests wrote, since the others have waited (`EditOK`). That an edited rule is a rule is needed
to know that a promotion is never gone again, and with it that a new one has no targets yet.

**Prices.** `TillsInv` adds of a till that its answer is `PriceCart` of what it has found, in some
order (`TillOK`); the rest is about the engine. The order in which promotions are preferred is
strict and, between different ids, total (`BeatsOrders`), so one pass over the rows finds the one
promotion that beats all other candidates (`BetterStep`, `PassFindsBest`, by induction on the
length of the list), and it is the one that `WinnerOf` defines (`WinnerIsBest`). An item becomes at most
two lines that share its units and its cost (`BuiltSplit`: a rest of a division for groups and
gifts, and a bundle's discount is that of one group as many times), a coupon on top keeps
that (`LaidSplit`), and what the lines of a cart add up to is what those of its items do
(`FlattenAddsUp`). `applied_promotions` cuts the lines that are discounted into groups, so
`SigmaByGroups` says that it reports all that is taken off (`ReportedIs`): a line with a discount always
names its promotion (`SoundLines`).

**Claims.** Every policy and claim is *stamped* with the number of the commits before its check
read and before it was written (`Stamped`); of two that are distinct, the later one's request
had read all that was written before its read (`SeenClaims`, and none of its product for a
policy), so either it saw the earlier one or they overlapped. `Insured` keeps a claim's
benefit and first day those of its policy, which no request changes. That proposals are what is accepted
needs no invariant: a run of consecutive open days has a first and a last, as days are finite.

**Reports.** Nothing is invariant but the types (`BookOK`). Each table cuts the same finite set
of sales into groups, and `SigmaByGroups` says that the sums of the groups add up to the sum; for products,
the set is that of the items of all sales, and for the worst sellers that of the items of
products still on sale. The window's days are the range of the period.

**Schedules.** `QuotesInv` says that an answer is `Quote` of its request under the limit of
the tenant's tier. The rest is arithmetic of what the program reckons row by row. `Power` and the rest of the loan are
recursive functions, which are shown to exist and to satisfy their equations by induction on
an interval (`UpTo`, `Steps`). An installment pays at least the interest of the whole
(`HalfUpMonotone`, `EachIs`), so the debt never grows (`NoneAdds`). `Nearly` is
the invariant of the rows: a times b^k times the debt differs from what exact
arithmetic with the same installment gives by at most half of b((a+b)^k - b^k), with the rate a / b; one
more row multiplies that by a + b and adds half of a b^(k+1) (`RoundingGrows`).

**Notifications.** `SendInv`: a dispatch that has a *clean* delivery in hand is the only one, and the
attempts it read are those made. `DigestInv`: every sweep that is alone has read after every
digest made alone (`AfterDigest`), so what it finds low is either the alert row that
digest left or a spell that is newer; `KeysOK` numbers the digests of a day from 0, so that a lone sweep's
count is a free key.

**People.** `Remembers`: within the window the limiter's list equals the record of all failures, for
every key that was not dropped; `GuessesBounded` adds the handlers that are verifying to the
failures, and a check admits one only below the limit. `StaffInv`: while no shop has lost an
owner since a request read (`changes` as it was), the row it read is an owner's or there
is another. `RoundsInv`: columns of a row hold the latest of its events (the first answer, for a
lead) unless a write was stale, and a handler's copy has an older `version` or is the row.

**Sums.** The library's induction theorems take a predicate, which the provers cannot instantiate.
`DataTheorems` proves induction over the subsets of one finite set from the theorem that the
subset order on them is well-founded, and with it the facts used of `Sigma`: of the empty
set, one element more or less, equal terms, non-negative terms. `Sigma` itself is the community
modules' fold.

### Only model-checked

* **Liveness:** `RequestsFinish`, `RefundsFinish`, `DeliveriesFinish`, `ReviewEnds`, `AlertsArrive`. They need
  ENABLED of `Serve(w)`, which the prover cannot reason about.
* Of `LoanQuotes` the quotes that a public form gets for insurance.
* The three runs that expect a violation are about what does not hold.

## 6. Findings

1. `sales_service.py:245`: the flush raises the unique violation of a concurrent
   duplicate before the `try` around `commit()` that would turn it into the existing
   sale. The client gets a 500; a resend gets the sale. `refund_service.py` has the same
   shape (`InsertRefund` answers 500).
2. `refund_service.py:165`: `refunded_total` (and `refunded_qty`, line 113) is written
   back from an unlocked read.
3. `loan_service.py:353`: the clock writes over a rejection that it did not see.

Seen while modelling, stated in the models and by an explicit condition such as "did not
overlap", with no run of their own:

* `purchase_order_service.py:108`, 132, 148: `qty_received` and the order's status are
  written back like a refund's totals, so an order can be both cancelled and stocked.
* A refund or delivery body that names an item twice passes the remaining quantity.
* `loan_service.py:703`: the last two installments paid at once leave the account active
  for ever, since neither payment's count sees the other.
* `jobs/scheduler.py:6-11` says that a concurrent double run is harmless. Two sweeps for low
  stock that overlap can list a product twice, or compute one key, after which
  the second one's products count as alerted and nobody is told. `DigestsSound` excepts them.
* `notification_dispatch.py:42`: a crash after a send and before the commit sends again.
* `claim_service.py:66` takes the policy's first day in UTC, although
  `credit_service.py:42-46` says to convert always; `ClaimsSound` allows that one day.
* `models/turbo/insurance.py:53-54` speaks of a zero-revenue day, but sales on a day that
  was closed "sick" do not stop a claim of it.
* `turbo_config.py:19-21` says that tiers 2 and 3 are not implemented; lines 28-31 are them.
* A stackable coupon laid on an automatic promotion is booked under the latter;
  `buy_n_for_price` with a remainder drops a manual discount; two valid codes that differ
  in case alone are the same coupon, and which is used hangs on the order of the rows; the
  hours and weekdays of a promotion are compared in UTC.
* `api/v1/staff.py:84`: two owners who demote each other at once leave the shop without
  one; two PINs set at once can meet. `StaffSound` excepts them.
* `branch_service.py`: two champions who are the first to name a new branch code race,
  and the loser's flush is answered 500.
* The login limiter's keys are lower-case addresses, while accounts tell cases
  apart; its memory is lost on a restart, and a full table drops the key touched
  longest ago (`LimitsHold` excepts it).

## 7. What is not modelled, and why

* Wording, formatting, JSON schemas, routes, migrations, seed scripts.
* Catalogue, customers, suppliers, categories: independent single-row writes. The
  product update schema cannot touch `stock_qty`, so it does not meet the ledger. Only
  `deactivate_product` is modelled (`TurboDays`), since a report tells it apart.
* `Checkout` leaves out the refusals of an unknown customer or product
  (`sales_service.py:81-89`): they end a request before it has written anything.
* A body of `Checkout` names the promotion that the engine would grant it, and is sold
  without it once it is used up; that the engine then chooses another promotion for the same cart
  (`promotion_service.py:136-171`) is not represented there. The choice itself is checked in `Promotions`.
* `Loans.Apply` looks for an application in flight (line 226) and for the last rejection (line 233)
  in one step: a rejection or a tick between the two is not represented. A rejection
  can only add to the refusals; what the two reads leave stale by the time of the INSERT is
  represented (`InsertApplication`), two applications side by side included.
* The stripping of promotion codes and empty values of columns.
* Barcodes: two statements on a product and a counter, and a check digit; planned.
* Product lookup is a cache before an outside service. The audit log is one row in the same
  transaction; its `SELECT` flushes, and that is accounted for in the order of the locks.
* The volatility of income (a standard deviation that is only displayed) and
  `list_nearby` (distances on a sphere): real-valued, and read by nothing that decides.
* Tokens: signature and expiry (12 hours, longer than any behaviour) are left out; a token
  is its holder and the role at its issue. Of the permissions `manage_staff` is modelled.
  Every module is about one tenant, except Loans, whose account numbers are global.
* Notifications: the branch that marks a delivery of a retired channel as skipped, since
  migration `9c4b1f7ad203` deleted the rows that could reach it.
* `Checkout` takes the engine's result as given (`Offers`, `Total` of `SaleTerms`); the engine
  is checked on its own in `Promotions`, where the promotions are whole.
* AI and messaging providers are outside services.
* The read committed isolation level, row locks and the deadlock detector are
  external: modelled from how the services use them.

## 8. Plan

Done: all modules of section 3, the runs of section 4 and the proofs of section 5, which
cover every safety invariant that a run checks, one action property and one refinement.

Next:

1. An abstract `RefundBook` that refunds in one step, which `Refunds` implements when no refunds of a
   sale overlap; an application as a path in `_ALLOWED_TRANSITIONS`, which `Loans` implements except
   for the clock's stale steps.

Modelling that is left: `Barcodes`.

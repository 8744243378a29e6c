------------------------------- MODULE Reports -------------------------------
(***************************************************************************)
(* The sales reports of a shop, over the set of its sales at a moment.     *)
(* Pure: no state.  Instants count hours in UTC and days are numbered from *)
(* the first; the shop's clock is ahead of UTC.  Money is in satang.       *)
(***************************************************************************)
EXTENDS Sums, SequencesExt, Functions

CONSTANTS
    Goods,        \* the shop's products, those it no longer sells included
    Methods,      \* payment_method
    Staff,
    DayLength,    \* hours in a day
    Offset,       \* hours by which the tenant's timezone is ahead of UTC
    Week, Month,  \* days in the periods 7d and 30d
    QtyScale,     \* a multiple of every quantity sold, to divide without a remainder
    NoPercent     \* revenue_diff_pct left null

SaleStatus == {"completed", "void", "partially_refunded", "refunded"}
SaleItem == [product : Goods, qty : Nat \ {0}, refunded : Nat, total : Nat, cost : Nat]
SaleRecord ==
    [id : Nat, at : Nat, method : Methods, user : Staff, total : Nat, refunded : Nat,
     tax : Nat, status : SaleStatus, items : Seq(SaleItem)]

ASSUME ReportsAssumption ==
    /\ DayLength \in Nat \ {0} /\ Offset \in 0 .. DayLength - 1
    /\ Week \in Nat \ {0, 1} /\ Month \in Nat \ {0}
    /\ IsFiniteSet(Goods)
    /\ QtyScale \in Nat \ {0}

\* n / d to the nearest whole, halves away from zero.
RoundMoney(n, d) ==
    IF n >= 0 THEN (2 * n + d) \div (2 * d) ELSE -((d - 2 * n) \div (2 * d))

-----------------------------------------------------------------------------
\* A variant of LocalDay with a bug that a property must refute: the day of UTC.
LocalDayOfUtc(t) == t \div DayLength

-----------------------------------------------------------------------------
\* tenant_local_timezone: the shop's day of an instant, and the instant its day begins.
LocalDay(t) == (t + Offset) \div DayLength
DayStart(day) == day * DayLength - Offset

\* The half-open range of instants of a period: a tuple of its name and, for custom,
\* its first and last day.
LocalDateRange(first, last) == DayStart(first) .. DayStart(last + 1) - 1

PeriodBounds(period, now) ==
    LET today == LocalDay(now) IN
    CASE period[1] = "today"     -> LocalDateRange(today, today)
      [] period[1] = "yesterday" -> LocalDateRange(today - 1, today - 1)
      [] period[1] = "7d"        -> LocalDateRange(today - (Week - 1), today)
      [] period[1] = "30d"       -> LocalDateRange(today - (Month - 1), today)
      [] period[1] = "custom"    -> LocalDateRange(period[2], period[3])

\* The sales that count, and what is left of an item after refunds.  RemainingTotal
\* is in units of 1 / QtyScale satang.
Reportable(sales, range) ==
    {s \in sales : s.status \in {"completed", "partially_refunded"} /\ s.at \in range}

RemainingQty(item) == item.qty - item.refunded
RemainingTotal(item) == item.total * RemainingQty(item) * (QtyScale \div item.qty)

Revenue(sales) == Sigma([s \in sales |-> s.total - s.refunded], sales)

SumOfItems(op(_), sales) ==
    LET OfSale(s) == Sigma([i \in DOMAIN s.items |-> op(s.items[i])], DOMAIN s.items)
    IN  Sigma([s \in sales |-> OfSale(s)], sales)

\* get_summary
Summary(sales, period, now) ==
    LET counted == Reportable(sales, PeriodBounds(period, now))
        Margin(item) == RemainingTotal(item) - item.cost * RemainingQty(item) * QtyScale
    IN  [sales |-> Cardinality(counted),
         revenue |-> Revenue(counted),
         profit |-> RoundMoney(SumOfItems(Margin, counted), QtyScale),
         items |-> SumOfItems(RemainingQty, counted),
         tax |-> Sigma([s \in counted |-> s.tax], counted)]

\* get_daily_series and get_daily_series_by_payment_method: one point for each of the
\* last `days` days, oldest first.  A method without sales on a day has no entry.
Window(days, now) == [i \in 1 .. days |-> LocalDay(now) - days + i]

OnDay(sales, days, now, day) ==
    {s \in Reportable(sales, LocalDateRange(LocalDay(now) - days + 1, LocalDay(now))) :
        LocalDay(s.at) = day}

DailySeries(sales, days, now) ==
    [i \in 1 .. days |->
        LET ofDay == OnDay(sales, days, now, Window(days, now)[i])
        IN  [day |-> Window(days, now)[i], sales |-> Cardinality(ofDay), revenue |-> Revenue(ofDay)]]

DailySeriesByMethod(sales, days, now) ==
    [i \in 1 .. days |->
        LET ofDay == OnDay(sales, days, now, Window(days, now)[i])
        IN  [m \in {s.method : s \in ofDay} |-> Revenue({s \in ofDay : s.method = m})]]

\* get_sales_by_staff and get_sales_by_payment_method, as functions: the order of the
\* rows in the answer is by revenue.
GroupOf(sales) == [sales |-> Cardinality(sales), revenue |-> Revenue(sales)]

SalesByStaff(sales, period, now) ==
    LET counted == Reportable(sales, PeriodBounds(period, now))
    IN  [u \in {s.user : s \in counted} |-> GroupOf({s \in counted : s.user = u})]

SalesByMethod(sales, period, now) ==
    LET counted == Reportable(sales, PeriodBounds(period, now))
    IN  [m \in {s.method : s \in counted} |-> GroupOf({s \in counted : s.method = m})]

\* get_best_sellers and get_worst_sellers: any list the ORDER BY and the LIMIT allow.
\* The first knows what was sold, still active or not, the second every active product.
SoldOf(sales, period, now, product) ==
    LET Qty(item) == IF item.product = product THEN RemainingQty(item) ELSE 0
        Total(item) == IF item.product = product THEN RemainingTotal(item) ELSE 0
        counted == Reportable(sales, PeriodBounds(period, now))
    IN  [product |-> product, qty |-> SumOfItems(Qty, counted), revenue |-> SumOfItems(Total, counted)]

\* The sequences of rows, cut off at the limit, that rise by quantity times sign.
Listings(rows, limit, sign) ==
    {SubSeq(s, 1, Min({limit, Len(s)})) :
        s \in {q \in SetToSeqs(rows) : \A i, j \in DOMAIN q : i < j => sign * q[i].qty <= sign * q[j].qty}}

BestSellers(sales, period, now, limit) ==
    LET counted == Reportable(sales, PeriodBounds(period, now))
        sold == {p \in Goods : \E s \in counted : \E i \in DOMAIN s.items : s.items[i].product = p}
    IN  Listings({SoldOf(sales, period, now, p) : p \in sold}, limit, -1)

\* A variant with a bug that a property must refute: what is sold no more is listed too.
WorstSellersOfAll(sales, active, period, now, limit) ==
    Listings({SoldOf(sales, period, now, p) : p \in Goods}, limit, 1)

WorstSellers(sales, active, period, now, limit) ==
    Listings({SoldOf(sales, period, now, p) : p \in active}, limit, 1)

\* compare_periods; the percentage is a pair, numerator over denominator.
ComparePeriods(sales, a, b, now) ==
    LET before == Summary(sales, b, now).revenue
        diff == Summary(sales, a, now).revenue - before
    IN  [diff |-> diff, percent |-> IF before = 0 THEN NoPercent ELSE <<diff * 100, before>>]
=============================================================================

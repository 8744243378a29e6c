------------------------------ MODULE TurboDays ------------------------------
(***************************************************************************)
(* A shop's days as its insurance and its credit see them: the days it     *)
(* sold, the days it closed and why, the policies it bought on its income  *)
(* and the claims it made for days of illness.  Nothing locks: every       *)
(* request reads what it needs in several statements and inserts a row.    *)
(* Its last statement, its audit row and COMMIT are one step, as they wait *)
(* for nothing in between.                                                 *)
(***************************************************************************)
EXTENDS Reports, LoanQuotes

CONSTANTS
    Handlers,
    Days,            \* the days that requests name
    Reasons,         \* closed_reason, and CLAIMABLE_CLOSE_REASONS
    Claimable,
    NoClose,
    Cash,            \* the payment method nobody can verify
    CashWeight, BenefitRatio,  \* CASH_CREDIT_WEIGHT, DAILY_BENEFIT_RATIO: fractions
    StreakRequired,  \* STREAK_DAYS_REQUIRED
    Tiers,           \* per tier, the on-time payments it takes and its credit limit
    Grace,           \* LOAN_LATE_GRACE_DAYS
    PaidInstallments,\* the installments paid on earlier loans
    Covers,          \* insurance products: their kind and flat_monthly_premium
    LoanRequests,    \* what tenants ask a loan quote for
    Books,           \* what a behaviour may start with: sales, closes and,
                     \* a bound, how many requests arrive
    Receipts,        \* sales that tills may add
    FirstHour, LastHour  \* bounds: the hours in which something happens

Tier == [payments : Nat, limit : Nat]
Date == {d \in Int \X (1 .. 12) \X (1 .. 31) : d[3] <= DaysIn(d[1], d[2])}
LoanRequest ==
    [product : LoanProduct, amount : Nat \ {0}, collateral : Nat, term : Nat \ {0}, today : Date]

ASSUME DaysAssumption ==
    /\ Days \subseteq Nat /\ IsFiniteSet(Days)
    /\ Claimable \subseteq Reasons
    /\ Cash \in Methods
    /\ Receipts \subseteq SaleRecord
    /\ StreakRequired \in Nat
    /\ Tiers \in Seq(Tier) /\ Tiers # <<>> /\ Tiers[1].payments = 0
    /\ IsFiniteSet(PaidInstallments)
    /\ LoanRequests \subseteq LoanRequest
    /\ \A b \in Books : b.sales \subseteq SaleRecord /\ IsFiniteSet(b.sales)
    /\ FirstHour \in Nat /\ LastHour \in Nat

VARIABLES
    now,       \* hours in UTC
    sales,
    active,    \* is_active: the products still sold
    closes,    \* per day, its row of turbo_daily_closes
    policies, claims,
    commits,   \* policies and claims ever inserted; no column
    tx,        \* per worker, the request it serves
    requests   \* requests still to arrive

vars == <<now, sales, active, closes, policies, claims, commits, tx, requests>>

Idle ==
    [step |-> "idle", id |-> 0,     \* its number among the requests
     began |-> 0,                   \* when the transaction began: func.now()
     read |-> 0,                    \* commits when it read what its check rests on
     day |-> 0, reason |-> "", seen |-> {}, use |-> <<>>, benefit |-> 0,
     first |-> 0, last |-> 0, policy |-> 0, answer |-> <<>>]

Init ==
    /\ now = FirstHour
    /\ \E b \in Books : sales = b.sales /\ closes = b.closes /\ requests = b.requests
    /\ active = Goods /\ policies = {} /\ claims = {} /\ commits = 0
    /\ tx = [w \in Handlers |-> Idle]

At(w, step) == tx[w].step = step
Becomes(w, r) == tx' = [tx EXCEPT ![w] = r]
Today == LocalDay(now)
Begun(step) ==
    [Idle EXCEPT !.step = step, !.id = requests, !.began = now, !.read = commits]

Arrives(w) ==
    /\ At(w, "idle") /\ requests > 0
    /\ requests' = requests - 1

-----------------------------------------------------------------------------
\* get_income_profile: a day is recorded if it has sales or was closed.  Averages are
\* pairs, a sum over the days recorded.
Recorded(points, closed, i) == DOMAIN points[i].split # {} \/ points[i].day \in closed

DayTotal(point) == Sigma(point.split, DOMAIN point.split)
CashOf(point) == IF Cash \in DOMAIN point.split THEN point.split[Cash] ELSE 0

\* The recorded days at the end of the window.
Streak(points, closed) ==
    LET n == Len(points)
    IN  Max({k \in 0 .. n : \A i \in n - k + 1 .. n : Recorded(points, closed, i)})

OnTimePayments ==
    Cardinality({p \in PaidInstallments : LocalDay(p.paidAt) <= p.due + Grace})

\* resolve_tier: 0 is no tier.
ResolveTier(streak, onTime) ==
    IF streak < StreakRequired THEN [tier |-> 0, limit |-> 0]
    ELSE LET tier == Max({k \in DOMAIN Tiers : onTime >= Tiers[k].payments})
         IN  [tier |-> tier, limit |-> Tiers[tier].limit]

IncomeProfile(points, closed) ==
    LET days == {i \in DOMAIN points : Recorded(points, closed, i)}
        total == Sigma([i \in days |-> DayTotal(points[i])], days)
        cash == Sigma([i \in days |-> CashOf(points[i])], days)
        n == Max({1, Cardinality(days)})
        streak == Streak(points, closed)
    IN  [days |-> Cardinality(days), streak |-> streak, average |-> <<total, n>>,
         verified |-> <<total - cash, n>>, ratio |-> <<total - cash, total>>,
         weighted |-> <<(total - cash) * CashWeight[2] + cash * CashWeight[1], n * CashWeight[2]>>,
         zeroDays |-> {points[i].day : i \in {j \in days : DayTotal(points[j]) = 0}},
         tier |-> ResolveTier(streak, OnTimePayments)]

SeriesPoints(days) ==
    LET split == DailySeriesByMethod(sales, days, now)
    IN  [i \in 1 .. days |-> [day |-> Window(days, now)[i], split |-> split[i]]]

\* list_closes
ListCloses(days) == {d \in Days : closes[d] # NoClose /\ d >= Today - (days - 1)}

-----------------------------------------------------------------------------
\* A till commits a sale, which asks of no product whether it is active; create_sale
\* is module Checkout.
Ring ==
    \E s \in Receipts :
        /\ \A r \in sales : r.id # s.id
        /\ sales' = sales \cup {[s EXCEPT !.at = now]}
        /\ UNCHANGED <<now, active, closes, policies, claims, commits, tx, requests>>

\* deactivate_product: what was sold of it stays in the books.
DeactivateProduct(w) ==
    \E p \in Goods :
        /\ Arrives(w)
        /\ active' = active \ {p}
        /\ UNCHANGED <<now, sales, closes, policies, claims, commits, tx>>

\* close_day and reopen_day read the row of the day.
CloseDay(w) ==
    \E d \in Days, reason \in Reasons :
        /\ Arrives(w) /\ d <= Today
        /\ Becomes(w, [Begun("day") EXCEPT !.day = d, !.reason = reason, !.seen = {closes[d]}])
        /\ UNCHANGED <<now, sales, active, closes, policies, claims, commits>>

ReopenDay(w) ==
    \E d \in Days :
        /\ Arrives(w) /\ closes[d] # NoClose
        /\ Becomes(w, [Begun("reopen") EXCEPT !.day = d, !.seen = {closes[d]}])
        /\ UNCHANGED <<now, sales, active, closes, policies, claims, commits>>

\* The row of the day after the request's statement.  A DELETE or an UPDATE finds the
\* row that was read or none, an INSERT fails on another row; a reason that does not
\* change is not sent.  A failure is answered 500 and changes nothing.
RowAfter(t, row) ==
    LET read == CHOOSE r \in t.seen : TRUE
        mine == read # NoClose /\ row # NoClose /\ row.id = read.id
    IN  CASE t.step = "reopen" /\ mine -> NoClose
          [] t.step = "day" /\ mine /\ t.reason # read.reason -> [row EXCEPT !.reason = t.reason]
          [] t.step = "day" /\ read = NoClose /\ row = NoClose -> [id |-> t.id, reason |-> t.reason]
          [] OTHER -> row

WriteDay(w) ==
    /\ tx[w].step \in {"day", "reopen"}
    /\ closes' = [closes EXCEPT ![tx[w].day] = RowAfter(tx[w], @)]
    /\ Becomes(w, Idle)
    /\ UNCHANGED <<now, sales, active, policies, claims, commits, requests>>

\* quote of an insurance or a loan: the sales of the last Month days, then the closes.
ReadSales(w) ==
    \E use \in {c \in Covers : c.kind = "daily_income"} \cup LoanRequests :
        /\ Arrives(w)
        /\ Becomes(w, [Begun("profile") EXCEPT !.use = use, !.seen = {SeriesPoints(Month)}])
        /\ UNCHANGED <<now, sales, active, closes, policies, claims, commits>>

\* The benefit of a policy is a share of the average day.
DailyBenefit(profile) ==
    HalfUp(profile.average[1] * BenefitRatio[1], profile.average[2] * BenefitRatio[2])

ReadCloses(w) ==
    LET profile == IncomeProfile(CHOOSE p \in tx[w].seen : TRUE, ListCloses(Month))
        use == tx[w].use
    IN  /\ At(w, "profile")
        /\ IF use \in Covers
           THEN Becomes(w, [tx[w] EXCEPT !.step = "buy", !.seen = {}, !.benefit = DailyBenefit(profile)])
           ELSE Becomes(w, [tx[w] EXCEPT !.step = "quoted", !.seen = {profile},
                   !.answer = Quote(use.product, profile.tier.limit, use.amount,
                                    use.collateral, use.term, use.today)])
        /\ UNCHANGED <<now, sales, active, closes, policies, claims, commits, requests>>

AnswerQuote(w) ==
    /\ At(w, "quoted")
    /\ Becomes(w, Idle)
    /\ UNCHANGED <<now, sales, active, closes, policies, claims, commits, requests>>

\* purchase of a product with a flat premium needs no profile.
BuyFlat(w) ==
    \E cover \in Covers :
        /\ Arrives(w) /\ cover.kind # "daily_income"
        /\ Becomes(w, [Begun("buy") EXCEPT !.use = cover])
        /\ UNCHANGED <<now, sales, active, closes, policies, claims, commits>>

Premium(cover, benefit) ==
    IF cover.kind = "daily_income" THEN Times(benefit, PremiumRate) ELSE cover.flat

\* purchase: refused while a policy of the product is active; none is ever cancelled.
CheckPolicies(w) ==
    /\ At(w, "buy")
    /\ IF \E p \in policies : p.cover = tx[w].use THEN Becomes(w, Idle)
       ELSE Becomes(w, [tx[w] EXCEPT !.step = "issue", !.read = commits])
    /\ UNCHANGED <<now, sales, active, closes, policies, claims, commits, requests>>

IssuePolicy(w) ==
    /\ At(w, "issue")
    /\ policies' = policies \cup
         {[id |-> Cardinality(policies) + 1, cover |-> tx[w].use, startsAt |-> tx[w].began,
           benefit |-> tx[w].benefit, premium |-> Premium(tx[w].use, tx[w].benefit),
           read |-> tx[w].read, wrote |-> commits]}
    /\ commits' = commits + 1
    /\ Becomes(w, Idle)
    /\ UNCHANGED <<now, sales, active, closes, claims, requests>>

-----------------------------------------------------------------------------
ClaimedDates(policy) == UNION {c.first .. c.last : c \in {d \in claims : d.policy = policy.id}}

\* _eligible_closes: the policy's first day is that of UTC.
Eligible(policy, d) ==
    /\ closes[d] # NoClose /\ closes[d].reason \in Claimable
    /\ d >= policy.startsAt \div DayLength

\* A variant of OpenCloses with a bug that a property must refute: days that a claim
\* covers are offered again.
OpenClosesClaimed(policy) == {d \in Days : Eligible(policy, d)}

\* detect_claimable_periods: the runs of consecutive days that are closed and unclaimed.
OpenCloses(policy) == {d \in Days : Eligible(policy, d)} \ ClaimedDates(policy)

GroupConsecutive(dates) ==
    {q \in dates \X dates :
        /\ q[1] <= q[2] /\ q[1] .. q[2] \subseteq dates
        /\ q[1] - 1 \notin dates /\ q[2] + 1 \notin dates}

DetectClaimable(policy) == GroupConsecutive(OpenCloses(policy))

\* create_claim, with dates of the client's choice: claims first, then closes.
ReadClaims(w) ==
    \E p \in policies, first, last \in Days :
        /\ Arrives(w)
        /\ p.cover.kind = "daily_income" /\ first <= last
        /\ Becomes(w, [Begun("claim") EXCEPT !.policy = p.id, !.first = first, !.last = last,
                          !.seen = ClaimedDates(p)])
        /\ UNCHANGED <<now, sales, active, closes, policies, claims, commits>>

Acceptable(policy, first, last, claimed) ==
    \A d \in first .. last : d \notin claimed /\ d \in Days /\ Eligible(policy, d)

ReadEvidence(w) ==
    LET policy == CHOOSE p \in policies : p.id = tx[w].policy IN
    /\ At(w, "claim")
    /\ IF Acceptable(policy, tx[w].first, tx[w].last, tx[w].seen)
       THEN Becomes(w, [tx[w] EXCEPT !.step = "pay", !.benefit = policy.benefit])
       ELSE Becomes(w, Idle)
    /\ UNCHANGED <<now, sales, active, closes, policies, claims, commits, requests>>

PayClaim(w) ==
    LET t == tx[w] IN
    /\ At(w, "pay")
    /\ claims' = claims \cup
         {[policy |-> t.policy, first |-> t.first, last |-> t.last,
           amount |-> t.benefit * (t.last - t.first + 1), read |-> t.read, wrote |-> commits]}
    /\ commits' = commits + 1
    /\ Becomes(w, Idle)
    /\ UNCHANGED <<now, sales, active, closes, policies, requests>>

Tick ==
    /\ now < LastHour
    /\ now' = now + 1
    /\ UNCHANGED <<sales, active, closes, policies, claims, commits, tx, requests>>

Next ==
    \/ Ring \/ Tick
    \/ \E w \in Handlers :
         \/ DeactivateProduct(w)
         \/ CloseDay(w) \/ ReopenDay(w) \/ WriteDay(w)
         \/ ReadSales(w) \/ ReadCloses(w) \/ AnswerQuote(w)
         \/ BuyFlat(w) \/ CheckPolicies(w) \/ IssuePolicy(w)
         \/ ReadClaims(w) \/ ReadEvidence(w) \/ PayClaim(w)

Spec == Init /\ [][Next]_vars

-----------------------------------------------------------------------------
\* Properties.

\* One of the two checked before the other was inserted, and inserted after.
Overlapped(a, b) == a.read <= b.wrote /\ b.read <= a.wrote

\* A day is paid once under a policy and a product is insured once, unless the two
\* requests overlapped; a claim pays the policy's benefit for days that are not before
\* the policy, but for the one day that UTC is behind the shop; and what
\* detect_claimable_periods proposes is what create_claim would accept: each proposal,
\* and nothing that does not lie within one.
ClaimsSound ==
    /\ \A c, d \in claims :
         c # d /\ c.policy = d.policy /\ (c.first .. c.last) \cap (d.first .. d.last) # {}
           => Overlapped(c, d)
    /\ \A p, q \in policies : p # q /\ p.cover = q.cover => Overlapped(p, q)
    /\ \A c \in claims : \A p \in policies : p.id = c.policy =>
         /\ c.amount = p.benefit * Cardinality(c.first .. c.last)
         /\ c.first >= LocalDay(p.startsAt) - (IF p.startsAt % DayLength >= DayLength - Offset THEN 1 ELSE 0)
    /\ \A p \in policies : p.cover.kind = "daily_income" =>
         LET proposals == DetectClaimable(p)
             Accepts(a, b) == Acceptable(p, a, b, ClaimedDates(p))
         IN  /\ \A q \in proposals : Accepts(q[1], q[2])
             /\ \A a, b \in Days : a <= b /\ Accepts(a, b) =>
                  \E q \in proposals : q[1] <= a /\ b <= q[2]

\* The tables of the report page agree, whichever way they cut the sales.  By member
\* of staff, by payment method and by product they add up to the summary; what the
\* worst sellers leave out of it are the products that are sold no more, whose sales
\* stay.  The days add up to their week, the profit but for the rounding of each; a
\* period and the same days picked by hand agree; and the income profile leaves out no
\* revenue.
ReportsAgree ==
    LET SumOf(f) == Sigma([k \in DOMAIN f |-> f[k].revenue], DOMAIN f)
        daily == DailySeries(sales, Week, now)
        week == Summary(sales, <<"7d">>, now)
        byDay == [i \in DOMAIN daily |-> Summary(sales, <<"custom", daily[i].day, daily[i].day>>, now)]
        profile == IncomeProfile(SeriesPoints(Month), ListCloses(Month))
        QtyOf(list, rows) == Sigma([i \in DOMAIN list |-> list[i].qty], rows)
        RevenueOf(list, rows) == Sigma([i \in DOMAIN list |-> list[i].revenue], rows)
        StillSold(list) == {i \in DOMAIN list : list[i].product \in active}
    IN  /\ \A period \in {<<"today">>, <<"yesterday">>, <<"7d">>, <<"30d">>} :
             LET all == Summary(sales, period, now) IN
             /\ all.revenue = SumOf(SalesByStaff(sales, period, now))
             /\ all.revenue = SumOf(SalesByMethod(sales, period, now))
             /\ \A best \in BestSellers(sales, period, now, Cardinality(Goods)) :
                  /\ QtyOf(best, DOMAIN best) = all.items
                  /\ \A worst \in WorstSellers(sales, active, period, now, Cardinality(Goods)) :
                       /\ QtyOf(worst, DOMAIN worst) = QtyOf(best, StillSold(best))
                       /\ RevenueOf(worst, DOMAIN worst) = RevenueOf(best, StillSold(best))
        /\ SumOf(daily) = week.revenue
        /\ \A i \in DOMAIN daily : daily[i].revenue = byDay[i].revenue
        /\ Sigma([i \in DOMAIN byDay |-> byDay[i].items], DOMAIN byDay) = week.items
        /\ Sigma([i \in DOMAIN byDay |-> byDay[i].tax], DOMAIN byDay) = week.tax
        /\ 2 * (Sigma([i \in DOMAIN byDay |-> byDay[i].profit], DOMAIN byDay) - week.profit)
             \in -(Week + 1) .. Week + 1
        /\ ComparePeriods(sales, <<"today">>, <<"yesterday">>, now).diff =
             daily[Week].revenue - daily[Week - 1].revenue
        /\ profile.average[1] = Summary(sales, <<"30d">>, now).revenue
        /\ profile.streak <= profile.days

Quoted == {w \in Handlers : At(w, "quoted") /\ tx[w].answer # Refused}

\* What one satang in each of n installments grows to by the last of them bounds a
\* difference.
WithinRounding(difference, rate, n) ==
    LET grown == Power(rate[1] + rate[2], n) - Power(rate[2], n)
        bound == rate[2] * grown
    IN  IF rate[1] = 0 THEN difference \in -n .. n
        ELSE difference * rate[1] * Power(rate[2], n) \in -bound .. bound

\* A loan that is offered can be paid back: the principal in its installments adds up
\* to the amount, none of them but the last adds to the debt, and all are what was
\* quoted but the last, which differs by no more than the rounding of an installment
\* and of its interest, half a satang each, grows to.  One is due in every month from
\* the first, on the same day as far as the month has one.  The offer is within the
\* limit of a tier that the shop's days in a row and its payments earn it, and a
\* visitor is never offered less.
SchedulePaysOff ==
    \A w \in Quoted :
        LET use == tx[w].use
            offer == tx[w].answer
            s == offer.schedule
            n == use.term
            visitor == PublicLoanQuote(use.product, use.amount, use.collateral, n, use.today)
        IN  /\ Sigma([i \in 1 .. n |-> s[i].principal], 1 .. n) = offer.amount
            /\ \A i \in 1 .. n - 1 : s[i].principal >= 0 /\ s[i].amount = offer.installment
            /\ WithinRounding(s[n].amount - offer.installment, use.product.rate, n)
            /\ \A i \in 1 .. n :
                 /\ 12 * s[i].due[1] + s[i].due[2] = 12 * s[1].due[1] + s[1].due[2] + i - 1
                 /\ s[i].due[3] = Min({s[1].due[3], DaysIn(s[i].due[1], s[i].due[2])})
            /\ \E profile \in tx[w].seen, tier \in Range(Tiers) :
                 /\ profile.streak >= StreakRequired
                 /\ OnTimePayments >= tier.payments /\ offer.amount <= tier.limit
            /\ visitor.amount >= offer.amount
            /\ offer.caps = {} <=> offer.amount = use.amount
=============================================================================

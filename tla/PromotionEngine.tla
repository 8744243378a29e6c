-------------------------- MODULE PromotionEngine --------------------------
(***************************************************************************)
(* What a cart costs: the promotions that hold at a moment are matched to  *)
(* its lines, one of them wins each line, a stackable coupon may be laid   *)
(* on top, and the lines are summed and taxed.  Pure: no state, no         *)
(* database.  Money is in satang and instants are hours, of which a day    *)
(* has 24 and the first is on a Monday.                                    *)
(***************************************************************************)
EXTENDS Sums, SequencesExt

CONSTANTS
    Products, Categories,
    Category,      \* Category[p]: category_id, or NoCategory
    NoCategory,
    Price,         \* Price[p]: sell_price
    Codes,         \* coupon codes as they are typed
    NoCode,        \* coupon_code left null
    Upper,         \* Upper[c]: the upper case of c; codes have no blanks around them
    NoPrice,       \* bundle_price left null
    VatRate,       \* vat_rate in percent; 0 also stands for vat_enabled = false
    PriceIncludesTax

Kinds == {"percent_off", "amount_off", "buy_n_get_m", "buy_n_for_price"}

\* A row of table promotions.  `off` is percent_off or amount_off, as the kind has
\* it; a null bound of a window is its widest value, a null quantity is 0.
Rule ==
    [kind : Kinds, scope : {"product", "category", "all"},
     off : Nat, buy : Nat, get : Nat, bundle : Nat \cup {NoPrice},
     code : Codes \cup {NoCode}, from : Nat, until : Nat,
     weekdays : SUBSET (0 .. 6), hours : (0 .. 23) \X (0 .. 23),
     uses : Nat, maxUses : Nat, priority : Int, stackable : BOOLEAN, active : BOOLEAN]

\* A promotion as load_for_engine hands it over; id 0 is no promotion.
Loaded == [id : Nat \ {0}, rule : Rule, targets : SUBSET (Products \cup Categories)]
NoPromo == [id |-> 0]

\* One item of a cart, and the item of the receipt it becomes.
Request == [product : Products, qty : Nat \ {0}, manual : Nat]
ResolvedLine ==
    [product : Products, qty : Nat, manual : Nat, promo : Nat, by : Nat, gift : BOOLEAN]

ASSUME EngineAssumption ==
    /\ Category \in [Products -> Categories \cup {NoCategory}]
    /\ NoCategory \notin Categories
    /\ Price \in [Products -> Nat]
    /\ NoCode \notin Codes
    /\ Codes \subseteq DOMAIN Upper
    /\ NoPrice \notin Nat
    /\ VatRate \in Nat
    /\ PriceIncludesTax \in BOOLEAN

Least(a, b) == IF a < b THEN a ELSE b
Most(a, b) == IF a > b THEN a ELSE b

\* n / d to the nearest whole, halves up.
Quantize(n, d) == (2 * n + d) \div (2 * d)

-----------------------------------------------------------------------------
\* Variants of definitions below, each with a bug that a property must refute.

\* Of two promotions worth the same, the one that came first.
BetterFirstCome(p, vp, q, vq) == vp > vq

\* A promotion that discounts several lines is reported with the last of them.
AppliedOverwritten(lines) ==
    {[id |-> lines[i].by, amount |-> lines[i].promo] :
        i \in {j \in DOMAIN lines : lines[j].promo > 0 /\ lines[j].by # 0
                                     /\ \A k \in DOMAIN lines : k > j => lines[k].by # lines[j].by}}

-----------------------------------------------------------------------------
\* LoadedPromotion.

IsValidAt(r, at) ==
    LET hour == at % 24 IN
    /\ r.uses < r.maxUses
    /\ r.from <= at /\ at <= r.until
    /\ (at \div 24) % 7 \in r.weekdays
    /\ IF r.hours[1] <= r.hours[2]
       THEN r.hours[1] <= hour /\ hour <= r.hours[2]
       ELSE r.hours[1] <= hour \/ hour <= r.hours[2]

MatchesProduct(promo, p) ==
    \/ promo.rule.scope = "all"
    \/ promo.rule.scope = "product" /\ p \in promo.targets
    \/ promo.rule.scope = "category" /\ Category[p] \in promo.targets

-----------------------------------------------------------------------------
IsFlat(r) == r.kind \in {"percent_off", "amount_off"}

PercentOrAmountDiscount(r, gross) ==
    CASE r.kind = "percent_off" -> Quantize(gross * r.off, 100)
      [] r.kind = "amount_off" -> Least(r.off, gross)
      [] OTHER -> 0

FreeUnits(r, qty) == (qty \div (r.buy + r.get)) * r.get

\* _promo_value: what a promotion is worth on a requested line; it ranks candidates.
PromoValue(promo, req) ==
    LET r == promo.rule
        price == Price[req.product]
    IN  IF promo = NoPromo THEN 0
        ELSE CASE IsFlat(r) -> PercentOrAmountDiscount(r, price * req.qty)
               [] r.kind = "buy_n_get_m" /\ r.buy > 0 /\ r.get > 0 -> price * FreeUnits(r, req.qty)
               [] r.kind = "buy_n_for_price" /\ r.buy > 0 /\ r.bundle # NoPrice ->
                    (req.qty \div r.buy) * Most(price * r.buy - r.bundle, 0)
               [] OTHER -> 0

PaidLine(p, qty, manual, off, by) ==
    [product |-> p, qty |-> qty, manual |-> manual, promo |-> off, by |-> by, gift |-> FALSE]

GiftLine(p, qty, by) ==
    [product |-> p, qty |-> qty, manual |-> 0, promo |-> Price[p] * qty, by |-> by, gift |-> TRUE]

\* A line is made of the units there are.
IfAny(line) == IF line.qty > 0 THEN <<line>> ELSE <<>>

\* _build_lines_for_promo, for a promotion that is worth something on the line.  A
\* bundle with units left over keeps no manual discount.
BuildLines(promo, req) ==
    LET r == promo.rule
        p == req.product
        free == FreeUnits(r, req.qty)
        groups == req.qty \div r.buy
        rest == req.qty % r.buy
    IN  IF promo = NoPromo THEN <<PaidLine(p, req.qty, req.manual, 0, 0)>>
        ELSE CASE IsFlat(r) ->
                    <<PaidLine(p, req.qty, req.manual,
                               PercentOrAmountDiscount(r, Price[p] * req.qty), promo.id)>>
               [] r.kind = "buy_n_get_m" ->
                    IfAny(PaidLine(p, req.qty - free, req.manual, 0, promo.id))
                    \o IfAny(GiftLine(p, free, promo.id))
               [] r.kind = "buy_n_for_price" ->
                    IfAny(PaidLine(p, groups * r.buy, IF rest = 0 THEN req.manual ELSE 0,
                                   Most(Price[p] * groups * r.buy - groups * r.bundle, 0), promo.id))
                    \o IfAny(PaidLine(p, rest, IF groups = 0 THEN req.manual ELSE 0, 0, 0))

Gross(line) == Price[line.product] * line.qty
LineTotal(line) == Gross(line) - line.manual - line.promo

-----------------------------------------------------------------------------
\* resolve.

\* p, worth vp, is taken over q, worth vq.
Better(p, vp, q, vq) ==
    \/ vp > vq
    \/ /\ vp = vq
       /\ \/ p.rule.priority < q.rule.priority
          \/ p.rule.priority = q.rule.priority /\ p.id < q.id

\* A promotion that applies to a product by itself.
IsAuto(k, at, p) == IsValidAt(k.rule, at) /\ k.rule.code = NoCode /\ MatchesProduct(k, p)

\* k is a candidate, and best the one to beat.
BetterOf(best, k, req) ==
    IF /\ PromoValue(k, req) > 0
       /\ best = NoPromo \/ Better(k, PromoValue(k, req), best, PromoValue(best, req))
    THEN k ELSE best

\* One pass over the promotions in the order the database returned them.
BestAuto(loaded, at, req) ==
    LET best[i \in 0 .. Len(loaded)] ==
          IF i = 0 THEN NoPromo
          ELSE IF IsAuto(loaded[i], at, req.product) THEN BetterOf(best[i - 1], loaded[i], req)
               ELSE best[i - 1]
    IN  best[Len(loaded)]

\* The winner of a line; the coupon is the last candidate.
BestOf(loaded, at, coupon, req) ==
    LET auto == BestAuto(loaded, at, req)
    IN  IF coupon # NoPromo /\ MatchesProduct(coupon, req.product) THEN BetterOf(auto, coupon, req) ELSE auto

\* A stackable coupon that did not win takes its discount off what is left of an
\* undivided line.  The line stays booked under the promotion that won it.
LayCoupon(coupon, best, lines) ==
    LET line == lines[1]
        extra == Least(PercentOrAmountDiscount(coupon.rule, Gross(line)), Most(LineTotal(line), 0))
    IN  IF /\ coupon # NoPromo /\ coupon # best
           /\ coupon.rule.stackable /\ IsFlat(coupon.rule)
           /\ MatchesProduct(coupon, line.product)
           /\ Len(lines) = 1 /\ ~line.gift
           /\ extra > 0
        THEN <<[line EXCEPT !.promo = @ + extra, !.by = IF @ = 0 THEN coupon.id ELSE @]>>
        ELSE lines

ResolveLine(req, loaded, at, coupon) ==
    LET best == BestOf(loaded, at, coupon, req)
    IN  LayCoupon(coupon, best, BuildLines(best, req))

\* The first that holds whose code is the one entered, upper case against upper case.
CouponPromo(loaded, code, at) ==
    LET named == {i \in DOMAIN loaded :
                    /\ IsValidAt(loaded[i].rule, at)
                    /\ code # NoCode /\ loaded[i].rule.code # NoCode
                    /\ Upper[loaded[i].rule.code] = Upper[code]}
    IN  IF named = {} THEN NoPromo ELSE loaded[Min(named)]

SumOver(lines, S, Op(_)) == Sigma([i \in DOMAIN lines |-> Op(lines[i])], S)

\* applied_totals: promotions that discounted a line, with what each took off.
Applied(lines) ==
    LET Of(id) == {i \in DOMAIN lines : lines[i].by = id /\ lines[i].promo > 0}
    IN  {[id |-> id, amount |-> SumOver(lines, Of(id), LAMBDA l : l.promo)] :
            id \in {lines[i].by : i \in {j \in DOMAIN lines : lines[j].promo > 0}} \ {0}}

Resolve(requested, loaded, code, at) ==
    LET coupon == CouponPromo(loaded, code, at)
        lines == FlattenSeq([i \in DOMAIN requested |-> ResolveLine(requested[i], loaded, at, coupon)])
    IN  [lines |-> lines, applied |-> Applied(lines), matched |-> coupon # NoPromo]

-----------------------------------------------------------------------------
\* pricing.calc_totals, for a sale discount that leaves something to pay.

Subtotal(lines) == SumOver(lines, DOMAIN lines, LineTotal)

CalcTotals(subtotal, discount) ==
    LET net == subtotal - discount
        tax == IF PriceIncludesTax THEN Quantize(net * VatRate, 100 + VatRate)
                                   ELSE Quantize(net * VatRate, 100)
    IN  [subtotal |-> subtotal, tax |-> tax, total |-> IF PriceIncludesTax THEN net ELSE net + tax]
=============================================================================

----------------------------- MODULE LoanQuotes -----------------------------
(***************************************************************************)
(* What a loan is offered and how it is paid back: the caps of a quote and *)
(* the amortization schedule, for the app and for the public web form.     *)
(* Pure: no state.  Money is in satang, a rate is a fraction <<n, d>> and  *)
(* a date is <<year, month, day>>.                                         *)
(***************************************************************************)
EXTENDS Integers, FiniteSetsExt, SequencesExt

CONSTANTS
    Ltv,           \* LOAN_LTV, per kind of collateral, a fraction
    PremiumRate    \* DAILY_INCOME_PREMIUM_RATE, a fraction

LoanProduct ==
    [kind : DOMAIN Ltv, rate : Nat \X (Nat \ {0}), minTerm : Nat \ {0}, maxTerm : Nat \ {0},
     maxPrincipal : Nat]

ASSUME QuotesAssumption == \A k \in DOMAIN Ltv : Ltv[k] \in Nat \X (Nat \ {0})

\* n / d to the nearest whole, halves up.
HalfUp(n, d) == (2 * n + d) \div (2 * d)
Times(amount, fraction) == HalfUp(amount * fraction[1], fraction[2])

Power(base, exponent) ==
    LET p[k \in 0 .. exponent] == IF k = 0 THEN 1 ELSE base * p[k - 1]
    IN  p[exponent]

-----------------------------------------------------------------------------
\* Variants of definitions below, each with a bug that a property must refute.

\* The last installment is like the others: their rounding is never settled.
RepaidOfTerm(installment, interest, remaining, last) == installment - interest

-----------------------------------------------------------------------------
\* _add_months: the day is clipped to the month's last.
DaysIn(year, month) ==
    CASE month = 2 -> IF year % 4 = 0 /\ (year % 100 # 0 \/ year % 400 = 0) THEN 29 ELSE 28
      [] month \in {4, 6, 9, 11} -> 30
      [] OTHER -> 31

AddMonths(date, months) ==
    LET index == date[2] - 1 + months
        year == date[1] + index \div 12
        month == (index % 12) + 1
    IN  <<year, month, Min({date[3], DaysIn(year, month)})>>

\* P i / (1 - (1 + i)^-n), with i = a / b.
AmortizedInstallment(principal, rate, term) ==
    LET a == rate[1]
        b == rate[2]
        grown == Power(a + b, term)
    IN  IF a = 0 THEN HalfUp(principal, term)
        ELSE HalfUp(principal * a * grown, b * (grown - Power(b, term)))

\* The principal in one installment; the last one takes what remains.
Repaid(installment, interest, remaining, last) ==
    IF last THEN remaining ELSE installment - interest

BuildSchedule(principal, rate, term, firstDue) ==
    LET installment == AmortizedInstallment(principal, rate, term)
        Row(seq, remaining) ==
            LET interest == Times(remaining, rate)
                repaid == Repaid(installment, interest, remaining, seq = term)
            IN  [due |-> AddMonths(firstDue, seq - 1), principal |-> repaid,
                 interest |-> interest, amount |-> repaid + interest]
        before[seq \in 1 .. term] ==
            IF seq = 1 THEN principal
            ELSE before[seq - 1] - Row(seq - 1, before[seq - 1]).principal
    IN  [seq \in 1 .. term |-> Row(seq, before[seq])]

Refused == [amount |-> 0, caps |-> {"refused"}]

\* The parts of an offer that follow from the amount.
Offer(amount, product, term, today, caps) ==
    LET schedule == BuildSchedule(amount, product.rate, term, today)
        repayment == MapThenSumSet(LAMBDA i : schedule[i].amount, DOMAIN schedule)
    IN  [amount |-> amount, caps |-> caps, schedule |-> schedule, repayment |-> repayment,
         interest |-> repayment - amount,
         installment |-> AmortizedInstallment(amount, product.rate, term)]

\* quote: the least of the request and three caps, and the caps that bind.
Quote(product, creditLimit, requested, collateral, term, today) ==
    LET cap == [credit |-> creditLimit, product |-> product.maxPrincipal,
                collateral |-> Times(collateral, Ltv[product.kind])]
        least == Min({requested} \cup {cap[c] : c \in DOMAIN cap})
        caps == IF least = requested THEN {} ELSE {c \in DOMAIN cap : cap[c] = least}
    IN  IF term \notin product.minTerm .. product.maxTerm \/ creditLimit <= 0 THEN Refused
        ELSE Offer(least, product, term, today, caps)

\* quote_loan_and_create_lead: a visitor has no credit tier to cap the offer.
PublicLoanQuote(product, requested, collateral, term, today) ==
    LET least == Min({requested, product.maxPrincipal, Times(collateral, Ltv[product.kind])})
    IN  IF term \notin product.minTerm .. product.maxTerm THEN Refused
        ELSE Offer(least, product, term, today, {})

\* quote_and_create_lead: what a monthly budget buys.
PublicInsuranceQuote(budget) ==
    LET premium == HalfUp(budget, 30)
    IN  [premium |-> premium, benefit |-> HalfUp(premium * PremiumRate[2], PremiumRate[1])]
=============================================================================

----------------------------- MODULE MCTurboDays -----------------------------
(***************************************************************************)
(* Three days of a shop that is a third of a day ahead of UTC, so that an  *)
(* hour of each day belongs to the day before in UTC.  Two books: one with *)
(* refunded and voided sales of amounts that do not divide evenly, one of  *)
(* days closed for illness.  Each product may be taken off sale after it   *)
(* was sold.                                                               *)
(***************************************************************************)
EXTENDS TurboDays, TLC

CONSTANTS rice, tea, ann, bob

Line(p, qty, refunded, total, cost) ==
    [product |-> p, qty |-> qty, refunded |-> refunded, total |-> total, cost |-> cost]
Sold(id, at, method, user, total, refunded, status, items) ==
    [id |-> id, at |-> at, method |-> method, user |-> user, total |-> total,
     refunded |-> refunded, tax |-> total \div 10, status |-> status, items |-> items]

Row(id, reason) == [id |-> id, reason |-> reason]

\* Sales in the last hour of a UTC day are of the shop's next day.
MCSoldDays ==
    {Sold(1, 4, "cash", ann, 701, 0, "completed", <<Line(rice, 3, 0, 701, 150)>>),
     Sold(2, 5, "qr", bob, 1000, 333, "partially_refunded",
          <<Line(rice, 3, 1, 1000, 200), Line(tea, 1, 0, 0, 90)>>),
     Sold(3, 5, "qr", ann, 250, 250, "refunded", <<Line(tea, 2, 2, 250, 90)>>),
     Sold(4, 3, "cash", bob, 999, 0, "void", <<Line(tea, 1, 0, 999, 90)>>)}

MCBooks ==
    {[requests |-> 1, sales |-> MCSoldDays, closes |-> [d \in Days |-> IF d = 3 THEN Row(0, "holiday") ELSE NoClose]],
     [requests |-> 3, sales |-> {Sold(9, 2, "cash", ann, 901, 0, "completed", <<Line(rice, 1, 0, 901, 0)>>)},
      closes |-> [d \in Days |-> IF d \in {1, 2} THEN Row(0, "sick") ELSE NoClose]]}

MCReceipts == {Sold(9, 0, "cash", bob, 505, 0, "completed", <<Line(tea, 2, 0, 505, 90)>>)}

MCTiers == <<[payments |-> 0, limit |-> 1000], [payments |-> 1, limit |-> 3000]>>
MCPaid == {[paidAt |-> 8, due |-> 2]}
MCCovers ==
    {[kind |-> "daily_income", flat |-> 0], [kind |-> "accident", flat |-> 99]}

MCLtv == [motorcycle |-> <<7, 10>>, land_title |-> <<1, 2>>]
Loan(rate, max) ==
    [kind |-> "motorcycle", rate |-> rate, minTerm |-> 1, maxTerm |-> 4, maxPrincipal |-> max]
Want(product, amount, collateral, term, today) ==
    [product |-> product, amount |-> amount, collateral |-> collateral, term |-> term, today |-> today]

\* Offers that each cap binds, and none; terms of every length; the last day of a
\* long month before a short one, in a leap year and in another.
MCLoanRequests ==
    {Want(Loan(<<1, 50>>, 5000), 2500, 9000, 3, <<2024, 1, 31>>),
     Want(Loan(<<1, 20>>, 777), 2500, 9000, 4, <<2025, 11, 30>>),
     Want(Loan(<<1, 20>>, 5000), 3, 10, 4, <<2025, 1, 30>>),
     Want(Loan(<<0, 1>>, 5000), 1000, 1001, 3, <<2025, 12, 31>>),
     Want(Loan(<<1, 50>>, 5000), 9999, 9000, 1, <<2025, 2, 1>>)}
MCCashWeight == <<1, 2>>
MCBenefitRatio == <<1, 2>>
MCPremiumRate == <<35, 10000>>
MCSymmetry == Permutations(Handlers)
=============================================================================

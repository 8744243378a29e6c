----------------------------- MODULE ShopProofs -----------------------------
(***************************************************************************)
(* Theorems about the days of a shop and about its promotions, for any     *)
(* number of handlers: what its claims pay, that its reports agree         *)
(* whatever its sales are, that the loans it is offered are paid off by    *)
(* their schedules, and whose targets a promotion has.                     *)
(***************************************************************************)
EXTENDS TurboDays, Promotions, DataTheorems

\* The policy, or the claim, was there after whatever was inserted before it.
Stamped(row) == row.read \in Nat /\ row.wrote \in Nat /\ row.read <= row.wrote /\ row.wrote < commits

\* The policy of an id was there, with the benefit, by the first of the days.
Insured(id, benefit, first) ==
    \E p \in policies : p.id = id /\ p.benefit = benefit /\ first >= p.startsAt \div DayLength

\* The set holds the days of every claim on the policy that had been inserted by then.
SeenClaims(id, read, seen) ==
    \A c \in claims : c.policy = id /\ c.wrote < read => c.first .. c.last \subseteq seen

PoliciesOK ==
    /\ IsFiniteSet(policies)
    /\ \A p \in policies :
         p.id \in 1 .. Cardinality(policies) /\ p.startsAt \in Nat /\ Stamped(p)
    /\ \A p, q \in policies : p.id = q.id \/ p.wrote = q.wrote => p = q
    /\ \A p, q \in policies : p # q /\ p.cover = q.cover => Overlapped(p, q)

ClaimsOK ==
    /\ \A c \in claims :
         /\ Stamped(c) /\ c.first \in Nat /\ c.last \in Nat
         /\ \E benefit : /\ Insured(c.policy, benefit, c.first)
                         /\ c.amount = benefit * Cardinality(c.first .. c.last)
    /\ \A c, d \in claims : c.wrote = d.wrote => c = d
    /\ \A c, d \in claims :
         c # d /\ c.policy = d.policy /\ (c.first .. c.last) \cap (d.first .. d.last) # {}
           => Overlapped(c, d)

\* What a request has read still holds, but for what was inserted since.
RequestOK(w) ==
    LET t == tx[w] IN
    /\ DOMAIN t = DOMAIN Idle
    /\ t.read \in Nat /\ t.read <= commits /\ t.began \in Nat
    /\ t.step = "issue" => \A p \in policies : p.cover = t.use => p.wrote >= t.read
    /\ t.step \in {"claim", "pay"} =>
         /\ t.first \in Days /\ t.last \in Days /\ t.first <= t.last
         /\ \E p \in policies : p.id = t.policy
         /\ SeenClaims(t.policy, t.read, t.seen)
    /\ t.step = "pay" =>
         /\ Insured(t.policy, t.benefit, t.first)
         /\ (t.first .. t.last) \cap t.seen = {}

\* The inductive invariant.
IInv ==
    /\ now \in Nat /\ commits \in Nat /\ DOMAIN tx = Handlers
    /\ PoliciesOK
    /\ ClaimsOK
    /\ \A w \in Handlers : RequestOK(w)
-----------------------------------------------------------------------------
\* Data.

\* The quotient is the one number of times the divisor goes into a number.
LEMMA QuotientIs ==
    ASSUME NEW d \in Nat, d > 0, NEW q \in Int, NEW r \in Int, 0 <= r, r < d, NEW a \in Int,
           a = q * d + r
    PROVE  a \div d = q
  OBVIOUS

\* The day of UTC is the shop's day or, in the last hours before midnight, the one before.
LEMMA DayOfUtc ==
    ASSUME NEW t \in Nat
    PROVE  t \div DayLength =
             LocalDay(t) - (IF t % DayLength >= DayLength - Offset THEN 1 ELSE 0)
<1>1. PICK d, o : d = DayLength /\ o = Offset
  OBVIOUS
<1>2. d \in Nat /\ d > 0 /\ o \in Nat /\ o < d
  BY <1>1, ReportsAssumption
<1>3. PICK q, r : q = t \div d /\ r = t % d
  OBVIOUS
<1>4. q \in Int /\ r \in Int /\ 0 <= r /\ r < d /\ t = q * d + r
  BY <1>2, <1>3
<1>5. CASE r >= d - o
  <2>1. PICK k : k = q + 1
    OBVIOUS
  <2>2. k * d = q * d + d
    BY <1>2, <1>4, <2>1
  <2>3. t + o = k * d + (r + o - d)
    BY <1>2, <1>4, <2>2, <2>1
  <2>4. r + o - d \in Int /\ 0 <= r + o - d /\ r + o - d < d
    BY <1>2, <1>4, <1>5
  <2>5. (t + o) \div d = k
    <3>1. PICK s, a : s = r + o - d /\ a = t + o
      OBVIOUS
    <3>2. a \div d = k
      BY <1>2, <1>4, <2>1, <2>3, <2>4, <3>1, QuotientIs
    <3> QED
      BY <3>1, <3>2
  <2>6. LocalDay(t) = k /\ t % DayLength >= DayLength - Offset
    BY <1>1, <1>3, <1>5, <2>5 DEF LocalDay
  <2>7. q = k - 1
    BY <1>4, <2>1
  <2> QED
    BY <1>1, <1>3, <2>6, <2>7
<1>6. CASE ~(r >= d - o)
  <2>1. t + o = q * d + (r + o) /\ r + o \in Int /\ 0 <= r + o /\ r + o < d
    BY <1>2, <1>4, <1>6
  <2>2. (t + o) \div d = q
    <3>1. PICK s, a : s = r + o /\ a = t + o
      OBVIOUS
    <3>2. a \div d = q
      BY <1>2, <1>4, <2>1, <3>1, QuotientIs
    <3> QED
      BY <3>1, <3>2
  <2>3. LocalDay(t) = q /\ ~(t % DayLength >= DayLength - Offset)
    BY <1>1, <1>3, <1>6, <2>2 DEF LocalDay
  <2>4. q = q - 0
    BY <1>4
  <2> QED
    BY <1>1, <1>3, <2>3, <2>4
<1> QED
  BY <1>5, <1>6

\* The days of a claim, counted.
LEMMA DaysCounted ==
    ASSUME NEW a \in Nat, NEW b \in Nat, a <= b
    PROVE  Cardinality(a .. b) = b - a + 1
  BY FS_Interval

\* Every day of a finite set lies in a run of it that ends where the set has a gap.
LEMMA RunAround ==
    ASSUME NEW S \in SUBSET Nat, IsFiniteSet(S), NEW a \in Nat, NEW b \in Nat, a <= b, a .. b \subseteq S
    PROVE  \E run \in GroupConsecutive(S) : run[1] <= a /\ b <= run[2]
<1> DEFINE From == {x \in Nat : x <= a /\ x .. b \subseteq S}
<1>1. PICK x \in From : \A y \in From : x <= y
  <2>1. a \in From /\ From \subseteq Nat
    OBVIOUS
  <2> HIDE DEF From
  <2>2. Min(From) \in From /\ \A y \in From : Min(From) <= y
    BY <2>1, MinOfNat
  <2> QED
    BY <2>2
<1> DEFINE To == {y \in S : b <= y /\ x .. y \subseteq S}
<1>2. PICK y \in To : \A z \in To : z <= y
  <2>1. b \in To
    <3>1. b \in a .. b /\ x .. b \subseteq S
      BY <1>1
    <3> QED
      BY <3>1
  <2>2. To \subseteq Nat /\ To \subseteq S
    OBVIOUS
  <2> HIDE DEF To
  <2>3. IsFiniteSet(To)
    BY <2>2, FS_Subset
  <2>4. Max(To) \in To /\ \A z \in To : z <= Max(To)
    BY <2>1, <2>2, <2>3, MaxOfFinite
  <2> QED
    BY <2>4
<1>3. x \in Nat /\ y \in Nat /\ x <= a /\ b <= y /\ x .. y \subseteq S /\ x \in S /\ y \in S
  BY <1>1, <1>2
<1>4. x - 1 \notin S
  <2> SUFFICES ASSUME x - 1 \in S PROVE FALSE
    OBVIOUS
  <2>1. PICK z : z = x - 1
    OBVIOUS
  <2>2. z \in Nat /\ z < x /\ z <= a
    BY <1>3, <2>1
  <2>3. \A d \in z .. b : d = z \/ d \in x .. b
    BY <1>3, <2>1, <2>2
  <2>4. z \in From
    BY <1>1, <2>1, <2>2, <2>3
  <2> QED
    BY <1>1, <2>2, <2>4
<1>5. y + 1 \notin S
  <2> SUFFICES ASSUME y + 1 \in S PROVE FALSE
    OBVIOUS
  <2>1. PICK z : z = y + 1
    OBVIOUS
  <2>2. z \in Nat /\ y < z /\ b <= z
    BY <1>3, <2>1
  <2>3. \A d \in x .. z : d = z \/ d \in x .. y
    BY <1>3, <2>1, <2>2
  <2>4. z \in To
    BY <1>3, <2>1, <2>2, <2>3
  <2> QED
    BY <1>2, <1>3, <2>2, <2>4
<1>6. x <= y
  BY <1>3
<1>7. <<x, y>> \in GroupConsecutive(S)
  BY <1>3, <1>4, <1>5, <1>6 DEF GroupConsecutive
<1> QED
  BY <1>3, <1>7

\* What is proposed to an owner is what a claim may ask for: each proposal is accepted,
\* and whatever is accepted lies within one.
LEMMA ProposalsAreTheClaims ==
    ASSUME NEW policy
    PROVE  /\ \A q \in DetectClaimable(policy) : Acceptable(policy, q[1], q[2], ClaimedDates(policy))
           /\ \A a, b \in Days : a <= b /\ Acceptable(policy, a, b, ClaimedDates(policy)) =>
                \E q \in DetectClaimable(policy) : q[1] <= a /\ b <= q[2]
<1>1. PICK claimed, open : claimed = ClaimedDates(policy) /\ open = OpenCloses(policy)
  OBVIOUS
<1>2. \A d : d \in open <=> d \in Days /\ Eligible(policy, d) /\ d \notin claimed
  BY <1>1 DEF OpenCloses
<1>3. open \in SUBSET Nat /\ IsFiniteSet(open)
  <2>1. open \subseteq Days
    BY <1>2
  <2> QED
    BY <2>1, FS_Subset, DaysAssumption
<1>4. \A a, b : Acceptable(policy, a, b, claimed) <=> a .. b \subseteq open
  BY <1>2 DEF Acceptable
<1>5. ASSUME NEW q \in GroupConsecutive(open) PROVE Acceptable(policy, q[1], q[2], claimed)
  <2>1. q[1] .. q[2] \subseteq open
    BY DEF GroupConsecutive
  <2> QED
    BY <1>4, <2>1
<1>6. ASSUME NEW a \in Days, NEW b \in Days, a <= b, Acceptable(policy, a, b, claimed)
      PROVE  \E q \in GroupConsecutive(open) : q[1] <= a /\ b <= q[2]
  <2>1. a \in Nat /\ b \in Nat /\ a .. b \subseteq open
    BY <1>4, <1>6, DaysAssumption
  <2> QED
    BY <1>3, <1>6, <2>1, RunAround
<1> QED
  BY <1>1, <1>5, <1>6 DEF DetectClaimable
-----------------------------------------------------------------------------
\* What a request relies on.

\* A handler without a request.
LEMMA IdleRequest ==
    /\ DOMAIN Idle = {"step", "id", "began", "read", "day", "reason", "seen", "use", "benefit",
                      "first", "last", "policy", "answer"}
    /\ Idle.step = "idle" /\ Idle.read = 0 /\ Idle.began = 0
  BY DEF Idle

\* A request as it arrives.
LEMMA BegunRequest ==
    ASSUME NEW step, NEW t, t = Begun(step)
    PROVE  DOMAIN t = DOMAIN Idle /\ t.step = step /\ t.read = commits /\ t.began = now
  BY DEF Begun, Idle

\* Becomes touches one handler.
LEMMA BecomesOne ==
    ASSUME DOMAIN tx = Handlers, NEW w \in Handlers, NEW r, Becomes(w, r)
    PROVE  DOMAIN tx' = Handlers /\ tx'[w] = r /\ \A v \in Handlers \ {w} : tx'[v] = tx[v]
  BY DEF Becomes

\* A handler whose step it is not keeps what it relies on: rows are inserted, after
\* what it has read.
LEMMA OtherRequest ==
    ASSUME NEW v \in Handlers, RequestOK(v), NEW t, tx[v] = t, tx'[v] = t,
           commits' \in Nat, commits \in Nat, commits <= commits',
           policies \subseteq policies', \A p \in policies' \ policies : p.wrote = commits,
           \A c \in claims' \ claims : c.wrote = commits
    PROVE  RequestOK(v)'
<1>1. /\ DOMAIN t = DOMAIN Idle
      /\ t.read \in Nat /\ t.read <= commits' /\ t.began \in Nat
  BY DEF RequestOK
<1>2. t.step = "issue" => \A p \in policies' : p.cover = t.use => p.wrote >= t.read
  BY DEF RequestOK
<1>3. t.step \in {"claim", "pay"} =>
        /\ t.first \in Days /\ t.last \in Days /\ t.first <= t.last
        /\ \E p \in policies' : p.id = t.policy
  BY DEF RequestOK
<1>4. ASSUME t.step \in {"claim", "pay"}
      PROVE  \A c \in claims' : c.policy = t.policy /\ c.wrote < t.read => c.first .. c.last \subseteq t.seen
  <2>1. t.read <= commits /\ t.read \in Nat /\ SeenClaims(t.policy, t.read, t.seen)
    BY <1>4 DEF RequestOK
  <2>2. \A c \in claims' : c.wrote < t.read => c \in claims
    BY <2>1
  <2> QED
    BY <2>1, <2>2 DEF SeenClaims
<1>5. t.step = "pay" =>
        /\ \E p \in policies' : /\ p.id = t.policy /\ p.benefit = t.benefit
                                /\ t.first >= p.startsAt \div DayLength
        /\ (t.first .. t.last) \cap t.seen = {}
  BY DEF RequestOK, Insured
<1> QED
  BY <1>1, <1>2, <1>3, <1>4, <1>5 DEF RequestOK, SeenClaims, Insured

\* Steps that insert no policy and no claim.
LEMMA QuietStep ==
    ASSUME IInv, NEW w \in Handlers, NEW r, Becomes(w, r), UNCHANGED <<now, policies, claims, commits>>,
           RequestOK(w)'
    PROVE  IInv'
<1>1. DOMAIN tx' = Handlers /\ \A v \in Handlers \ {w} : tx'[v] = tx[v]
  BY BecomesOne DEF IInv
<1>2. ASSUME NEW v \in Handlers \ {w} PROVE RequestOK(v)'
  <2>1. PICK t : t = tx[v]
    OBVIOUS
  <2>2. RequestOK(v) /\ tx'[v] = t
    BY <1>1, <2>1 DEF IInv
  <2> QED
    BY <2>1, <2>2, OtherRequest DEF IInv
<1>3. PoliciesOK'
  BY DEF IInv, PoliciesOK, Stamped, Overlapped
<1>4. ClaimsOK'
  BY DEF IInv, ClaimsOK, Stamped, Insured, Overlapped
<1> QED
  BY <1>1, <1>2, <1>3, <1>4 DEF IInv

\* A request that has read neither policies nor claims, or has ended.
LEMMA FreeRequest ==
    ASSUME NEW w \in Handlers, NEW r, tx'[w] = r, DOMAIN r = DOMAIN Idle,
           r.read \in Nat, r.read <= commits', r.began \in Nat, r.step \notin {"issue", "claim", "pay"}
    PROVE  RequestOK(w)'
  BY DEF RequestOK

\* A request of that kind goes on.
LEMMA FreeStep ==
    ASSUME IInv, NEW w \in Handlers, NEW r, Becomes(w, r), UNCHANGED <<now, policies, claims, commits>>,
           DOMAIN r = DOMAIN Idle,
           r.read \in Nat, r.read <= commits, r.began \in Nat, r.step \notin {"issue", "claim", "pay"}
    PROVE  IInv'
<1>1. tx'[w] = r
  BY BecomesOne DEF IInv
<1>2. RequestOK(w)'
  BY <1>1, FreeRequest DEF IInv
<1> QED
  BY <1>2, QuietStep

\* A request ends.
LEMMA EndsInv ==
    ASSUME IInv, NEW w \in Handlers, Becomes(w, Idle), UNCHANGED <<now, policies, claims, commits>>
    PROVE  IInv'
<1>1. Idle.read <= commits
  BY IdleRequest DEF IInv
<1> QED
  BY <1>1, IdleRequest, FreeStep

\* A request about a day, or a profile, or a flat premium, arrives.
LEMMA BeginsInv ==
    ASSUME IInv, NEW w \in Handlers, NEW step, step \notin {"issue", "claim", "pay"},
           NEW r, NEW b, b = Begun(step), DOMAIN r = DOMAIN b,
           r.step = b.step, r.read = b.read, r.began = b.began,
           Becomes(w, r), UNCHANGED <<now, policies, claims, commits>>
    PROVE  IInv'
<1>1. DOMAIN r = DOMAIN Idle /\ r.step = step /\ r.read = commits /\ r.began = now
  BY BegunRequest
<1>2. r.read \in Nat /\ r.read <= commits /\ r.began \in Nat
  BY <1>1 DEF IInv
<1> QED
  BY <1>1, <1>2, FreeStep
-----------------------------------------------------------------------------
\* One lemma per action.

\* The invariant holds at first.
LEMMA InitInv == Init => IInv
<1> SUFFICES ASSUME Init PROVE IInv
  OBVIOUS
<1>1. now \in Nat /\ commits = 0 /\ DOMAIN tx = Handlers /\ policies = {} /\ claims = {}
  BY DaysAssumption DEF Init
<1>2. PoliciesOK /\ ClaimsOK
  BY <1>1, FS_EmptySet DEF PoliciesOK, ClaimsOK
<1>3. ASSUME NEW w \in Handlers PROVE RequestOK(w)
  <2>1. tx[w] = Idle
    BY DEF Init
  <2> QED
    BY <1>1, <2>1, IdleRequest DEF RequestOK
<1> QED
  BY <1>1, <1>2, <1>3 DEF IInv

\* A sale, a product sold no more, and the clock.
LEMMA OutsideInv ==
    ASSUME IInv, Ring \/ Tick \/ \E w \in Handlers : DeactivateProduct(w) PROVE IInv'
<1>1. UNCHANGED <<policies, claims, commits, tx>> /\ now' \in Nat
  BY DEF Ring, Tick, DeactivateProduct, IInv
<1>2. PoliciesOK'
  BY <1>1 DEF IInv, PoliciesOK, Stamped, Overlapped
<1>3. ClaimsOK'
  BY <1>1 DEF IInv, ClaimsOK, Stamped, Insured, Overlapped
<1>4. \A w \in Handlers : RequestOK(w)'
  BY <1>1 DEF IInv, RequestOK, SeenClaims, Insured
<1> QED
  BY <1>1, <1>2, <1>3, <1>4 DEF IInv

\* close_day and reopen_day read the day's row.
LEMMA DayRequestInv == ASSUME IInv, NEW w \in Handlers, CloseDay(w) \/ ReopenDay(w) PROVE IInv'
<1>1. CASE CloseDay(w)
  <2>1. PICK d, reason :
          /\ Becomes(w, [Begun("day") EXCEPT !.day = d, !.reason = reason, !.seen = {closes[d]}])
          /\ UNCHANGED <<now, policies, claims, commits>>
    BY <1>1 DEF CloseDay
  <2>2. PICK b, r : b = Begun("day") /\ r = [b EXCEPT !.day = d, !.reason = reason, !.seen = {closes[d]}]
    OBVIOUS
  <2>3. DOMAIN r = DOMAIN b /\ r.step = b.step /\ r.read = b.read /\ r.began = b.began
    BY <2>2
  <2>4. Becomes(w, r)
    BY <2>1, <2>2
  <2> QED
    BY <2>1, <2>2, <2>3, <2>4, BeginsInv
<1>2. CASE ReopenDay(w)
  <2>1. PICK d :
          /\ Becomes(w, [Begun("reopen") EXCEPT !.day = d, !.seen = {closes[d]}])
          /\ UNCHANGED <<now, policies, claims, commits>>
    BY <1>2 DEF ReopenDay
  <2>2. PICK b, r : b = Begun("reopen") /\ r = [b EXCEPT !.day = d, !.seen = {closes[d]}]
    OBVIOUS
  <2>3. DOMAIN r = DOMAIN b /\ r.step = b.step /\ r.read = b.read /\ r.began = b.began
    BY <2>2
  <2>4. Becomes(w, r)
    BY <2>1, <2>2
  <2> QED
    BY <2>1, <2>2, <2>3, <2>4, BeginsInv
<1> QED
  BY <1>1, <1>2

\* A quote reads the sales; a flat premium needs none.
LEMMA QuoteRequestInv == ASSUME IInv, NEW w \in Handlers, ReadSales(w) \/ BuyFlat(w) PROVE IInv'
<1>1. CASE ReadSales(w)
  <2>1. PICK use :
          /\ Becomes(w, [Begun("profile") EXCEPT !.use = use, !.seen = {SeriesPoints(Month)}])
          /\ UNCHANGED <<now, policies, claims, commits>>
    BY <1>1 DEF ReadSales
  <2>2. PICK points : points = SeriesPoints(Month)
    OBVIOUS
  <2>3. PICK b, r : b = Begun("profile") /\ r = [b EXCEPT !.use = use, !.seen = {points}]
    OBVIOUS
  <2>4. DOMAIN r = DOMAIN b /\ r.step = b.step /\ r.read = b.read /\ r.began = b.began
    BY <2>3
  <2>5. Becomes(w, r)
    BY <2>1, <2>2, <2>3
  <2> QED
    BY <2>1, <2>3, <2>4, <2>5, BeginsInv
<1>2. CASE BuyFlat(w)
  <2>1. PICK cover : /\ Becomes(w, [Begun("buy") EXCEPT !.use = cover])
                     /\ UNCHANGED <<now, policies, claims, commits>>
    BY <1>2 DEF BuyFlat
  <2>2. PICK b, r : b = Begun("buy") /\ r = [b EXCEPT !.use = cover]
    OBVIOUS
  <2>3. DOMAIN r = DOMAIN b /\ r.step = b.step /\ r.read = b.read /\ r.began = b.began
    BY <2>2
  <2>4. Becomes(w, r)
    BY <2>1, <2>2
  <2> QED
    BY <2>1, <2>2, <2>3, <2>4, BeginsInv
<1> QED
  BY <1>1, <1>2

\* A quote reads the closes, and is answered or goes on to buy.
LEMMA ReadClosesInv == ASSUME IInv, NEW w \in Handlers, ReadCloses(w) PROVE IInv'
<1>1. PICK t : t = tx[w]
  OBVIOUS
<1>2. PICK benefit, answer, seen :
        \/ Becomes(w, [t EXCEPT !.step = "buy", !.seen = {}, !.benefit = benefit])
        \/ Becomes(w, [t EXCEPT !.step = "quoted", !.seen = seen, !.answer = answer])
  BY <1>1 DEF ReadCloses
<1>3. UNCHANGED <<now, policies, claims, commits>>
  BY DEF ReadCloses
<1>4. DOMAIN t = DOMAIN Idle /\ t.read \in Nat /\ t.read <= commits /\ t.began \in Nat
  BY <1>1 DEF IInv, RequestOK
<1>5. PICK r : /\ Becomes(w, r) /\ r.step \in {"buy", "quoted"} /\ DOMAIN r = DOMAIN t
               /\ r.read = t.read /\ r.began = t.began
  <2>1. CASE Becomes(w, [t EXCEPT !.step = "buy", !.seen = {}, !.benefit = benefit])
    <3>1. PICK r : r = [t EXCEPT !.step = "buy", !.seen = {}, !.benefit = benefit]
      OBVIOUS
    <3>2. DOMAIN r = DOMAIN t /\ r.step = "buy" /\ r.read = t.read /\ r.began = t.began
      BY <1>4, <3>1, IdleRequest
    <3> QED
      BY <2>1, <3>1, <3>2
  <2>2. CASE Becomes(w, [t EXCEPT !.step = "quoted", !.seen = seen, !.answer = answer])
    <3>1. PICK r : r = [t EXCEPT !.step = "quoted", !.seen = seen, !.answer = answer]
      OBVIOUS
    <3>2. DOMAIN r = DOMAIN t /\ r.step = "quoted" /\ r.read = t.read /\ r.began = t.began
      BY <1>4, <3>1, IdleRequest
    <3> QED
      BY <2>2, <3>1, <3>2
  <2> QED
    BY <1>2, <2>1, <2>2
<1> QED
  BY <1>3, <1>4, <1>5, FreeStep

\* purchase looks for a policy of the product.
LEMMA CheckPoliciesInv == ASSUME IInv, NEW w \in Handlers, CheckPolicies(w) PROVE IInv'
<1>1. CASE \E p \in policies : p.cover = tx[w].use
  BY <1>1, EndsInv DEF CheckPolicies
<1>2. CASE ~\E p \in policies : p.cover = tx[w].use
  <2>1. PICK t : t = tx[w]
    OBVIOUS
  <2>2. PICK r : r = [t EXCEPT !.step = "issue", !.read = commits]
    OBVIOUS
  <2>3. Becomes(w, r) /\ UNCHANGED <<now, policies, claims, commits>>
    BY <1>2, <2>1, <2>2 DEF CheckPolicies
  <2>4. DOMAIN t = DOMAIN Idle /\ t.began \in Nat /\ commits \in Nat
    BY <2>1 DEF IInv, RequestOK
  <2>5. DOMAIN r = DOMAIN Idle /\ r.step = "issue" /\ r.read = commits /\ r.began = t.began /\ r.use = t.use
    BY <2>2, <2>4, IdleRequest
  <2>6. \A p \in policies' : p.cover # r.use
    BY <1>2, <2>1, <2>3, <2>5
  <2>7. tx'[w] = r /\ commits' = commits
    BY <2>3, BecomesOne DEF IInv
  <2>8. RequestOK(w)'
    BY <2>4, <2>5, <2>6, <2>7 DEF RequestOK
  <2> QED
    BY <2>3, <2>8, QuietStep
<1> QED
  BY <1>1, <1>2

\* A row written last differs from those before it.
LEMMA Later ==
    ASSUME NEW row, NEW other, Stamped(other), row.wrote = commits, row.read <= other.wrote,
           row.read \in Nat, commits \in Nat
    PROVE  Overlapped(row, other) /\ Overlapped(other, row) /\ row.wrote # other.wrote
  BY DEF Stamped, Overlapped

\* What was stamped before another insertion stays so.
LEMMA StampedStays ==
    ASSUME NEW row, Stamped(row), commits \in Nat, commits' = commits + 1
    PROVE  Stamped(row)'
  BY DEF Stamped

\* A policy is inserted under a number that no other has.
LEMMA IssuePolicyInv == ASSUME IInv, NEW w \in Handlers, IssuePolicy(w) PROVE IInv'
<1>1. PICK t, n : t = tx[w] /\ n = Cardinality(policies)
  OBVIOUS
<1>2. PICK new : new = [id |-> n + 1, cover |-> t.use, startsAt |-> t.began, benefit |-> t.benefit,
                        premium |-> Premium(t.use, t.benefit), read |-> t.read, wrote |-> commits]
  OBVIOUS
<1>3. /\ t.step = "issue" /\ policies' = policies \cup {new} /\ commits' = commits + 1
      /\ Becomes(w, Idle) /\ now' = now /\ claims' = claims
  BY <1>1, <1>2 DEF IssuePolicy, At
<1>4. /\ new.id = n + 1 /\ new.cover = t.use /\ new.startsAt = t.began /\ new.read = t.read
      /\ new.wrote = commits
  BY <1>2
<1>5. /\ t.read \in Nat /\ t.read <= commits /\ t.began \in Nat
      /\ \A p \in policies : p.cover = t.use => p.wrote >= t.read
  BY <1>1, <1>3 DEF IInv, RequestOK
<1>6. commits \in Nat /\ PoliciesOK /\ ClaimsOK
  BY DEF IInv
<1>7. IsFiniteSet(policies) /\ n \in Nat /\ IsFiniteSet(policies')
  BY <1>1, <1>3, <1>6, FS_CardinalityType, FS_AddElement DEF PoliciesOK
<1>8. \A p \in policies : p.id # new.id /\ Stamped(p) /\ p.id \in 1 .. n
  BY <1>1, <1>4, <1>6, <1>7 DEF PoliciesOK
<1>9. Cardinality(policies') = n + 1
  <2>1. new \notin policies
    BY <1>8
  <2> QED
    BY <1>1, <1>3, <1>7, <2>1, FS_AddElement
<1>10. PoliciesOK'
  <2>1. ASSUME NEW p \in policies' PROVE p.id \in 1 .. n + 1 /\ p.startsAt \in Nat /\ Stamped(p)'
    <3>1. CASE p \in policies
      BY <1>3, <1>6, <1>7, <1>8, <3>1, StampedStays DEF PoliciesOK
    <3>2. CASE p = new
      BY <1>3, <1>4, <1>5, <1>6, <1>7, <3>2 DEF Stamped
    <3> QED
      BY <1>3, <3>1, <3>2
  <2>2. \A p \in policies : p.wrote # commits
    BY <1>6, <1>8 DEF Stamped
  <2>3. \A p, q \in policies' : p.id = q.id \/ p.wrote = q.wrote => p = q
    BY <1>3, <1>4, <1>6, <1>8, <2>2 DEF PoliciesOK
  <2>4. ASSUME NEW p \in policies, p.cover = new.cover PROVE Overlapped(p, new) /\ Overlapped(new, p)
    <3>1. new.read <= p.wrote
      BY <1>4, <1>5, <1>8, <2>4 DEF Stamped
    <3> QED
      BY <1>4, <1>5, <1>6, <1>8, <3>1, Later
  <2>5. \A p, q \in policies' : p # q /\ p.cover = q.cover => Overlapped(p, q)
    BY <1>3, <1>6, <2>4 DEF PoliciesOK
  <2> QED
    BY <1>7, <1>9, <2>1, <2>3, <2>5 DEF PoliciesOK, Overlapped
<1>11. ClaimsOK'
  <2>1. ASSUME NEW c \in claims'
        PROVE  /\ Stamped(c)' /\ c.first \in Nat /\ c.last \in Nat
               /\ \E benefit :
                    /\ \E p \in policies' : /\ p.id = c.policy /\ p.benefit = benefit
                                            /\ c.first >= p.startsAt \div DayLength
                    /\ c.amount = benefit * Cardinality(c.first .. c.last)
    BY <1>3, <1>6, StampedStays DEF ClaimsOK, Insured
  <2> QED
    BY <1>3, <1>6, <2>1 DEF ClaimsOK, Insured, Overlapped
<1>12. DOMAIN tx' = Handlers /\ tx'[w] = Idle /\ \A v \in Handlers \ {w} : tx'[v] = tx[v]
  BY <1>3, BecomesOne DEF IInv
<1>13. commits' \in Nat /\ commits <= commits'
  BY <1>3, <1>6
<1>14. RequestOK(w)'
  BY <1>12, <1>13, IdleRequest, FreeRequest
<1>15. ASSUME NEW v \in Handlers \ {w} PROVE RequestOK(v)'
  <2>1. PICK u : u = tx[v]
    OBVIOUS
  <2>2. RequestOK(v) /\ tx'[v] = u
    BY <1>12, <2>1 DEF IInv
  <2> QED
    BY <1>3, <1>4, <1>6, <1>13, <2>1, <2>2, OtherRequest
<1> QED
  BY <1>3, <1>10, <1>11, <1>12, <1>13, <1>14, <1>15 DEF IInv

\* create_claim reads the claims on the policy.
LEMMA ReadClaimsInv == ASSUME IInv, NEW w \in Handlers, ReadClaims(w) PROVE IInv'
<1>1. PICK p \in policies, first \in Days, last \in Days :
        /\ first <= last
        /\ Becomes(w, [Begun("claim") EXCEPT !.policy = p.id, !.first = first, !.last = last,
                                             !.seen = ClaimedDates(p)])
        /\ UNCHANGED <<now, policies, claims, commits>>
  BY DEF ReadClaims
<1>2. PICK b, id, seen : b = Begun("claim") /\ id = p.id /\ seen = ClaimedDates(p)
  OBVIOUS
<1>3. PICK r : r = [b EXCEPT !.policy = id, !.first = first, !.last = last, !.seen = seen]
  OBVIOUS
<1>4. Becomes(w, r) /\ tx'[w] = r
  BY <1>1, <1>2, <1>3, BecomesOne DEF IInv
<1>5. DOMAIN b = DOMAIN Idle /\ b.step = "claim" /\ b.read = commits /\ b.began = now
  BY <1>2, BegunRequest
<1>6. /\ DOMAIN r = DOMAIN Idle /\ r.step = "claim" /\ r.read = commits /\ r.began = now
      /\ r.policy = id /\ r.first = first /\ r.last = last /\ r.seen = seen
  BY <1>3, <1>5, IdleRequest
<1>7. \A c \in claims : c.policy = id => c.first .. c.last \subseteq seen
  BY <1>2 DEF ClaimedDates
<1>8. RequestOK(w)'
  <2>1. commits \in Nat /\ now \in Nat /\ commits' = commits /\ policies' = policies /\ claims' = claims
    BY <1>1 DEF IInv
  <2> QED
    BY <1>1, <1>2, <1>4, <1>6, <1>7, <2>1 DEF RequestOK, SeenClaims
<1> QED
  BY <1>1, <1>4, <1>8, QuietStep

\* create_claim reads the policy's benefit and the closes of the days.
LEMMA ReadEvidenceInv == ASSUME IInv, NEW w \in Handlers, ReadEvidence(w) PROVE IInv'
<1>1. PICK t, policy : t = tx[w] /\ policy = (CHOOSE p \in policies : p.id = tx[w].policy)
  OBVIOUS
<1>2. /\ t.step = "claim" /\ UNCHANGED <<now, policies, claims, commits>>
      /\ IF Acceptable(policy, t.first, t.last, t.seen)
         THEN Becomes(w, [t EXCEPT !.step = "pay", !.benefit = policy.benefit])
         ELSE Becomes(w, Idle)
  BY <1>1 DEF ReadEvidence, At
<1>3. CASE ~Acceptable(policy, t.first, t.last, t.seen)
  BY <1>2, <1>3, EndsInv
<1>4. CASE Acceptable(policy, t.first, t.last, t.seen)
  <2>1. PICK benefit : benefit = policy.benefit
    OBVIOUS
  <2>2. PICK r : r = [t EXCEPT !.step = "pay", !.benefit = benefit]
    OBVIOUS
  <2>3. Becomes(w, r) /\ tx'[w] = r
    BY <1>2, <1>4, <2>1, <2>2, BecomesOne DEF IInv
  <2>4. /\ DOMAIN t = DOMAIN Idle /\ t.read \in Nat /\ t.read <= commits /\ t.began \in Nat
        /\ t.first \in Days /\ t.last \in Days /\ t.first <= t.last
        /\ \E p \in policies : p.id = t.policy
        /\ SeenClaims(t.policy, t.read, t.seen)
    BY <1>1, <1>2 DEF IInv, RequestOK
  <2>5. /\ DOMAIN r = DOMAIN Idle /\ r.step = "pay" /\ r.benefit = benefit
        /\ r.read = t.read /\ r.began = t.began /\ r.first = t.first /\ r.last = t.last
        /\ r.policy = t.policy /\ r.seen = t.seen
    BY <2>2, <2>4, IdleRequest
  <2>6. policy \in policies /\ policy.id = t.policy
    BY <1>1, <2>4
  <2>7. t.first >= policy.startsAt \div DayLength /\ (t.first .. t.last) \cap t.seen = {}
    <3>1. t.first \in Nat /\ t.last \in Nat
      BY <2>4, DaysAssumption
    <3>2. t.first \in t.first .. t.last
      BY <2>4, <3>1
    <3> QED
      BY <1>4, <3>2 DEF Acceptable, Eligible
  <2>8. RequestOK(w)'
    <3>1. policies' = policies /\ claims' = claims /\ commits' = commits
      BY <1>2
    <3>2. \E p \in policies' : p.id = r.policy /\ p.benefit = r.benefit /\ r.first >= p.startsAt \div DayLength
      BY <2>1, <2>5, <2>6, <2>7, <3>1
    <3> QED
      BY <2>3, <2>4, <2>5, <2>7, <3>1, <3>2 DEF RequestOK, SeenClaims, Insured
  <2> QED
    BY <1>2, <2>3, <2>8, QuietStep
<1> QED
  BY <1>3, <1>4

\* A claim is inserted: a claim that covers one of its days was not there when its
\* request read the claims.
LEMMA PayClaimInv == ASSUME IInv, NEW w \in Handlers, PayClaim(w) PROVE IInv'
<1>1. PICK t : t = tx[w]
  OBVIOUS
<1>2. PICK new : new = [policy |-> t.policy, first |-> t.first, last |-> t.last,
                        amount |-> t.benefit * (t.last - t.first + 1), read |-> t.read, wrote |-> commits]
  OBVIOUS
<1>3. /\ t.step = "pay" /\ claims' = claims \cup {new} /\ commits' = commits + 1
      /\ Becomes(w, Idle) /\ now' = now /\ policies' = policies
  BY <1>1, <1>2 DEF PayClaim, At
<1>4. /\ new.policy = t.policy /\ new.first = t.first /\ new.last = t.last /\ new.read = t.read
      /\ new.wrote = commits /\ new.amount = t.benefit * (t.last - t.first + 1)
  BY <1>2
<1>5. /\ t.read \in Nat /\ t.read <= commits
      /\ t.first \in Nat /\ t.last \in Nat /\ t.first <= t.last
      /\ SeenClaims(t.policy, t.read, t.seen) /\ (t.first .. t.last) \cap t.seen = {}
      /\ Insured(t.policy, t.benefit, t.first)
  BY <1>1, <1>3, DaysAssumption DEF IInv, RequestOK
<1>6. commits \in Nat /\ PoliciesOK /\ ClaimsOK
  BY DEF IInv
<1>7. PoliciesOK'
  BY <1>3, <1>6, StampedStays DEF PoliciesOK, Overlapped
<1>8. \A c \in claims : Stamped(c) /\ c.wrote # commits
  BY <1>6 DEF ClaimsOK, Stamped
<1>9. ClaimsOK'
  <2>1. ASSUME NEW c \in claims'
        PROVE  /\ Stamped(c)' /\ c.first \in Nat /\ c.last \in Nat
               /\ \E benefit : /\ Insured(c.policy, benefit, c.first)
                               /\ c.amount = benefit * Cardinality(c.first .. c.last)
    <3>1. CASE c \in claims
      BY <1>3, <1>6, <3>1, StampedStays DEF ClaimsOK
    <3>2. CASE c = new
      <4>1. Cardinality(c.first .. c.last) = t.last - t.first + 1
        BY <1>4, <1>5, <3>2, DaysCounted
      <4>2. Insured(c.policy, t.benefit, c.first) /\ c.amount = t.benefit * Cardinality(c.first .. c.last)
        BY <1>4, <1>5, <3>2, <4>1
      <4>3. Stamped(c)'
        BY <1>3, <1>4, <1>5, <1>6, <3>2 DEF Stamped
      <4> QED
        BY <1>4, <1>5, <3>2, <4>2, <4>3
    <3> QED
      BY <1>3, <3>1, <3>2
  <2>2. \A c, d \in claims' : c.wrote = d.wrote => c = d
    BY <1>3, <1>4, <1>6, <1>8 DEF ClaimsOK
  <2>3. ASSUME NEW c \in claims, c.policy = new.policy, (c.first .. c.last) \cap (new.first .. new.last) # {}
        PROVE  Overlapped(c, new) /\ Overlapped(new, c)
    <3>1. ~(c.wrote < t.read)
      BY <1>4, <1>5, <2>3 DEF SeenClaims
    <3>2. new.read <= c.wrote
      BY <1>4, <1>5, <1>8, <3>1 DEF Stamped
    <3> QED
      BY <1>4, <1>5, <1>6, <1>8, <3>2, Later
  <2>4. ASSUME NEW c \in claims', NEW d \in claims', c # d, c.policy = d.policy,
               (c.first .. c.last) \cap (d.first .. d.last) # {}
        PROVE  Overlapped(c, d)
    <3>1. CASE c \in claims /\ d \in claims
      BY <1>6, <2>4, <3>1 DEF ClaimsOK
    <3>2. CASE c \in claims /\ d = new
      BY <2>3, <2>4, <3>2
    <3>3. CASE c = new /\ d \in claims
      <4>1. (d.first .. d.last) \cap (new.first .. new.last) # {}
        BY <2>4, <3>3
      <4> QED
        BY <2>3, <2>4, <3>3, <4>1
    <3> QED
      BY <1>3, <2>4, <3>1, <3>2, <3>3
  <2>5. policies' = policies
    BY <1>3
  <2> QED
    BY <2>1, <2>2, <2>4, <2>5 DEF ClaimsOK, Insured, Overlapped
<1>10. DOMAIN tx' = Handlers /\ tx'[w] = Idle /\ \A v \in Handlers \ {w} : tx'[v] = tx[v]
  BY <1>3, BecomesOne DEF IInv
<1>11. commits' \in Nat /\ commits <= commits'
  BY <1>3, <1>6
<1>12. RequestOK(w)'
  BY <1>10, <1>11, IdleRequest, FreeRequest
<1>13. ASSUME NEW v \in Handlers \ {w} PROVE RequestOK(v)'
  <2>1. PICK u : u = tx[v]
    OBVIOUS
  <2>2. RequestOK(v) /\ tx'[v] = u
    BY <1>10, <2>1 DEF IInv
  <2> QED
    BY <1>3, <1>4, <1>6, <1>11, <2>1, <2>2, OtherRequest
<1> QED
  BY <1>3, <1>7, <1>9, <1>10, <1>11, <1>12, <1>13 DEF IInv

\* Every step keeps the invariant.
LEMMA StepInv == IInv /\ [Next]_vars => IInv'
<1> SUFFICES ASSUME IInv, [Next]_vars PROVE IInv'
  OBVIOUS
<1>1. CASE UNCHANGED vars
  <2>1. UNCHANGED <<now, policies, claims, commits, tx>>
    BY <1>1 DEF vars
  <2>2. PoliciesOK' /\ ClaimsOK'
    BY <2>1 DEF IInv, PoliciesOK, ClaimsOK, Stamped, Insured, Overlapped
  <2>3. \A w \in Handlers : RequestOK(w)'
    BY <2>1 DEF IInv, RequestOK, SeenClaims, Insured
  <2> QED
    BY <2>1, <2>2, <2>3 DEF IInv
<1>2. CASE Ring \/ Tick \/ \E w \in Handlers : DeactivateProduct(w)
  BY <1>2, OutsideInv
<1>3. ASSUME NEW w \in Handlers, CloseDay(w) \/ ReopenDay(w) PROVE IInv'
  BY <1>3, DayRequestInv
<1>4. ASSUME NEW w \in Handlers, WriteDay(w) \/ AnswerQuote(w) PROVE IInv'
  BY <1>4, EndsInv DEF WriteDay, AnswerQuote
<1>5. ASSUME NEW w \in Handlers, ReadSales(w) \/ BuyFlat(w) PROVE IInv'
  BY <1>5, QuoteRequestInv
<1>6. ASSUME NEW w \in Handlers, ReadCloses(w) PROVE IInv'
  BY <1>6, ReadClosesInv
<1>7. ASSUME NEW w \in Handlers, CheckPolicies(w) PROVE IInv'
  BY <1>7, CheckPoliciesInv
<1>8. ASSUME NEW w \in Handlers, IssuePolicy(w) PROVE IInv'
  BY <1>8, IssuePolicyInv
<1>9. ASSUME NEW w \in Handlers, ReadClaims(w) PROVE IInv'
  BY <1>9, ReadClaimsInv
<1>10. ASSUME NEW w \in Handlers, ReadEvidence(w) PROVE IInv'
  BY <1>10, ReadEvidenceInv
<1>11. ASSUME NEW w \in Handlers, PayClaim(w) PROVE IInv'
  BY <1>11, PayClaimInv
<1> QED
  BY <1>1, <1>2, <1>3, <1>4, <1>5, <1>6, <1>7, <1>8, <1>9, <1>10, <1>11 DEF Next

\* What the invariant says of a claim is what the shop may rely on.
LEMMA SoundFromInv == IInv => ClaimsSound
<1> SUFFICES ASSUME IInv PROVE ClaimsSound
  OBVIOUS
<1>1. \A p, q \in policies : p.id = q.id => p = q
  BY DEF IInv, PoliciesOK
<1>2. ASSUME NEW c \in claims, NEW p \in policies, p.id = c.policy
      PROVE  /\ c.amount = p.benefit * Cardinality(c.first .. c.last)
             /\ c.first >= LocalDay(p.startsAt) - (IF p.startsAt % DayLength >= DayLength - Offset THEN 1 ELSE 0)
  <2>1. PICK benefit : /\ Insured(c.policy, benefit, c.first)
                       /\ c.amount = benefit * Cardinality(c.first .. c.last)
    BY DEF IInv, ClaimsOK
  <2>2. p.benefit = benefit /\ c.first >= p.startsAt \div DayLength
    BY <1>1, <1>2, <2>1 DEF Insured
  <2>3. p.startsAt \in Nat
    BY DEF IInv, PoliciesOK
  <2> QED
    BY <2>1, <2>2, <2>3, DayOfUtc
<1> QED
  BY <1>2, ProposalsAreTheClaims DEF IInv, PoliciesOK, ClaimsOK, ClaimsSound

\* A day is paid once under a policy and a product insured once, as far as requests do
\* not overlap; what a claim pays, and from which day; and detect_claimable_periods
\* proposes what create_claim accepts.
THEOREM ClaimsStaySound == Spec => []ClaimsSound
<1>1. Init => IInv
  BY InitInv
<1>2. IInv /\ [Next]_vars => IInv'
  BY StepInv
<1>3. IInv => ClaimsSound
  BY SoundFromInv
<1> QED
  BY <1>1, <1>2, <1>3, PTL DEF Spec
-----------------------------------------------------------------------------
\* Sums of a report.

\* A sum does not hang on what its terms are called.
LEMMA SigmaRenamed ==
    ASSUME NEW f, NEW g, NEW S, NEW T, IsFiniteSet(S), IsFiniteSet(T), NEW b \in [T -> S], Terms(f, S),
           \A x \in S : \E y \in T : b[y] = x,
           \A y, z \in T : b[y] = b[z] => y = z,
           \A y \in T : g[y] = f[b[y]]
    PROVE  Sigma(g, T) = Sigma(f, S)
<1>1. PICK G : G = [y \in T |-> {b[y]}]
  OBVIOUS
<1>2. ASSUME NEW y \in T PROVE g[y] = Sigma(f, G[y])
  <2>1. b[y] \in S
    OBVIOUS
  <2>2. Sigma(f, {b[y]}) = f[b[y]]
    BY <2>1, SigmaSingleton DEF Terms
  <2> QED
    BY <1>1, <2>2
<1>3. Totals(g, f, G, T)
  BY <1>2 DEF Totals
<1>4. Partition(G, T, S)
  BY <1>1 DEF Partition
<1> QED
  BY <1>3, <1>4, SigmaByGroups

\* What a sale brought in.
Net(S) == [s \in S |-> s.total - s.refunded]

\* The revenue of some sales is a sum of what they brought in.
LEMMA RevenueIs ==
    ASSUME NEW S \in SUBSET SaleRecord, IsFiniteSet(S), NEW C \in SUBSET S
    PROVE  Revenue(C) = Sigma(Net(S), C) /\ Revenue(C) \in Int /\ IsFiniteSet(C)
<1>1. \A s \in S : Net(S)[s] \in Int
  BY DEF Net, SaleRecord
<1>2. IsFiniteSet(C)
  BY FS_Subset
<1>3. PICK f, g : f = Net(S) /\ g = [s \in C |-> s.total - s.refunded]
  OBVIOUS
<1>4. \A s \in C : f[s] \in Int /\ g[s] = f[s]
  BY <1>1, <1>3 DEF Net
<1>5. Sigma(g, C) = Sigma(f, C) /\ Sigma(f, C) \in Int
  BY <1>2, <1>4, SigmaSame, SigmaType
<1> QED
  BY <1>2, <1>3, <1>5 DEF Revenue

\* Sales grouped by anything they have bring in together what they bring in.
LEMMA RevenueByGroups ==
    ASSUME NEW C \in SUBSET SaleRecord, IsFiniteSet(C), NEW T, IsFiniteSet(T), NEW key, NEW f,
           \A s \in C : key[s] \in T,
           \A y \in T : f[y] = Revenue({s \in C : key[s] = y})
    PROVE  Sigma(f, T) = Revenue(C)
<1>1. PICK G : G = [y \in T |-> {s \in C : key[s] = y}]
  OBVIOUS
<1>2. PICK net : net = Net(C)
  OBVIOUS
<1>3. Terms(net, C)
  BY <1>2 DEF Net, SaleRecord, Terms
<1>4. ASSUME NEW y \in T PROVE f[y] = Sigma(net, G[y])
  <2>1. G[y] \in SUBSET C /\ f[y] = Revenue(G[y])
    BY <1>1
  <2> QED
    BY <1>2, <2>1, RevenueIs
<1>5. Totals(f, net, G, T)
  BY <1>4 DEF Totals
<1>6. Partition(G, T, C)
  BY <1>1 DEF Partition
<1>7. Sigma(f, T) = Sigma(net, C)
  BY <1>3, <1>5, <1>6, SigmaByGroups
<1>8. Revenue(C) = Sigma(net, C)
  BY <1>2, RevenueIs
<1> QED
  BY <1>7, <1>8

\* What ReportsAgree adds up of a table.
Column(table) == [k \in DOMAIN table |-> table[k].revenue]

\* The table by staff adds up to the revenue of the period.
LEMMA StaffAddUp ==
    ASSUME NEW S \in SUBSET SaleRecord, IsFiniteSet(S), NEW period, NEW at, NEW table,
           table = SalesByStaff(S, period, at)
    PROVE  Sigma(Column(table), DOMAIN table) = Revenue(Reportable(S, PeriodBounds(period, at)))
<1>1. PICK C : C = Reportable(S, PeriodBounds(period, at))
  OBVIOUS
<1>2. C \in SUBSET S /\ IsFiniteSet(C) /\ C \in SUBSET SaleRecord
  BY <1>1, FS_Subset DEF Reportable
<1>3. PICK key : key = [s \in C |-> s.user]
  OBVIOUS
<1>4. PICK T : T = {key[s] : s \in C}
  OBVIOUS
<1>5. IsFiniteSet(T) /\ \A s \in C : key[s] \in T
  BY <1>2, <1>4, ImageFinite
<1>6. table = [u \in {s.user : s \in C} |-> GroupOf({s \in C : s.user = u})]
  BY <1>1 DEF SalesByStaff
<1>7. {s.user : s \in C} = T
  BY <1>3, <1>4
<1>8. DOMAIN table = T
  BY <1>6, <1>7
<1>9. ASSUME NEW u \in T PROVE Column(table)[u] = Revenue({s \in C : key[s] = u})
  <2>1. {s \in C : key[s] = u} = {s \in C : s.user = u}
    BY <1>3
  <2>2. table[u].revenue = Revenue({s \in C : s.user = u})
    BY <1>6, <1>7 DEF GroupOf
  <2> QED
    BY <1>8, <2>1, <2>2 DEF Column
<1>10. PICK f : f = Column(table)
  OBVIOUS
<1>11. Sigma(f, T) = Revenue(C)
  BY <1>2, <1>5, <1>9, <1>10, RevenueByGroups
<1> QED
  BY <1>1, <1>8, <1>10, <1>11

\* The table by method, likewise.
LEMMA MethodsAddUp ==
    ASSUME NEW S \in SUBSET SaleRecord, IsFiniteSet(S), NEW period, NEW at, NEW table,
           table = SalesByMethod(S, period, at)
    PROVE  Sigma(Column(table), DOMAIN table) = Revenue(Reportable(S, PeriodBounds(period, at)))
<1>1. PICK C : C = Reportable(S, PeriodBounds(period, at))
  OBVIOUS
<1>2. C \in SUBSET S /\ IsFiniteSet(C) /\ C \in SUBSET SaleRecord
  BY <1>1, FS_Subset DEF Reportable
<1>3. PICK key : key = [s \in C |-> s.method]
  OBVIOUS
<1>4. PICK T : T = {key[s] : s \in C}
  OBVIOUS
<1>5. IsFiniteSet(T) /\ \A s \in C : key[s] \in T
  BY <1>2, <1>4, ImageFinite
<1>6. table = [m \in {s.method : s \in C} |-> GroupOf({s \in C : s.method = m})]
  BY <1>1 DEF SalesByMethod
<1>7. {s.method : s \in C} = T
  BY <1>3, <1>4
<1>8. DOMAIN table = T
  BY <1>6, <1>7
<1>9. ASSUME NEW m \in T PROVE Column(table)[m] = Revenue({s \in C : key[s] = m})
  <2>1. {s \in C : key[s] = m} = {s \in C : s.method = m}
    BY <1>3
  <2>2. table[m].revenue = Revenue({s \in C : s.method = m})
    BY <1>6, <1>7 DEF GroupOf
  <2> QED
    BY <1>8, <2>1, <2>2 DEF Column
<1>10. PICK f : f = Column(table)
  OBVIOUS
<1>11. Sigma(f, T) = Revenue(C)
  BY <1>2, <1>5, <1>9, <1>10, RevenueByGroups
<1> QED
  BY <1>1, <1>8, <1>10, <1>11
-----------------------------------------------------------------------------
\* Days of a report.

\* A range of days holds the instants of its days.
LEMMA InRange ==
    ASSUME NEW t \in Nat, NEW a \in Int, NEW b \in Int
    PROVE  /\ LocalDay(t) \in Int
           /\ t \in LocalDateRange(a, b) <=> a <= LocalDay(t) /\ LocalDay(t) <= b
<1>1. PICK d, o : d = DayLength /\ o = Offset
  OBVIOUS
<1>2. d \in Nat /\ d > 0 /\ o \in Nat
  BY <1>1, ReportsAssumption
<1>3. PICK u : u = t + o
  OBVIOUS
<1>4. PICK q, r : q = u \div d /\ r = u % d
  OBVIOUS
<1>5. q \in Int /\ r \in Int /\ 0 <= r /\ r < d /\ u = q * d + r /\ u \in Nat
  BY <1>2, <1>3, <1>4
<1>6. LocalDay(t) = q
  BY <1>1, <1>3, <1>4 DEF LocalDay
<1>7. t \in LocalDateRange(a, b) <=> a * d <= u /\ u < (b + 1) * d
  <2>1. PICK low, high : low = a * d /\ high = (b + 1) * d
    OBVIOUS
  <2>2. low \in Int /\ high \in Int
    BY <1>2, <2>1
  <2>3. LocalDateRange(a, b) = (low - o) .. (high - o - 1)
    BY <1>1, <2>1 DEF LocalDateRange, DayStart
  <2> QED
    BY <1>2, <1>3, <2>1, <2>2, <2>3
<1>8. a * d <= u <=> a <= q
  <2>1. CASE a <= q
    <3>1. a * d <= q * d
      BY <1>2, <1>5, <2>1
    <3> QED
      BY <1>2, <1>5, <2>1, <3>1
  <2>2. CASE a >= q + 1
    <3>1. a * d >= q * d + d
      <4>1. a * d >= (q + 1) * d /\ (q + 1) * d = q * d + d
        BY <1>2, <1>5, <2>2
      <4> QED
        BY <4>1
    <3> QED
      BY <1>2, <1>5, <2>2, <3>1
  <2> QED
    BY <1>5, <2>1, <2>2
<1>9. u < (b + 1) * d <=> q <= b
  <2>0. (b + 1) * d = b * d + d /\ b * d \in Int
    BY <1>2
  <2>1. CASE q <= b
    <3>1. q * d <= b * d
      BY <1>2, <1>5, <2>1
    <3> QED
      BY <1>2, <1>5, <2>0, <2>1, <3>1
  <2>2. CASE q >= b + 1
    <3>1. q * d >= (b + 1) * d
      BY <1>2, <1>5, <2>2
    <3> QED
      BY <1>2, <1>5, <2>0, <2>2, <3>1
  <2> QED
    BY <1>5, <2>1, <2>2
<1> QED
  BY <1>5, <1>6, <1>7, <1>8, <1>9

\* So do the sales that count in it.
LEMMA ReportableDays ==
    ASSUME NEW S \in SUBSET SaleRecord, NEW a \in Int, NEW b \in Int, NEW s
    PROVE  s \in Reportable(S, LocalDateRange(a, b)) <=>
             /\ s \in S /\ s.status \in {"completed", "partially_refunded"}
             /\ a <= LocalDay(s.at) /\ LocalDay(s.at) <= b
<1>1. \A z \in S : z.at \in Nat
  BY DEF SaleRecord
<1> QED
  BY <1>1, InRange DEF Reportable

\* The shop's day of a moment.
LEMMA DayOf == ASSUME NEW t \in Nat PROVE LocalDay(t) \in Int
  BY InRange

\* The days of a window, oldest first, and the sales on each.
LEMMA WindowDays ==
    ASSUME NEW at \in Nat, NEW n \in Nat, NEW i \in 1 .. n
    PROVE  Window(n, at)[i] = LocalDay(at) - n + i /\ Window(n, at)[i] \in Int
  BY DayOf DEF Window

\* The sales a window has on a day are those that count in that day alone.
LEMMA OnDayIs ==
    ASSUME NEW S \in SUBSET SaleRecord, NEW at \in Nat, NEW n \in Nat, NEW i \in 1 .. n, NEW d,
           d = Window(n, at)[i]
    PROVE  OnDay(S, n, at, d) = Reportable(S, LocalDateRange(d, d))
<1>1. PICK today : today = LocalDay(at)
  OBVIOUS
<1>2. today \in Int /\ d = today - n + i /\ d \in Int
  BY <1>1, DayOf, WindowDays
<1>3. PICK all, one : /\ all = Reportable(S, LocalDateRange(today - n + 1, today))
                      /\ one = Reportable(S, LocalDateRange(d, d))
  OBVIOUS
<1>4. \A s \in S : LocalDay(s.at) \in Int
  BY DayOf DEF SaleRecord
<1>5. today - n + 1 \in Int
  BY <1>2
<1>6. ASSUME NEW s PROVE s \in all /\ LocalDay(s.at) = d <=> s \in one
  <2>1. s \in all <=> /\ s \in S /\ s.status \in {"completed", "partially_refunded"}
                      /\ today - n + 1 <= LocalDay(s.at) /\ LocalDay(s.at) <= today
    BY <1>2, <1>3, <1>5, ReportableDays
  <2>2. s \in one <=> /\ s \in S /\ s.status \in {"completed", "partially_refunded"}
                      /\ d <= LocalDay(s.at) /\ LocalDay(s.at) <= d
    BY <1>2, <1>3, ReportableDays
  <2>3. s \in S => LocalDay(s.at) \in Int
    BY <1>4
  <2>4. today - n + 1 <= d /\ d <= today
    BY <1>2
  <2> QED
    BY <1>2, <2>1, <2>2, <2>3, <2>4
<1>7. OnDay(S, n, at, d) = {s \in all : LocalDay(s.at) = d}
  BY <1>1, <1>3 DEF OnDay
<1>8. {s \in all : LocalDay(s.at) = d} = one
  BY <1>6
<1> QED
  BY <1>3, <1>7, <1>8

\* Whatever is summed over the sales, the days of a window add up to what its range does.
LEMMA DaysSum ==
    ASSUME NEW S \in SUBSET SaleRecord, IsFiniteSet(S), NEW at \in Nat, NEW n \in Nat,
           NEW v, Terms(v, S), NEW f,
           \A i \in 1 .. n : f[i] = Sigma(v, OnDay(S, n, at, Window(n, at)[i]))
    PROVE  Sigma(f, 1 .. n) =
             Sigma(v, Reportable(S, LocalDateRange(LocalDay(at) - (n - 1), LocalDay(at))))
<1>1. PICK today : today = LocalDay(at)
  OBVIOUS
<1>2. today \in Int
  BY <1>1, DayOf
<1>3. PICK C : C = Reportable(S, LocalDateRange(today - (n - 1), today))
  OBVIOUS
<1>4. C \in SUBSET S /\ C \in SUBSET SaleRecord /\ IsFiniteSet(C)
  BY <1>3, FS_Subset DEF Reportable
<1>5. PICK key : key = [s \in C |-> LocalDay(s.at) - today + n]
  OBVIOUS
<1>6. today - (n - 1) \in Int /\ today - (n - 1) = today - n + 1
  BY <1>2
<1>7. ASSUME NEW s \in C PROVE key[s] \in 1 .. n /\ LocalDay(s.at) \in Int
  <2>1. LocalDay(s.at) \in Int
    BY <1>4, DayOf DEF SaleRecord
  <2>2. today - (n - 1) <= LocalDay(s.at) /\ LocalDay(s.at) <= today
    BY <1>2, <1>3, <1>6, ReportableDays
  <2>3. key[s] = LocalDay(s.at) - today + n
    BY <1>5
  <2> QED
    BY <1>2, <2>1, <2>2, <2>3
<1>8. PICK I, G : I = 1 .. n /\ G = [i \in I |-> {s \in C : key[s] = i}]
  OBVIOUS
<1>9. ASSUME NEW i \in I PROVE f[i] = Sigma(v, G[i])
  <2>1. PICK d : d = Window(n, at)[i]
    OBVIOUS
  <2>2. i \in 1 .. n /\ d = today - n + i /\ d \in Int
    BY <1>1, <1>8, <2>1, WindowDays
  <2>3. OnDay(S, n, at, d) = {s \in C : LocalDay(s.at) = d}
    BY <1>1, <1>3, <1>6 DEF OnDay
  <2>4. \A s \in C : LocalDay(s.at) = d <=> key[s] = i
    BY <1>2, <1>5, <1>7, <2>2
  <2>5. {s \in C : LocalDay(s.at) = d} = {s \in C : key[s] = i}
    BY <2>4
  <2> QED
    BY <1>8, <2>1, <2>2, <2>3, <2>5
<1>10. IsFiniteSet(I)
  BY <1>8, FS_Interval
<1>11. Totals(f, v, G, I)
  BY <1>9 DEF Totals
<1>12. Partition(G, I, C)
  <2>1. \A s \in C : key[s] \in I
    BY <1>7, <1>8
  <2> QED
    BY <1>8, <2>1 DEF Partition
<1>13. Terms(v, C)
  BY <1>4 DEF Terms
<1>14. Sigma(f, I) = Sigma(v, C)
  BY <1>4, <1>10, <1>11, <1>12, <1>13, SigmaByGroups
<1> QED
  BY <1>1, <1>3, <1>8, <1>14

\* The days of a window bring in together what its range does.
LEMMA DaysAddUp ==
    ASSUME NEW S \in SUBSET SaleRecord, IsFiniteSet(S), NEW at \in Nat, NEW n \in Nat, NEW f,
           \A i \in 1 .. n : f[i] = Revenue(OnDay(S, n, at, Window(n, at)[i]))
    PROVE  Sigma(f, 1 .. n) =
             Revenue(Reportable(S, LocalDateRange(LocalDay(at) - (n - 1), LocalDay(at))))
<1>1. PICK net : net = Net(S)
  OBVIOUS
<1>2. Terms(net, S)
  BY <1>1 DEF Net, SaleRecord, Terms
<1>3. PICK C : C = Reportable(S, LocalDateRange(LocalDay(at) - (n - 1), LocalDay(at)))
  OBVIOUS
<1>4. C \in SUBSET S
  BY <1>3 DEF Reportable
<1>5. ASSUME NEW i \in 1 .. n PROVE f[i] = Sigma(net, OnDay(S, n, at, Window(n, at)[i]))
  <2>1. PICK D : D = OnDay(S, n, at, Window(n, at)[i])
    OBVIOUS
  <2>2. D \in SUBSET S
    BY <2>1 DEF OnDay, Reportable
  <2> QED
    BY <1>1, <2>1, <2>2, RevenueIs
<1>6. Sigma(f, 1 .. n) = Sigma(net, C)
  BY <1>2, <1>3, <1>5, DaysSum
<1> QED
  BY <1>1, <1>3, <1>4, <1>6, RevenueIs
-----------------------------------------------------------------------------
\* Items of a report.

\* Terms of which all but some are nothing.
LEMMA SigmaFilter ==
    ASSUME NEW f, NEW g, NEW S, IsFiniteSet(S), NEW T \in SUBSET S, Terms(f, S),
           \A x \in T : g[x] = f[x], \A x \in S \ T : g[x] = 0
    PROVE  Sigma(g, S) = Sigma(f, T)
<1>1. PICK U : U = S \ T
  OBVIOUS
<1>2. U \in SUBSET S /\ T \cup U = S /\ T \cap U = {}
  BY <1>1
<1>3. IsFiniteSet(T) /\ IsFiniteSet(U)
  BY <1>2, FS_Subset
<1>4. \A x \in U : g[x] = 0
  BY <1>1
<1>5. \A x \in T : f[x] \in Int /\ g[x] = f[x]
  BY DEF Terms
<1>6. \A x \in T \cup U : g[x] \in Int
  BY <1>4, <1>5
<1>7. Sigma(g, T \cup U) = Sigma(g, T) + Sigma(g, U)
  BY <1>2, <1>3, <1>6, SigmaUnion
<1>8. Sigma(g, U) = 0
  BY <1>3, <1>4, SigmaZero
<1>9. Sigma(g, T) = Sigma(f, T) /\ Sigma(f, T) \in Int
  BY <1>3, <1>5, SigmaSame, SigmaType
<1>10. Sigma(g, S) = Sigma(g, T) + Sigma(g, U)
  BY <1>2, <1>7
<1> QED
  BY <1>8, <1>9, <1>10

\* The items of some sales, each with its sale, and the products they are of.
Cells(C) == UNION {{s} \X DOMAIN s.items : s \in C}
ItemOf(c) == c[1].items[c[2]]

\* An item of one of the sales is one of these.
LEMMA CellIs ==
    ASSUME NEW C \in SUBSET SaleRecord, NEW s \in C, NEW i \in DOMAIN s.items, NEW c, c = <<s, i>>
    PROVE  c \in Cells(C) /\ ItemOf(c) = s.items[i]
  BY DEF Cells, ItemOf

\* Each of these is an item of its sale.
LEMMA CellHas ==
    ASSUME NEW C \in SUBSET SaleRecord, NEW c \in Cells(C)
    PROVE  c[1] \in C /\ c[2] \in DOMAIN c[1].items /\ c = <<c[1], c[2]>> /\ ItemOf(c) \in SaleItem
<1>1. PICK s \in C : c \in {s} \X DOMAIN s.items
  BY DEF Cells
<1>2. c[1] = s /\ c[2] \in DOMAIN s.items /\ c = <<c[1], c[2]>>
  BY <1>1
<1>3. s.items \in Seq(SaleItem)
  BY DEF SaleRecord
<1>4. s.items[c[2]] \in SaleItem
  BY <1>2, <1>3
<1> QED
  BY <1>2, <1>4 DEF ItemOf

\* A sale has finitely many items.
LEMMA ItemsFinite == ASSUME NEW s \in SaleRecord PROVE IsFiniteSet(DOMAIN s.items)
<1>1. s.items \in Seq(SaleItem)
  BY DEF SaleRecord
<1>2. DOMAIN s.items = 1 .. Len(s.items) /\ Len(s.items) \in Nat
  BY <1>1
<1> QED
  BY <1>2, FS_Interval

\* So have finitely many sales.
LEMMA CellsFinite ==
    ASSUME NEW C \in SUBSET SaleRecord, IsFiniteSet(C)
    PROVE  IsFiniteSet(Cells(C))
<1>1. PICK f : f = [s \in C |-> {s} \X DOMAIN s.items]
  OBVIOUS
<1>2. PICK parts : parts = {f[s] : s \in C}
  OBVIOUS
<1>3. IsFiniteSet(parts)
  BY <1>2, ImageFinite
<1>4. ASSUME NEW T \in parts PROVE IsFiniteSet(T)
  <2>1. PICK s \in C : T = {s} \X DOMAIN s.items
    BY <1>1, <1>2
  <2> QED
    BY <2>1, ItemsFinite, FS_Singleton, FS_Product
<1>5. Cells(C) = UNION parts
  BY <1>1, <1>2 DEF Cells
<1> QED
  BY <1>3, <1>4, <1>5, FS_UNION

\* A loop over sales and, in it, one over their items.
OfSale(o, s) == Sigma([i \in DOMAIN s.items |-> o[<<s, i>>]], DOMAIN s.items)

\* Summed sale by sale, the items add up to what they do taken all together.
LEMMA CellsBySale ==
    ASSUME NEW C \in SUBSET SaleRecord, IsFiniteSet(C), NEW o, Terms(o, Cells(C)), NEW h,
           \A s \in C : h[s] = OfSale(o, s)
    PROVE  Sigma(h, C) = Sigma(o, Cells(C))
<1>1. PICK G : G = [s \in C |-> {s} \X DOMAIN s.items]
  OBVIOUS
<1>2. PICK S : S = Cells(C)
  OBVIOUS
<1>3. IsFiniteSet(S)
  BY <1>2, CellsFinite
<1>4. ASSUME NEW s \in C PROVE h[s] = Sigma(o, G[s])
  <2>1. PICK T, R : T = DOMAIN s.items /\ R = {s} \X DOMAIN s.items
    OBVIOUS
  <2>2. PICK b, g : b = [i \in T |-> <<s, i>>] /\ g = [i \in T |-> o[<<s, i>>]]
    OBVIOUS
  <2>3. IsFiniteSet(T) /\ R \in SUBSET S
    BY <1>2, <2>1, ItemsFinite DEF Cells
  <2>4. IsFiniteSet(R)
    BY <1>3, <2>3, FS_Subset
  <2>5. b \in [T -> R]
    BY <2>1, <2>2
  <2>6. Terms(o, R)
    BY <1>2, <2>3 DEF Terms
  <2>7. \A x \in R : \E i \in T : b[i] = x
    BY <2>1, <2>2
  <2>8. \A i, j \in T : b[i] = b[j] => i = j
    BY <2>2
  <2>9. \A i \in T : g[i] = o[b[i]]
    BY <2>2
  <2>10. Sigma(g, T) = Sigma(o, R)
    BY <2>3, <2>4, <2>5, <2>6, <2>7, <2>8, <2>9, SigmaRenamed
  <2>11. h[s] = Sigma(g, T)
    BY <2>1, <2>2 DEF OfSale
  <2> QED
    BY <1>1, <2>1, <2>10, <2>11
<1>5. Totals(h, o, G, C)
  BY <1>4 DEF Totals
<1>6. Partition(G, C, S)
  <2>1. \A s \in C : G[s] \in SUBSET S
    BY <1>1, <1>2 DEF Cells
  <2>2. \A c \in S : \E s \in C : c \in G[s]
    BY <1>1, <1>2 DEF Cells
  <2>3. \A s, t \in C : s # t => G[s] \cap G[t] = {}
    BY <1>1
  <2> QED
    BY <2>1, <2>2, <2>3 DEF Partition
<1> QED
  BY <1>2, <1>3, <1>5, <1>6, SigmaByGroups

\* What is left of an item, and what that is worth.
Left(C) == [c \in Cells(C) |-> RemainingQty(ItemOf(c))]
Worth(C) == [c \in Cells(C) |-> RemainingTotal(ItemOf(c))]

\* The items of a product, and of some products.
CellsOf(C, p) == {c \in Cells(C) : ItemOf(c).product = p}
CellsIn(C, P) == {c \in Cells(C) : ItemOf(c).product \in P}

\* What is left of an item and its worth are whole numbers.
LEMMA RestIsInt ==
    ASSUME NEW item \in SaleItem
    PROVE  RemainingQty(item) \in Int /\ RemainingTotal(item) \in Int /\ item.cost \in Int
<1>1. PICK a, q, k : a = item.total /\ q = RemainingQty(item) /\ k = QtyScale \div item.qty
  OBVIOUS
<1>2. a \in Int /\ q \in Int /\ item.cost \in Int
  BY <1>1 DEF SaleItem, RemainingQty
<1>3. k \in Int
  <2>1. PICK d : d = item.qty
    OBVIOUS
  <2>2. d \in Nat \ {0} /\ QtyScale \in Nat
    BY <2>1, ReportsAssumption DEF SaleItem
  <2>3. QtyScale \div d \in Int
    BY <2>2
  <2> QED
    BY <1>1, <2>1, <2>3
<1>4. a * q \in Int
  BY <1>2
<1>5. PICK b : b = a * q
  OBVIOUS
<1>6. b * k \in Int
  BY <1>3, <1>4, <1>5
<1>7. RemainingTotal(item) = b * k
  BY <1>1, <1>5 DEF RemainingTotal
<1> QED
  BY <1>1, <1>2, <1>6, <1>7

\* These are numbers.
LEMMA CellTerms ==
    ASSUME NEW C \in SUBSET SaleRecord PROVE Terms(Left(C), Cells(C)) /\ Terms(Worth(C), Cells(C))
<1>1. \A c \in Cells(C) : RemainingQty(ItemOf(c)) \in Int /\ RemainingTotal(ItemOf(c)) \in Int
  BY CellHas, RestIsInt
<1> QED
  BY <1>1 DEF Terms, Left, Worth

\* The items of a summary are what is left of all of them.
LEMMA ItemsSummed ==
    ASSUME NEW C \in SUBSET SaleRecord, IsFiniteSet(C)
    PROVE  SumOfItems(RemainingQty, C) = Sigma(Left(C), Cells(C))
<1>1. PICK o : o = Left(C)
  OBVIOUS
<1>2. PICK h : h = [s \in C |-> Sigma([i \in DOMAIN s.items |-> RemainingQty(s.items[i])], DOMAIN s.items)]
  OBVIOUS
<1>3. ASSUME NEW s \in C PROVE h[s] = OfSale(o, s)
  <2>1. ASSUME NEW i \in DOMAIN s.items PROVE o[<<s, i>>] = RemainingQty(s.items[i])
    BY <1>1, CellIs DEF Left
  <2>2. [i \in DOMAIN s.items |-> RemainingQty(s.items[i])] = [i \in DOMAIN s.items |-> o[<<s, i>>]]
    BY <2>1
  <2> QED
    BY <1>2, <2>2 DEF OfSale
<1>4. SumOfItems(RemainingQty, C) = Sigma(h, C)
  BY <1>2 DEF SumOfItems
<1>5. Terms(o, Cells(C))
  BY <1>1, CellTerms
<1> QED
  BY <1>1, <1>3, <1>4, <1>5, CellsBySale

\* A column of the items, and nothing where they are not of a product.
OfOne(f, C, p) == [c \in Cells(C) |-> IF ItemOf(c).product = p THEN f[c] ELSE 0]

\* Summed sale by sale, it adds up to what the items of the product do.
LEMMA ProductSum ==
    ASSUME NEW C \in SUBSET SaleRecord, IsFiniteSet(C), NEW f, Terms(f, Cells(C)), NEW p, NEW h,
           \A s \in C : h[s] = OfSale(OfOne(f, C, p), s)
    PROVE  Sigma(h, C) = Sigma(f, CellsOf(C, p))
<1>1. PICK o, A, B : o = OfOne(f, C, p) /\ A = Cells(C) /\ B = CellsOf(C, p)
  OBVIOUS
<1>2. Terms(o, A)
  BY <1>1 DEF Terms, OfOne
<1>3. Sigma(h, C) = Sigma(o, A)
  BY <1>1, <1>2, CellsBySale
<1>4. B \in SUBSET A /\ (\A c \in B : o[c] = f[c]) /\ \A c \in A \ B : o[c] = 0
  BY <1>1 DEF OfOne, CellsOf
<1>5. IsFiniteSet(A) /\ Terms(f, A)
  BY <1>1, CellsFinite
<1>6. Sigma(o, A) = Sigma(f, B)
  BY <1>4, <1>5, SigmaFilter
<1> QED
  BY <1>1, <1>3, <1>6

\* A row of the lists of sellers: what is left of the items of its product, and its worth.
LEMMA RowSummed ==
    ASSUME NEW S \in SUBSET SaleRecord, NEW period, NEW at, NEW p, NEW C, IsFiniteSet(C),
           C = Reportable(S, PeriodBounds(period, at))
    PROVE  /\ SoldOf(S, period, at, p).product = p
           /\ SoldOf(S, period, at, p).qty = Sigma(Left(C), CellsOf(C, p))
           /\ SoldOf(S, period, at, p).revenue = Sigma(Worth(C), CellsOf(C, p))
<1>1. PICK left, worth : left = Left(C) /\ worth = Worth(C)
  OBVIOUS
<1>2. PICK g : g = [s \in C |-> Sigma([i \in DOMAIN s.items |->
                                  IF s.items[i].product = p THEN RemainingQty(s.items[i]) ELSE 0], DOMAIN s.items)]
  OBVIOUS
<1>3. PICK h : h = [s \in C |-> Sigma([i \in DOMAIN s.items |->
                                  IF s.items[i].product = p THEN RemainingTotal(s.items[i]) ELSE 0], DOMAIN s.items)]
  OBVIOUS
<1>4. C \in SUBSET SaleRecord
  BY DEF Reportable
<1>5. ASSUME NEW s \in C PROVE g[s] = OfSale(OfOne(left, C, p), s)
  <2>1. PICK o : o = OfOne(left, C, p)
    OBVIOUS
  <2>2. ASSUME NEW i \in DOMAIN s.items
        PROVE  o[<<s, i>>] = IF s.items[i].product = p THEN RemainingQty(s.items[i]) ELSE 0
    BY <1>1, <1>4, <2>1, CellIs DEF OfOne, Left
  <2>3. [i \in DOMAIN s.items |-> IF s.items[i].product = p THEN RemainingQty(s.items[i]) ELSE 0]
          = [i \in DOMAIN s.items |-> o[<<s, i>>]]
    BY <2>2
  <2> QED
    BY <1>2, <2>1, <2>3 DEF OfSale
<1>6. ASSUME NEW s \in C PROVE h[s] = OfSale(OfOne(worth, C, p), s)
  <2>1. PICK o : o = OfOne(worth, C, p)
    OBVIOUS
  <2>2. ASSUME NEW i \in DOMAIN s.items
        PROVE  o[<<s, i>>] = IF s.items[i].product = p THEN RemainingTotal(s.items[i]) ELSE 0
    BY <1>1, <1>4, <2>1, CellIs DEF OfOne, Worth
  <2>3. [i \in DOMAIN s.items |-> IF s.items[i].product = p THEN RemainingTotal(s.items[i]) ELSE 0]
          = [i \in DOMAIN s.items |-> o[<<s, i>>]]
    BY <2>2
  <2> QED
    BY <1>3, <2>1, <2>3 DEF OfSale
<1>7. /\ SoldOf(S, period, at, p).product = p
      /\ SoldOf(S, period, at, p).qty = Sigma(g, C)
      /\ SoldOf(S, period, at, p).revenue = Sigma(h, C)
  BY <1>2, <1>3 DEF SoldOf, SumOfItems
<1>8. Terms(left, Cells(C)) /\ Terms(worth, Cells(C))
  BY <1>1, <1>4, CellTerms
<1>9. Sigma(g, C) = Sigma(left, CellsOf(C, p))
  BY <1>4, <1>5, <1>8, ProductSum
<1>10. Sigma(h, C) = Sigma(worth, CellsOf(C, p))
  BY <1>4, <1>6, <1>8, ProductSum
<1> QED
  BY <1>1, <1>7, <1>9, <1>10
-----------------------------------------------------------------------------
\* Lists of sellers.

\* What an injection of finite sets of one size reaches: everything.
LEMMA Reached ==
    ASSUME NEW n \in Nat, NEW T, IsFiniteSet(T), n = Cardinality(T), NEW q \in [1 .. n -> T],
           \A i, j \in 1 .. n : i # j => q[i] # q[j]
    PROVE  \A x \in T : \E i \in 1 .. n : q[i] = x
<1>1. PICK D : D = 1 .. n
  OBVIOUS
<1>2. IsFiniteSet(D) /\ Cardinality(D) = n
  BY <1>1, FS_Interval
<1>3. q \in Injection(D, T)
  BY <1>1 DEF Injection, IsInjective
<1>4. q \in Surjection(D, T)
  BY <1>2, <1>3, FS_Injection
<1> QED
  BY <1>1, <1>4 DEF Surjection

\* The rows of some products are no more than the products.
LEMMA RowsCounted ==
    ASSUME NEW P \in SUBSET Goods, NEW row, NEW rows, rows = {row[p] : p \in P}
    PROVE  IsFiniteSet(rows) /\ IsFiniteSet(P) /\ Cardinality(rows) \in Nat /\ Cardinality(Goods) \in Nat
           /\ Cardinality(rows) <= Cardinality(Goods)
<1>1. IsFiniteSet(Goods)
  BY ReportsAssumption
<1>2. IsFiniteSet(P) /\ Cardinality(P) <= Cardinality(Goods)
  BY <1>1, FS_Subset
<1>3. PICK g : g = [p \in P |-> row[p]]
  OBVIOUS
<1>4. g \in Surjection(P, rows)
  BY <1>3 DEF Surjection
<1>5. IsFiniteSet(rows) /\ Cardinality(rows) <= Cardinality(P)
  BY <1>2, <1>4, FS_Surjection
<1>6. Cardinality(rows) \in Nat /\ Cardinality(P) \in Nat /\ Cardinality(Goods) \in Nat
  BY <1>1, <1>2, <1>5, FS_CardinalityType
<1> QED
  BY <1>2, <1>5, <1>6

\* A list that no limit cuts off names every row once.
LEMMA ListingIs ==
    ASSUME NEW rows, IsFiniteSet(rows), NEW limit \in Nat, Cardinality(rows) <= limit,
           NEW sign, NEW list \in Listings(rows, limit, sign)
    PROVE  \E n \in Nat :
             /\ DOMAIN list = 1 .. n
             /\ \A i \in 1 .. n : list[i] \in rows
             /\ \A i, j \in 1 .. n : i # j => list[i] # list[j]
             /\ \A x \in rows : \E i \in 1 .. n : list[i] = x
<1>1. PICK n : n = Cardinality(rows)
  OBVIOUS
<1>2. n \in Nat /\ n <= limit
  BY <1>1, FS_CardinalityType
<1>3. PICK q \in SetToSeqs(rows) : list = SubSeq(q, 1, Min({limit, Len(q)}))
  BY DEF Listings
<1>4. q \in [1 .. n -> rows] /\ \A i, j \in 1 .. n : i # j => q[i] # q[j]
  BY <1>1, <1>3 DEF SetToSeqs
<1>5. Len(q) = n /\ DOMAIN q = 1 .. n
  BY <1>2, <1>4
<1>6. Min({limit, n}) = n
  <2>1. PICK S : S = {limit, n}
    OBVIOUS
  <2>2. S \in SUBSET Nat /\ S # {}
    BY <1>2, <2>1
  <2>3. Min(S) \in S /\ \A y \in S : Min(S) <= y
    BY <2>2, MinOfNat
  <2>4. (Min(S) = limit \/ Min(S) = n) /\ Min(S) <= n
    BY <2>1, <2>3
  <2> QED
    BY <1>2, <2>1, <2>4
<1>7. list = SubSeq(q, 1, n)
  BY <1>3, <1>5, <1>6
<1>8. DOMAIN list = 1 .. n /\ \A i \in 1 .. n : list[i] = q[i]
  BY <1>2, <1>4, <1>7
<1>9. \A x \in rows : \E i \in 1 .. n : q[i] = x
  BY <1>1, <1>2, <1>4, Reached
<1> QED
  BY <1>2, <1>4, <1>8, <1>9

\* What ReportsAgree adds up of a list.
Quantities(list) == [i \in DOMAIN list |-> list[i].qty]
Revenues(list) == [i \in DOMAIN list |-> list[i].revenue]

\* A list of n rows that has one row for each of some products.
OneRowEach(list, n, P) ==
    /\ DOMAIN list = 1 .. n
    /\ \A i \in 1 .. n : list[i].product \in P
    /\ \A i, j \in 1 .. n : i # j => list[i].product # list[j].product
    /\ \A p \in P : \E i \in 1 .. n : list[i].product = p

\* The rows of some products.
Sellers(S, period, at, P) == {SoldOf(S, period, at, p) : p \in P}

\* The places of some products in a list.
Places(list, Q) == {i \in DOMAIN list : list[i].product \in Q}

\* Row by row, a column of a list is what a column of the items adds up to.
ColumnIs(h, f, list, n, C) == \A i \in 1 .. n : h[i] = Sigma(f, CellsOf(C, list[i].product))

\* The lists of sellers are such, if no limit cuts them off.
LEMMA SellersListed ==
    ASSUME NEW S \in SUBSET SaleRecord, IsFiniteSet(S), NEW period, NEW at, NEW C,
           C = Reportable(S, PeriodBounds(period, at)),
           NEW P \in SUBSET Goods,
           NEW sign, NEW list \in Listings(Sellers(S, period, at, P), Cardinality(Goods), sign)
    PROVE  \E n \in Nat :
             /\ OneRowEach(list, n, P)
             /\ ColumnIs(Quantities(list), Left(C), list, n, C)
             /\ ColumnIs(Revenues(list), Worth(C), list, n, C)
<1>1. C \in SUBSET S /\ IsFiniteSet(C) /\ C \in SUBSET SaleRecord
  BY FS_Subset DEF Reportable
<1>2. PICK row : row = [p \in P |-> SoldOf(S, period, at, p)]
  OBVIOUS
<1>3. PICK rows : rows = {row[p] : p \in P}
  OBVIOUS
<1>4. list \in Listings(rows, Cardinality(Goods), sign)
  <2>1. rows = Sellers(S, period, at, P)
    BY <1>2, <1>3 DEF Sellers
  <2> QED
    BY <2>1
<1>5. /\ IsFiniteSet(rows) /\ Cardinality(Goods) \in Nat /\ Cardinality(rows) <= Cardinality(Goods)
  BY <1>3, RowsCounted
<1>6. PICK n \in Nat :
             /\ DOMAIN list = 1 .. n
             /\ \A i \in 1 .. n : list[i] \in rows
             /\ \A i, j \in 1 .. n : i # j => list[i] # list[j]
             /\ \A x \in rows : \E i \in 1 .. n : list[i] = x
  BY <1>4, <1>5, ListingIs
<1>7. ASSUME NEW p \in P
      PROVE  /\ row[p].product = p
             /\ row[p].qty = Sigma(Left(C), CellsOf(C, p))
             /\ row[p].revenue = Sigma(Worth(C), CellsOf(C, p))
  BY <1>1, <1>2, <1>7, RowSummed
<1>8. ASSUME NEW i \in 1 .. n PROVE list[i].product \in P /\ list[i] = row[list[i].product]
  <2>1. PICK p \in P : list[i] = row[p]
    BY <1>3, <1>6
  <2> QED
    BY <1>7, <2>1
<1>9. OneRowEach(list, n, P)
  <2>1. ASSUME NEW p \in P PROVE \E i \in 1 .. n : list[i].product = p
    <3>1. PICK i \in 1 .. n : list[i] = row[p]
      BY <1>3, <1>6
    <3> QED
      BY <1>7, <3>1
  <2>2. ASSUME NEW i \in 1 .. n, NEW j \in 1 .. n, i # j PROVE list[i].product # list[j].product
    BY <1>6, <1>8, <2>2
  <2> QED
    BY <1>6, <1>8, <2>1, <2>2 DEF OneRowEach
<1>10. ASSUME NEW i \in 1 .. n
       PROVE  /\ list[i].qty = Sigma(Left(C), CellsOf(C, list[i].product))
              /\ list[i].revenue = Sigma(Worth(C), CellsOf(C, list[i].product))
  <2>1. PICK p \in P : p = list[i].product /\ list[i] = row[p]
    BY <1>8
  <2> QED
    BY <1>7, <2>1
<1>11. ColumnIs(Quantities(list), Left(C), list, n, C) /\ ColumnIs(Revenues(list), Worth(C), list, n, C)
  BY <1>6, <1>10 DEF ColumnIs, Quantities, Revenues
<1> QED
  BY <1>9, <1>11

\* Some rows of such a list add up to what the items of their products do.
LEMMA RowsAddUp ==
    ASSUME NEW C \in SUBSET SaleRecord, IsFiniteSet(C), NEW f, Terms(f, Cells(C)),
           NEW n \in Nat, NEW P, NEW list, OneRowEach(list, n, P), NEW h,
           ColumnIs(h, f, list, n, C), NEW Q, NEW I, I = Places(list, Q)
    PROVE  Sigma(h, I) = Sigma(f, CellsIn(C, P \cap Q))
<1>0. I = {i \in 1 .. n : list[i].product \in Q}
  BY DEF Places, OneRowEach
<1>1. PICK A : A = CellsIn(C, P \cap Q)
  OBVIOUS
<1>2. PICK G : G = [i \in I |-> CellsOf(C, list[i].product)]
  OBVIOUS
<1>3. Totals(h, f, G, I)
  BY <1>0, <1>2 DEF Totals, ColumnIs
<1>4. Partition(G, I, A)
  <2>1. ASSUME NEW i \in I PROVE G[i] \in SUBSET A
    <3>1. list[i].product \in P \cap Q
      BY <1>0 DEF OneRowEach
    <3> QED
      BY <1>1, <1>2, <3>1 DEF CellsOf, CellsIn
  <2>2. ASSUME NEW c \in A PROVE \E i \in I : c \in G[i]
    <3>1. PICK p : p = ItemOf(c).product
      OBVIOUS
    <3>2. c \in Cells(C) /\ p \in P /\ p \in Q
      BY <1>1, <3>1 DEF CellsIn
    <3>3. PICK i \in 1 .. n : list[i].product = p
      BY <3>2 DEF OneRowEach
    <3>4. i \in I /\ c \in CellsOf(C, p)
      BY <1>0, <3>1, <3>2, <3>3 DEF CellsOf
    <3> QED
      BY <1>2, <3>3, <3>4
  <2>3. ASSUME NEW i \in I, NEW j \in I, i # j PROVE G[i] \cap G[j] = {}
    <3>1. list[i].product # list[j].product
      BY <1>0, <2>3 DEF OneRowEach
    <3>2. \A c : c \in CellsOf(C, list[i].product) => c \notin CellsOf(C, list[j].product)
      BY <3>1 DEF CellsOf
    <3> QED
      BY <1>2, <3>2
  <2> QED
    BY <2>1, <2>2, <2>3 DEF Partition
<1>5. IsFiniteSet(A) /\ IsFiniteSet(I)
  <2>1. IsFiniteSet(Cells(C)) /\ A \in SUBSET Cells(C)
    BY <1>1, CellsFinite DEF CellsIn
  <2>2. IsFiniteSet(1 .. n) /\ I \in SUBSET (1 .. n)
    BY <1>0, FS_Interval
  <2> QED
    BY <2>1, <2>2, FS_Subset
<1>6. Terms(f, A)
  BY <1>1 DEF Terms, CellsIn
<1>7. Sigma(h, I) = Sigma(f, A)
  BY <1>3, <1>4, <1>5, <1>6, SigmaByGroups
<1> QED
  BY <1>1, <1>7

\* Both columns of a list of sellers, over the rows of some products.
LEMMA SellersAddUp ==
    ASSUME NEW S \in SUBSET SaleRecord, IsFiniteSet(S), NEW period, NEW at, NEW C,
           C = Reportable(S, PeriodBounds(period, at)),
           NEW P \in SUBSET Goods, NEW Q, NEW I,
           NEW sign, NEW list \in Listings(Sellers(S, period, at, P), Cardinality(Goods), sign),
           I = Places(list, Q)
    PROVE  /\ Sigma(Quantities(list), I) = Sigma(Left(C), CellsIn(C, P \cap Q))
           /\ Sigma(Revenues(list), I) = Sigma(Worth(C), CellsIn(C, P \cap Q))
           /\ \A i \in DOMAIN list : list[i].product \in P
<1>1. PICK n \in Nat :
        /\ OneRowEach(list, n, P)
        /\ ColumnIs(Quantities(list), Left(C), list, n, C)
        /\ ColumnIs(Revenues(list), Worth(C), list, n, C)
  BY SellersListed
<1>2. C \in SUBSET SaleRecord /\ IsFiniteSet(C)
  BY FS_Subset DEF Reportable
<1>3. PICK left, worth, q, r : /\ left = Left(C) /\ worth = Worth(C)
                               /\ q = Quantities(list) /\ r = Revenues(list)
  OBVIOUS
<1>4. Terms(left, Cells(C)) /\ Terms(worth, Cells(C))
  BY <1>2, <1>3, CellTerms
<1>5. ColumnIs(q, left, list, n, C) /\ ColumnIs(r, worth, list, n, C)
  BY <1>1, <1>3
<1>6. Sigma(q, I) = Sigma(left, CellsIn(C, P \cap Q))
  BY <1>1, <1>2, <1>4, <1>5, RowsAddUp
<1>7. Sigma(r, I) = Sigma(worth, CellsIn(C, P \cap Q))
  BY <1>1, <1>2, <1>4, <1>5, RowsAddUp
<1> QED
  BY <1>1, <1>3, <1>6, <1>7 DEF OneRowEach

\* That the best sellers add up to the items of the summary, and those of them that are
\* still sold to the worst sellers.
ListsAgree(S, sold, period, at, best) ==
    /\ Sigma(Quantities(best), DOMAIN best) = Summary(S, period, at).items
    /\ \A worst \in WorstSellers(S, sold, period, at, Cardinality(Goods)) :
         /\ Sigma(Quantities(worst), DOMAIN worst) = Sigma(Quantities(best), Places(best, sold))
         /\ Sigma(Revenues(worst), DOMAIN worst) = Sigma(Revenues(best), Places(best, sold))

\* They do, whichever products are still sold.
LEMMA ListsAddUp ==
    ASSUME NEW S \in SUBSET SaleRecord, IsFiniteSet(S), NEW period, NEW at, NEW sold \in SUBSET Goods,
           NEW best \in BestSellers(S, period, at, Cardinality(Goods))
    PROVE  ListsAgree(S, sold, period, at, best)
<1>0. PICK I : I = Places(best, sold)
  OBVIOUS
<1>1. PICK C : C = Reportable(S, PeriodBounds(period, at))
  OBVIOUS
<1>2. C \in SUBSET SaleRecord /\ IsFiniteSet(C)
  BY <1>1, FS_Subset DEF Reportable
<1>3. Summary(S, period, at).items = SumOfItems(RemainingQty, C)
  BY <1>1 DEF Summary
<1>4. PICK P : P = {p \in Goods : \E s \in C : \E i \in DOMAIN s.items : s.items[i].product = p}
  OBVIOUS
<1>5. P \in SUBSET Goods /\ best \in Listings(Sellers(S, period, at, P), Cardinality(Goods), -1)
  BY <1>1, <1>4 DEF BestSellers, Sellers
<1>6. ASSUME NEW c \in Cells(C) PROVE ItemOf(c).product \in P /\ ItemOf(c).product \in Goods
  <2>1. c[1] \in C /\ c[2] \in DOMAIN c[1].items /\ ItemOf(c) \in SaleItem
    BY <1>2, CellHas
  <2>2. ItemOf(c).product \in Goods /\ ItemOf(c) = c[1].items[c[2]]
    BY <2>1 DEF SaleItem, ItemOf
  <2> QED
    BY <1>4, <2>1, <2>2
<1>7. ASSUME NEW Q, NEW J, J = Places(best, Q)
      PROVE  /\ Sigma(Quantities(best), J) = Sigma(Left(C), CellsIn(C, P \cap Q))
             /\ Sigma(Revenues(best), J) = Sigma(Worth(C), CellsIn(C, P \cap Q))
             /\ \A i \in DOMAIN best : best[i].product \in P
  <2>1. PICK sign, T : T = Listings(Sellers(S, period, at, P), Cardinality(Goods), sign) /\ best \in T
    BY <1>5
  <2>2. P \in SUBSET Goods /\ J = Places(best, Q)
    BY <1>5, <1>7
  <2> QED
    BY <1>1, <2>1, <2>2, SellersAddUp
<1>8. Sigma(Quantities(best), DOMAIN best) = Sigma(Left(C), Cells(C))
  <2>1. PICK J : J = Places(best, Goods)
    OBVIOUS
  <2>2. /\ Sigma(Quantities(best), J) = Sigma(Left(C), CellsIn(C, P \cap Goods))
        /\ \A i \in DOMAIN best : best[i].product \in P
    BY <1>7, <2>1
  <2>3. J = DOMAIN best
    BY <1>5, <2>1, <2>2 DEF Places
  <2>4. CellsIn(C, P \cap Goods) = Cells(C)
    BY <1>6 DEF CellsIn
  <2> QED
    BY <2>2, <2>3, <2>4
<1>9. ASSUME NEW worst \in WorstSellers(S, sold, period, at, Cardinality(Goods))
      PROVE  /\ Sigma(Quantities(worst), DOMAIN worst) = Sigma(Quantities(best), I)
             /\ Sigma(Revenues(worst), DOMAIN worst) = Sigma(Revenues(best), I)
  <2>1. worst \in Listings(Sellers(S, period, at, sold), Cardinality(Goods), 1)
    BY DEF WorstSellers, Sellers
  <2>2. PICK J, Q : J = Places(worst, Q) /\ Q = sold
    OBVIOUS
  <2>3. /\ Sigma(Quantities(worst), J) = Sigma(Left(C), CellsIn(C, sold \cap Q))
        /\ Sigma(Revenues(worst), J) = Sigma(Worth(C), CellsIn(C, sold \cap Q))
        /\ \A i \in DOMAIN worst : worst[i].product \in sold
    BY <1>1, <2>1, <2>2, SellersAddUp
  <2>4. J = DOMAIN worst
    BY <2>2, <2>3 DEF Places
  <2>5. CellsIn(C, sold \cap Q) = CellsIn(C, P \cap sold)
    BY <1>6, <2>2 DEF CellsIn
  <2> QED
    BY <1>0, <1>7, <2>3, <2>4, <2>5
<1>10. SumOfItems(RemainingQty, C) = Sigma(Left(C), Cells(C))
  BY <1>2, ItemsSummed
<1> QED
  BY <1>0, <1>3, <1>8, <1>9, <1>10 DEF ListsAgree

\* The revenue of a summary is that of its range.
LEMMA SummaryIs ==
    ASSUME NEW S, NEW period, NEW at, NEW range, range = PeriodBounds(period, at)
    PROVE  Summary(S, period, at).revenue = Revenue(Reportable(S, range))
  BY DEF Summary

\* Every table of a period adds up to its summary.
LEMMA TablesAddUp ==
    ASSUME NEW S \in SUBSET SaleRecord, IsFiniteSet(S), NEW period, NEW at
    PROVE  /\ Summary(S, period, at).revenue = Revenue(Reportable(S, PeriodBounds(period, at)))
           /\ Summary(S, period, at).revenue =
                Sigma(Column(SalesByStaff(S, period, at)), DOMAIN SalesByStaff(S, period, at))
           /\ Summary(S, period, at).revenue =
                Sigma(Column(SalesByMethod(S, period, at)), DOMAIN SalesByMethod(S, period, at))
<1>1. Summary(S, period, at).revenue = Revenue(Reportable(S, PeriodBounds(period, at)))
  BY SummaryIs
<1>2. PICK staff, method : staff = SalesByStaff(S, period, at) /\ method = SalesByMethod(S, period, at)
  OBVIOUS
<1>3. Sigma(Column(staff), DOMAIN staff) = Revenue(Reportable(S, PeriodBounds(period, at)))
  BY <1>2, StaffAddUp
<1>4. Sigma(Column(method), DOMAIN method) = Revenue(Reportable(S, PeriodBounds(period, at)))
  BY <1>2, MethodsAddUp
<1> QED
  BY <1>1, <1>2, <1>3, <1>4

\* The days of the periods.
LEMMA Periods ==
    ASSUME NEW at, NEW today, today = LocalDay(at)
    PROVE  /\ PeriodBounds(<<"today">>, at) = LocalDateRange(today, today)
           /\ PeriodBounds(<<"yesterday">>, at) = LocalDateRange(today - 1, today - 1)
           /\ PeriodBounds(<<"7d">>, at) = LocalDateRange(today - (Week - 1), today)
           /\ PeriodBounds(<<"30d">>, at) = LocalDateRange(today - (Month - 1), today)
  BY DEF PeriodBounds

\* A day picked by hand.
LEMMA CustomDay == ASSUME NEW at, NEW d PROVE PeriodBounds(<<"custom", d, d>>, at) = LocalDateRange(d, d)
  BY DEF PeriodBounds

\* The daily series: a point is what a report of its day says, all points together
\* are what that of the week says, and the last two are what the shop compares.
LEMMA SeriesAgrees ==
    ASSUME NEW S \in SUBSET SaleRecord, IsFiniteSet(S), NEW at \in Nat, NEW daily,
           daily = DailySeries(S, Week, at)
    PROVE  /\ DOMAIN daily = 1 .. Week
           /\ Sigma(Column(daily), DOMAIN daily) = Summary(S, <<"7d">>, at).revenue
           /\ \A i \in DOMAIN daily :
                daily[i].revenue = Summary(S, <<"custom", daily[i].day, daily[i].day>>, at).revenue
           /\ ComparePeriods(S, <<"today">>, <<"yesterday">>, at).diff =
                daily[Week].revenue - daily[Week - 1].revenue
<1>1. PICK today, n : today = LocalDay(at) /\ n = Week
  OBVIOUS
<1>2. today \in Int /\ n \in Nat /\ n >= 2
  BY <1>1, DayOf, ReportsAssumption
<1>3. DOMAIN daily = 1 .. n
  BY <1>1 DEF DailySeries
<1>4. ASSUME NEW i \in 1 .. n
      PROVE  /\ daily[i].day = today - n + i
             /\ daily[i].revenue = Revenue(OnDay(S, n, at, Window(n, at)[i]))
             /\ daily[i].revenue = Revenue(Reportable(S, LocalDateRange(today - n + i, today - n + i)))
  <2>1. PICK d : d = Window(n, at)[i]
    OBVIOUS
  <2>2. daily[i].day = d /\ daily[i].revenue = Revenue(OnDay(S, n, at, d))
    BY <1>1, <2>1 DEF DailySeries
  <2>3. d = today - n + i
    BY <1>1, <1>2, <2>1, WindowDays
  <2>4. OnDay(S, n, at, d) = Reportable(S, LocalDateRange(d, d))
    BY <1>2, <2>1, OnDayIs
  <2> QED
    BY <2>1, <2>2, <2>3, <2>4
<1>5. Sigma(Column(daily), DOMAIN daily) = Summary(S, <<"7d">>, at).revenue
  <2>1. PICK f : f = Column(daily)
    OBVIOUS
  <2>2. \A i \in 1 .. n : f[i] = Revenue(OnDay(S, n, at, Window(n, at)[i]))
    BY <1>3, <1>4, <2>1 DEF Column
  <2>3. Sigma(f, 1 .. n) = Revenue(Reportable(S, LocalDateRange(LocalDay(at) - (n - 1), LocalDay(at))))
    BY <1>2, <2>2, DaysAddUp
  <2>4. Summary(S, <<"7d">>, at).revenue = Revenue(Reportable(S, LocalDateRange(today - (n - 1), today)))
    BY <1>1, Periods, SummaryIs
  <2> QED
    BY <1>1, <1>3, <2>1, <2>3, <2>4
<1>6. ASSUME NEW i \in 1 .. n
      PROVE  daily[i].revenue = Summary(S, <<"custom", daily[i].day, daily[i].day>>, at).revenue
  <2>1. PICK d : d = daily[i].day
    OBVIOUS
  <2>2. daily[i].revenue = Revenue(Reportable(S, LocalDateRange(d, d)))
    BY <1>4, <2>1
  <2>3. Summary(S, <<"custom", d, d>>, at).revenue = Revenue(Reportable(S, LocalDateRange(d, d)))
    BY CustomDay, SummaryIs
  <2> QED
    BY <2>1, <2>2, <2>3
<1>7. ComparePeriods(S, <<"today">>, <<"yesterday">>, at).diff = daily[n].revenue - daily[n - 1].revenue
  <2>1. n \in 1 .. n /\ n - 1 \in 1 .. n /\ today - n + n = today /\ today - n + (n - 1) = today - 1
    BY <1>2
  <2>2. daily[n].revenue = Revenue(Reportable(S, LocalDateRange(today, today)))
    BY <1>4, <2>1
  <2>3. daily[n - 1].revenue = Revenue(Reportable(S, LocalDateRange(today - 1, today - 1)))
    <3>1. PICK i \in 1 .. n : i = n - 1
      BY <2>1
    <3>2. daily[i].revenue = Revenue(Reportable(S, LocalDateRange(today - n + i, today - n + i)))
      BY <1>4
    <3> QED
      BY <2>1, <3>1, <3>2
  <2>4. Summary(S, <<"today">>, at).revenue = daily[n].revenue
    BY <1>1, <2>2, Periods, SummaryIs
  <2>5. Summary(S, <<"yesterday">>, at).revenue = daily[n - 1].revenue
    BY <1>1, <2>3, Periods, SummaryIs
  <2>6. ComparePeriods(S, <<"today">>, <<"yesterday">>, at).diff =
          Summary(S, <<"today">>, at).revenue - Summary(S, <<"yesterday">>, at).revenue
    BY DEF ComparePeriods
  <2> QED
    BY <2>4, <2>5, <2>6
<1> QED
  BY <1>1, <1>3, <1>5, <1>6, <1>7
-----------------------------------------------------------------------------
\* A week and its days.

\* Rounding moves a number by half a unit at most, up or down.
LEMMA RoundMoneyIs ==
    ASSUME NEW x \in Int, NEW d \in Nat \ {0}, NEW r, r = RoundMoney(x, d)
    PROVE  r \in Int /\ 2 * (d * r) - 2 * x <= d /\ 2 * x - 2 * (d * r) <= d
<1>1. PICK m : m = 2 * d
  OBVIOUS
<1>2. m \in Nat \ {0} /\ m = d + d
  BY <1>1
<1>3. ASSUME NEW y \in Int, NEW q, q = y \div m
      PROVE  q \in Int /\ m * q <= y /\ y < m * q + m
  <2>1. q \in Int /\ m * q \in Int
    BY <1>2, <1>3
  <2>2. m * q <= y /\ y < m * (q + 1)
    BY <1>2, <1>3
  <2>3. m * (q + 1) = m * q + m
    BY <1>2, <2>1
  <2> QED
    BY <2>1, <2>2, <2>3
<1>4. CASE x >= 0
  <2>1. r = (2 * x + d) \div m
    BY <1>1, <1>4 DEF RoundMoney
  <2>2. 2 * x + d \in Int
    OBVIOUS
  <2>3. r \in Int /\ m * r <= 2 * x + d /\ 2 * x + d < m * r + m
    BY <1>3, <2>1, <2>2
  <2>4. m * r = 2 * (d * r) /\ d * r \in Int
    BY <1>1, <2>3
  <2>5. PICK z : z = d * r
    OBVIOUS
  <2> QED
    BY <1>2, <2>3, <2>4, <2>5
<1>5. CASE ~(x >= 0)
  <2>1. PICK q : q = (d - 2 * x) \div m
    OBVIOUS
  <2>2. r = -q
    BY <1>1, <1>5, <2>1 DEF RoundMoney
  <2>3. d - 2 * x \in Int
    OBVIOUS
  <2>4. q \in Int /\ m * q <= d - 2 * x /\ d - 2 * x < m * q + m
    BY <1>3, <2>1, <2>3
  <2>5. m * q = 2 * (d * q) /\ d * q \in Int /\ d * r = -(d * q)
    BY <1>1, <2>2, <2>4
  <2>6. PICK z : z = d * q
    OBVIOUS
  <2> QED
    BY <1>2, <2>2, <2>4, <2>5, <2>6
<1> QED
  BY <1>4, <1>5

\* Numbers, each within c of d times a whole, and their wholes.
NearWholes(f, g, d, c, S) ==
    \A x \in S : f[x] \in Int /\ g[x] \in Int /\ d * g[x] - f[x] <= c /\ f[x] - d * g[x] <= c

\* Their sums are as near for each of them.
LEMMA NearWholesAddUp ==
    ASSUME NEW S, IsFiniteSet(S), NEW f, NEW g, NEW d \in Int, NEW c \in Int, NearWholes(f, g, d, c, S)
    PROVE  /\ Sigma(f, S) \in Int /\ Sigma(g, S) \in Int
           /\ d * Sigma(g, S) - Sigma(f, S) <= c * Cardinality(S)
           /\ Sigma(f, S) - d * Sigma(g, S) <= c * Cardinality(S)
<1>1. PICK up, down, whole :
        /\ up = [x \in S |-> d * g[x] - f[x]] /\ down = [x \in S |-> f[x] - d * g[x]]
        /\ whole = [x \in S |-> d * g[x]]
  OBVIOUS
<1>2. ASSUME NEW x \in S
      PROVE  /\ f[x] \in Int /\ g[x] \in Int /\ whole[x] \in Int /\ up[x] \in Int /\ down[x] \in Int
             /\ whole[x] = d * g[x] /\ whole[x] = up[x] + f[x] /\ f[x] = down[x] + whole[x]
             /\ up[x] <= c /\ down[x] <= c
  <2>1. f[x] \in Int /\ g[x] \in Int /\ d * g[x] - f[x] <= c /\ f[x] - d * g[x] <= c
    BY DEF NearWholes
  <2>2. d * g[x] \in Int
    BY <2>1
  <2> QED
    BY <1>1, <2>1, <2>2
<1>3. Sigma(f, S) \in Int /\ Sigma(g, S) \in Int /\ Sigma(up, S) \in Int /\ Sigma(down, S) \in Int
  BY <1>2, SigmaType
<1>4. Sigma(whole, S) = Sigma(up, S) + Sigma(f, S) /\ Sigma(f, S) = Sigma(down, S) + Sigma(whole, S)
  BY <1>2, SigmaPlus
<1>5. Sigma(up, S) <= c * Cardinality(S) /\ Sigma(down, S) <= c * Cardinality(S)
  BY <1>2, SigmaBound
<1>6. Sigma(whole, S) = d * Sigma(g, S)
  BY <1>2, SigmaTimes
<1>7. PICK w, n : w = d * Sigma(g, S) /\ n = c * Cardinality(S)
  OBVIOUS
<1>8. w \in Int /\ n \in Int
  <2>1. Cardinality(S) \in Int
    BY FS_CardinalityType
  <2> QED
    BY <1>3, <1>7, <2>1
<1> QED
  BY <1>3, <1>4, <1>5, <1>6, <1>7, <1>8

\* Per sale, the columns of a summary.
ItemsOf(S) == [s \in S |-> Sigma([i \in DOMAIN s.items |-> RemainingQty(s.items[i])], DOMAIN s.items)]
TaxOf(S) == [s \in S |-> s.tax]
MarginOf(S) ==
    [s \in S |-> Sigma([i \in DOMAIN s.items |->
        RemainingTotal(s.items[i]) - s.items[i].cost * RemainingQty(s.items[i]) * QtyScale], DOMAIN s.items)]

\* These are whole numbers.
LEMMA SaleColumns ==
    ASSUME NEW S \in SUBSET SaleRecord
    PROVE  Terms(ItemsOf(S), S) /\ Terms(TaxOf(S), S) /\ Terms(MarginOf(S), S)
<1>1. ASSUME NEW s \in S PROVE ItemsOf(S)[s] \in Int /\ TaxOf(S)[s] \in Int /\ MarginOf(S)[s] \in Int
  <2>1. PICK T : T = DOMAIN s.items
    OBVIOUS
  <2>2. IsFiniteSet(T)
    BY <2>1, ItemsFinite
  <2>3. PICK g, h : /\ g = [i \in T |-> RemainingQty(s.items[i])]
                    /\ h = [i \in T |-> RemainingTotal(s.items[i])
                                          - s.items[i].cost * RemainingQty(s.items[i]) * QtyScale]
    OBVIOUS
  <2>4. ASSUME NEW i \in T PROVE g[i] \in Int /\ h[i] \in Int
    <3>1. PICK item : item = s.items[i]
      OBVIOUS
    <3>2. s.items \in Seq(SaleItem)
      BY DEF SaleRecord
    <3>3. item \in SaleItem
      BY <2>1, <3>1, <3>2
    <3>4. PICK a, b, q : a = RemainingTotal(item) /\ b = item.cost /\ q = RemainingQty(item)
      OBVIOUS
    <3>5. a \in Int /\ b \in Int /\ q \in Int /\ QtyScale \in Int
      BY <3>3, <3>4, RestIsInt, ReportsAssumption
    <3>6. b * q \in Int
      BY <3>5
    <3>7. (b * q) * QtyScale \in Int
      BY <3>5, <3>6
    <3>8. g[i] = q /\ h[i] = a - (b * q) * QtyScale
      BY <2>3, <3>1, <3>4
    <3> QED
      BY <3>5, <3>7, <3>8
  <2>5. Sigma(g, T) \in Int /\ Sigma(h, T) \in Int
    BY <2>2, <2>4, SigmaType
  <2>6. ItemsOf(S)[s] = Sigma(g, T) /\ MarginOf(S)[s] = Sigma(h, T)
    BY <2>1, <2>3 DEF ItemsOf, MarginOf
  <2>7. TaxOf(S)[s] \in Int
    BY DEF TaxOf, SaleRecord
  <2> QED
    BY <2>5, <2>6, <2>7
<1> QED
  BY <1>1 DEF Terms

\* A summary sums them over the sales of its period.
LEMMA SummaryColumns ==
    ASSUME NEW S \in SUBSET SaleRecord, IsFiniteSet(S), NEW period, NEW at, NEW C,
           C = Reportable(S, PeriodBounds(period, at))
    PROVE  /\ Summary(S, period, at).items = Sigma(ItemsOf(S), C)
           /\ Summary(S, period, at).tax = Sigma(TaxOf(S), C)
           /\ Summary(S, period, at).profit = RoundMoney(Sigma(MarginOf(S), C), QtyScale)
<1>1. C \in SUBSET S /\ IsFiniteSet(C)
  BY FS_Subset DEF Reportable
<1>2. PICK f, g, h : f = ItemsOf(C) /\ g = TaxOf(C) /\ h = MarginOf(C)
  OBVIOUS
<1>3. PICK x, y, z : x = ItemsOf(S) /\ y = TaxOf(S) /\ z = MarginOf(S)
  OBVIOUS
<1>4. /\ Summary(S, period, at).items = Sigma(f, C)
      /\ Summary(S, period, at).tax = Sigma(g, C)
      /\ Summary(S, period, at).profit = RoundMoney(Sigma(h, C), QtyScale)
  BY <1>2 DEF Summary, SumOfItems, ItemsOf, TaxOf, MarginOf
<1>5. Terms(x, S) /\ Terms(y, S) /\ Terms(z, S)
  BY <1>3, SaleColumns
<1>6. \A s \in C : /\ x[s] \in Int /\ f[s] = x[s]
                   /\ y[s] \in Int /\ g[s] = y[s]
                   /\ z[s] \in Int /\ h[s] = z[s]
  BY <1>1, <1>2, <1>3, <1>5 DEF ItemsOf, TaxOf, MarginOf, Terms
<1>7. Sigma(f, C) = Sigma(x, C) /\ Sigma(g, C) = Sigma(y, C) /\ Sigma(h, C) = Sigma(z, C)
  BY <1>1, <1>6, SigmaSame
<1> QED
  BY <1>3, <1>4, <1>7

\* The reports of the days of a series, and that those of a week add up to the report of
\* the week, but for the rounding of a profit.
ByDay(S, at, daily) ==
    [i \in DOMAIN daily |-> Summary(S, <<"custom", daily[i].day, daily[i].day>>, at)]
WeekAgrees(byDay, week) ==
    /\ Sigma([i \in DOMAIN byDay |-> byDay[i].items], DOMAIN byDay) = week.items
    /\ Sigma([i \in DOMAIN byDay |-> byDay[i].tax], DOMAIN byDay) = week.tax
    /\ 2 * (Sigma([i \in DOMAIN byDay |-> byDay[i].profit], DOMAIN byDay) - week.profit)
         \in -(Week + 1) .. Week + 1

\* They do.
LEMMA WeekAddsUp ==
    ASSUME NEW S \in SUBSET SaleRecord, IsFiniteSet(S), NEW at \in Nat, NEW daily, daily = DailySeries(S, Week, at),
           NEW byDay, byDay = ByDay(S, at, daily), NEW week, week = Summary(S, <<"7d">>, at)
    PROVE  WeekAgrees(byDay, week)
<1>1. PICK n, I, Q : n = Week /\ I = 1 .. n /\ Q = QtyScale
  OBVIOUS
<1>2. n \in Nat /\ Q \in Nat \ {0} /\ IsFiniteSet(I) /\ Cardinality(I) = n
  <2>1. n \in Nat /\ Q \in Nat \ {0}
    BY <1>1, ReportsAssumption
  <2> QED
    BY <1>1, <2>1, FS_Interval
<1>3. DOMAIN daily = I /\ DOMAIN byDay = I
  BY <1>1 DEF DailySeries, ByDay
<1>4. PICK items, tax, margin : items = ItemsOf(S) /\ tax = TaxOf(S) /\ margin = MarginOf(S)
  OBVIOUS
<1>5. Terms(items, S) /\ Terms(tax, S) /\ Terms(margin, S)
  BY <1>4, SaleColumns
<1>6. PICK C : C = Reportable(S, LocalDateRange(LocalDay(at) - (n - 1), LocalDay(at)))
  OBVIOUS
<1>7. C = Reportable(S, PeriodBounds(<<"7d">>, at)) /\ C \in SUBSET S /\ IsFiniteSet(C)
  <2>1. PICK today : today = LocalDay(at)
    OBVIOUS
  <2>2. PeriodBounds(<<"7d">>, at) = LocalDateRange(today - (n - 1), today)
    BY <1>1, <2>1, Periods
  <2> QED
    BY <1>6, <2>1, <2>2, FS_Subset DEF Reportable
<1>8. /\ week.items = Sigma(items, C) /\ week.tax = Sigma(tax, C)
      /\ week.profit = RoundMoney(Sigma(margin, C), Q)
  BY <1>1, <1>4, <1>7, SummaryColumns
<1>9. PICK D : D = [i \in I |-> OnDay(S, n, at, Window(n, at)[i])]
  OBVIOUS
<1>10. ASSUME NEW i \in I
       PROVE  /\ byDay[i].items = Sigma(items, D[i]) /\ byDay[i].tax = Sigma(tax, D[i])
              /\ byDay[i].profit = RoundMoney(Sigma(margin, D[i]), Q)
              /\ D[i] \in SUBSET S
  <2>1. PICK d : d = Window(n, at)[i]
    OBVIOUS
  <2>2. daily[i].day = d
    BY <1>1, <2>1 DEF DailySeries
  <2>3. PICK period : period = <<"custom", d, d>>
    OBVIOUS
  <2>4. byDay[i] = Summary(S, period, at)
    BY <1>3, <2>2, <2>3 DEF ByDay
  <2>5. Reportable(S, PeriodBounds(period, at)) = OnDay(S, n, at, d)
    <3>1. i \in 1 .. n
      BY <1>1
    <3>2. OnDay(S, n, at, d) = Reportable(S, LocalDateRange(d, d))
      BY <1>2, <2>1, <3>1, OnDayIs
    <3>3. PeriodBounds(period, at) = LocalDateRange(d, d)
      BY <2>3, CustomDay
    <3> QED
      BY <3>2, <3>3
  <2>6. PICK T : T = Reportable(S, PeriodBounds(period, at))
    OBVIOUS
  <2>7. T = D[i]
    BY <1>9, <2>1, <2>5, <2>6
  <2>8. T \in SUBSET S
    BY <2>6 DEF Reportable
  <2>9. /\ Summary(S, period, at).items = Sigma(items, T) /\ Summary(S, period, at).tax = Sigma(tax, T)
        /\ Summary(S, period, at).profit = RoundMoney(Sigma(margin, T), Q)
    BY <1>1, <1>4, <2>6, SummaryColumns
  <2> QED
    BY <2>4, <2>7, <2>8, <2>9
<1>11. PICK f, g, p, m : /\ f = [i \in I |-> byDay[i].items] /\ g = [i \in I |-> byDay[i].tax]
                         /\ p = [i \in I |-> byDay[i].profit] /\ m = [i \in I |-> Sigma(margin, D[i])]
  OBVIOUS
<1>12. \A i \in 1 .. n : /\ f[i] = Sigma(items, OnDay(S, n, at, Window(n, at)[i]))
                         /\ g[i] = Sigma(tax, OnDay(S, n, at, Window(n, at)[i]))
                         /\ m[i] = Sigma(margin, OnDay(S, n, at, Window(n, at)[i]))
  BY <1>1, <1>9, <1>10, <1>11
<1>13. Sigma(f, 1 .. n) = Sigma(items, C)
  BY <1>2, <1>5, <1>6, <1>12, DaysSum
<1>14. Sigma(g, 1 .. n) = Sigma(tax, C)
  BY <1>2, <1>5, <1>6, <1>12, DaysSum
<1>15. Sigma(m, 1 .. n) = Sigma(margin, C)
  BY <1>2, <1>5, <1>6, <1>12, DaysSum
<1>16. 2 * (Sigma(p, I) - week.profit) \in -(n + 1) .. n + 1
  <2>1. PICK twice, E : twice = [i \in I |-> 2 * m[i]] /\ E = 2 * Q
    OBVIOUS
  <2>2. E \in Int /\ Q \in Int
    BY <1>2, <2>1
  <2>3. ASSUME NEW i \in I
        PROVE  /\ m[i] \in Int /\ p[i] \in Int
               /\ twice[i] = 2 * m[i]
               /\ E * p[i] - twice[i] <= Q /\ twice[i] - E * p[i] <= Q
    <3>1. IsFiniteSet(D[i]) /\ \A s \in D[i] : margin[s] \in Int
      BY <1>5, <1>10, FS_Subset DEF Terms
    <3>2. PICK x : x = Sigma(margin, D[i])
      OBVIOUS
    <3>3. x \in Int
      BY <3>1, <3>2, SigmaType
    <3>4. PICK r : r = RoundMoney(x, Q)
      OBVIOUS
    <3>5. r \in Int /\ 2 * (Q * r) - 2 * x <= Q /\ 2 * x - 2 * (Q * r) <= Q
      BY <1>2, <3>3, <3>4, RoundMoneyIs
    <3>6. E * r = 2 * (Q * r)
      BY <1>2, <2>1, <3>5
    <3>7. m[i] = x /\ p[i] = r /\ twice[i] = 2 * x
      BY <1>10, <1>11, <2>1, <3>2, <3>4
    <3> QED
      BY <3>3, <3>5, <3>6, <3>7
  <2>4. NearWholes(twice, p, E, Q, I)
    BY <2>3 DEF NearWholes
  <2>5. /\ Sigma(twice, I) \in Int /\ Sigma(p, I) \in Int
        /\ E * Sigma(p, I) - Sigma(twice, I) <= Q * n
        /\ Sigma(twice, I) - E * Sigma(p, I) <= Q * n
    BY <1>2, <2>2, <2>4, NearWholesAddUp
  <2>6. Sigma(twice, I) = 2 * Sigma(m, I) /\ Sigma(m, I) \in Int
    BY <1>2, <2>3, SigmaTimes, SigmaType
  <2>7. PICK M, P, R : M = Sigma(m, I) /\ P = Sigma(p, I) /\ R = week.profit
    OBVIOUS
  <2>8. R = RoundMoney(M, Q)
    BY <1>1, <1>8, <1>15, <2>7
  <2>9. M \in Int /\ P \in Int /\ R \in Int /\ 2 * (Q * R) - 2 * M <= Q /\ 2 * M - 2 * (Q * R) <= Q
    BY <1>2, <2>5, <2>6, <2>7, <2>8, RoundMoneyIs
  <2>10. E * P - 2 * M <= Q * n /\ 2 * M - E * P <= Q * n
    BY <2>5, <2>6, <2>7
  <2>11. PICK z : z = 2 * (P - R)
    OBVIOUS
  <2>12. z \in Int /\ Q * z = E * P - 2 * (Q * R) /\ Q * (n + 1) = Q * n + Q
    BY <1>2, <2>1, <2>9, <2>11
  <2>13. Q * z \in Int /\ E * P \in Int /\ Q * R \in Int /\ Q * n \in Int
    BY <1>2, <2>2, <2>9, <2>12
  <2>14. Q * z <= Q * (n + 1) /\ -(Q * z) <= Q * (n + 1)
    BY <1>2, <2>9, <2>10, <2>12, <2>13
  <2>15. \A x, y \in Int : Q * x <= Q * y => x <= y
    <3>1. ASSUME NEW x \in Int, NEW y \in Int, x > y PROVE Q * x > Q * y
      <4>1. PICK k : k = x - y
        OBVIOUS
      <4>2. k \in Nat \ {0} /\ x = y + k
        BY <3>1, <4>1
      <4>3. Q * k > 0 /\ Q * k \in Int
        BY <1>2, <4>2
      <4>4. Q * (y + k) = Q * y + Q * k /\ Q * y \in Int
        BY <1>2, <4>2
      <4> QED
        BY <4>2, <4>3, <4>4
    <3>2. ASSUME NEW x \in Int, NEW y \in Int, Q * x <= Q * y PROVE x <= y
      <4>1. Q * x \in Int /\ Q * y \in Int
        BY <1>2
      <4>2. ~(Q * x > Q * y)
        BY <3>2, <4>1
      <4> QED
        BY <3>1, <4>2
    <3> QED
      BY <3>2
  <2>16. -(Q * z) = Q * (-z) /\ -z \in Int /\ n + 1 \in Int
    BY <1>2, <2>12
  <2>17. z <= n + 1 /\ -z <= n + 1
    BY <2>12, <2>14, <2>15, <2>16
  <2>18. z \in -(n + 1) .. n + 1
    BY <1>2, <2>12, <2>17
  <2> QED
    BY <2>7, <2>11, <2>18
<1> QED
  BY <1>1, <1>3, <1>8, <1>11, <1>13, <1>14, <1>16 DEF WeekAgrees

-----------------------------------------------------------------------------
\* The income profile.

\* The sales are finitely many, each as a till records it, what is still sold are
\* products, and time has begun.
BookOK ==
    now \in Nat /\ IsFiniteSet(sales) /\ sales \in SUBSET SaleRecord /\ active \in SUBSET Goods

\* The points of the series, one for each day of the window.
LEMMA PointsAre ==
    ASSUME NEW points, points = SeriesPoints(Month), NEW i \in 1 .. Month, NEW C,
           C = OnDay(sales, Month, now, Window(Month, now)[i])
    PROVE  /\ DOMAIN points = 1 .. Month /\ Len(points) = Month
           /\ points[i].split = [m \in {s.method : s \in C} |-> Revenue({s \in C : s.method = m})]
<1>1. Month \in Nat
  BY ReportsAssumption
<1>2. DOMAIN points = 1 .. Month
  BY DEF SeriesPoints
<1>3. Len(points) = Month
  BY <1>1 DEF SeriesPoints
<1>4. PICK split : split = DailySeriesByMethod(sales, Month, now)
  OBVIOUS
<1>5. points[i].split = split[i]
  BY <1>4 DEF SeriesPoints
<1>6. split[i] = [m \in {s.method : s \in C} |-> Revenue({s \in C : s.method = m})]
  BY <1>4 DEF DailySeriesByMethod
<1> QED
  BY <1>2, <1>3, <1>5, <1>6

\* What a point is worth: the revenue of its day, and nothing if the day has no entry.
LEMMA PointWorth ==
    ASSUME BookOK, NEW points, points = SeriesPoints(Month), NEW i \in 1 .. Month, NEW closed
    PROVE  /\ DayTotal(points[i]) = Revenue(OnDay(sales, Month, now, Window(Month, now)[i]))
           /\ DayTotal(points[i]) \in Int
           /\ ~Recorded(points, closed, i) => DayTotal(points[i]) = 0
<1>1. PICK C : C = OnDay(sales, Month, now, Window(Month, now)[i])
  OBVIOUS
<1>2. C \in SUBSET sales /\ IsFiniteSet(C) /\ C \in SUBSET SaleRecord
  <2>1. C \in SUBSET sales
    BY <1>1 DEF OnDay, Reportable
  <2> QED
    BY <2>1, FS_Subset DEF BookOK
<1>3. PICK split : split = points[i].split
  OBVIOUS
<1>4. PICK key : key = [s \in C |-> s.method]
  OBVIOUS
<1>5. PICK T : T = {key[s] : s \in C}
  OBVIOUS
<1>6. IsFiniteSet(T) /\ \A s \in C : key[s] \in T
  BY <1>2, <1>5, ImageFinite
<1>7. split = [m \in {s.method : s \in C} |-> Revenue({s \in C : s.method = m})]
  BY <1>1, <1>3, PointsAre
<1>8. {s.method : s \in C} = T
  BY <1>4, <1>5
<1>9. DOMAIN split = T
  BY <1>7, <1>8
<1>10. ASSUME NEW m \in T PROVE split[m] = Revenue({s \in C : key[s] = m})
  <2>1. {s \in C : key[s] = m} = {s \in C : s.method = m}
    BY <1>4
  <2> QED
    BY <1>7, <1>8, <2>1
<1>11. Sigma(split, T) = Revenue(C)
  BY <1>2, <1>6, <1>10, RevenueByGroups
<1>12. DayTotal(points[i]) = Sigma(split, T)
  BY <1>3, <1>9 DEF DayTotal
<1>13. Revenue(C) \in Int
  BY <1>2, RevenueIs DEF BookOK
<1>14. ASSUME ~Recorded(points, closed, i) PROVE DayTotal(points[i]) = 0
  <2>1. T = {}
    BY <1>3, <1>9, <1>14 DEF Recorded
  <2> QED
    BY <1>12, <2>1, SigmaEmpty
<1> QED
  BY <1>1, <1>11, <1>12, <1>13, <1>14

\* The recorded days at the end of the window are among the recorded days.
LEMMA StreakWithin ==
    ASSUME NEW points, NEW n \in Nat, Len(points) = n, NEW closed, NEW days,
           days = {i \in 1 .. n : Recorded(points, closed, i)}
    PROVE  Streak(points, closed) \in Nat /\ Streak(points, closed) <= Cardinality(days)
<1>1. PICK K : K = {k \in 0 .. n : \A i \in n - k + 1 .. n : Recorded(points, closed, i)}
  OBVIOUS
<1>2. IsFiniteSet(K)
  <2>1. IsFiniteSet(0 .. n) /\ K \in SUBSET (0 .. n)
    BY <1>1, FS_Interval
  <2> QED
    BY <2>1, FS_Subset
<1>3. K \in SUBSET Nat /\ 0 \in K
  BY <1>1
<1>4. PICK k : k = Max(K)
  OBVIOUS
<1>5. k \in K
  BY <1>2, <1>3, <1>4, MaxOfFinite
<1>6. k \in 0 .. n /\ \A i \in n - k + 1 .. n : Recorded(points, closed, i)
  BY <1>1, <1>5
<1>7. Streak(points, closed) = k
  BY <1>1, <1>4 DEF Streak
<1>8. PICK I : I = n - k + 1 .. n
  OBVIOUS
<1>9. I \in SUBSET days
  BY <1>6, <1>8
<1>10. IsFiniteSet(days)
  <2>1. IsFiniteSet(1 .. n) /\ days \in SUBSET (1 .. n)
    BY FS_Interval
  <2> QED
    BY <2>1, FS_Subset
<1>11. Cardinality(I) <= Cardinality(days)
  BY <1>9, <1>10, FS_Subset
<1>12. Cardinality(I) = k
  <2>1. n - k + 1 \in Int /\ n \in Int
    BY <1>6
  <2>2. Cardinality(I) = IF n - k + 1 > n THEN 0 ELSE n - (n - k + 1) + 1
    BY <1>8, <2>1, FS_Interval
  <2> QED
    BY <1>6, <2>2
<1> QED
  BY <1>6, <1>7, <1>11, <1>12

\* The profile leaves out no revenue of the month.
LEMMA ProfileAgrees ==
    ASSUME BookOK, NEW closed, NEW profile, profile = IncomeProfile(SeriesPoints(Month), closed)
    PROVE  /\ profile.average[1] = Summary(sales, <<"30d">>, now).revenue
           /\ profile.streak <= profile.days
<1>1. PICK n, today, points : n = Month /\ today = LocalDay(now) /\ points = SeriesPoints(Month)
  OBVIOUS
<1>2. n \in Nat /\ 1 \in 1 .. n
  BY <1>1, ReportsAssumption
<1>3. DOMAIN points = 1 .. n /\ Len(points) = n
  BY <1>1, <1>2, PointsAre
<1>4. PICK days : days = {i \in 1 .. n : Recorded(points, closed, i)}
  OBVIOUS
<1>5. PICK h : h = [i \in days |-> DayTotal(points[i])]
  OBVIOUS
<1>6. /\ profile.average[1] = Sigma(h, days)
      /\ profile.streak = Streak(points, closed)
      /\ profile.days = Cardinality(days)
  BY <1>1, <1>3, <1>4, <1>5 DEF IncomeProfile
<1>7. PICK f : f = [i \in 1 .. n |-> DayTotal(points[i])]
  OBVIOUS
<1>8. ASSUME NEW i \in 1 .. n
      PROVE  /\ f[i] = Revenue(OnDay(sales, n, now, Window(n, now)[i]))
             /\ f[i] \in Int
             /\ i \notin days => f[i] = 0
  BY <1>1, <1>4, <1>7, PointWorth
<1>9. IsFiniteSet(1 .. n) /\ days \in SUBSET (1 .. n)
  BY <1>2, <1>4, FS_Interval
<1>10. IsFiniteSet(days)
  BY <1>9, FS_Subset
<1>11. Sigma(f, 1 .. n) = Sigma(h, days)
  <2>1. PICK I : I = 1 .. n
    OBVIOUS
  <2>2. IsFiniteSet(I) /\ days \in SUBSET I
    BY <1>9, <2>1
  <2>3. Terms(f, I)
    BY <1>8, <2>1 DEF Terms
  <2>4. (\A i \in days : f[i] = f[i]) /\ \A i \in I \ days : f[i] = 0
    BY <1>8, <2>1
  <2>5. Sigma(f, I) = Sigma(f, days)
    BY <2>2, <2>3, <2>4, SigmaFilter
  <2>6. \A i \in days : f[i] \in Int /\ h[i] = f[i]
    BY <1>5, <1>7, <1>8, <1>9
  <2>7. Sigma(h, days) = Sigma(f, days)
    BY <1>10, <2>6, SigmaSame
  <2> QED
    BY <2>1, <2>5, <2>7
<1>12. Sigma(f, 1 .. n) = Revenue(Reportable(sales, LocalDateRange(LocalDay(now) - (n - 1), LocalDay(now))))
  BY <1>2, <1>8, DaysAddUp DEF BookOK
<1>13. Summary(sales, <<"30d">>, now).revenue = Revenue(Reportable(sales, LocalDateRange(today - (n - 1), today)))
  BY <1>1, Periods, SummaryIs
<1>14. Streak(points, closed) <= Cardinality(days)
  BY <1>2, <1>3, <1>4, StreakWithin
<1> QED
  BY <1>1, <1>6, <1>11, <1>12, <1>13, <1>14

\* So the reports of a shop agree.
LEMMA AgreeFromBook == BookOK => ReportsAgree
<1> SUFFICES ASSUME BookOK PROVE ReportsAgree
  OBVIOUS
<1>1. now \in Nat /\ IsFiniteSet(sales) /\ sales \in SUBSET SaleRecord /\ active \in SUBSET Goods
  BY DEF BookOK
<1>2. ASSUME NEW period
      PROVE  LET all == Summary(sales, period, now)
                 staff == SalesByStaff(sales, period, now)
                 method == SalesByMethod(sales, period, now)
             IN  /\ all.revenue = Sigma([k \in DOMAIN staff |-> staff[k].revenue], DOMAIN staff)
                 /\ all.revenue = Sigma([k \in DOMAIN method |-> method[k].revenue], DOMAIN method)
                 /\ \A best \in BestSellers(sales, period, now, Cardinality(Goods)) :
                      /\ Sigma([i \in DOMAIN best |-> best[i].qty], DOMAIN best) = all.items
                      /\ \A worst \in WorstSellers(sales, active, period, now, Cardinality(Goods)) :
                           /\ Sigma([i \in DOMAIN worst |-> worst[i].qty], DOMAIN worst) =
                                Sigma([i \in DOMAIN best |-> best[i].qty],
                                      {i \in DOMAIN best : best[i].product \in active})
                           /\ Sigma([i \in DOMAIN worst |-> worst[i].revenue], DOMAIN worst) =
                                Sigma([i \in DOMAIN best |-> best[i].revenue],
                                      {i \in DOMAIN best : best[i].product \in active})
  <2>1. ASSUME NEW best \in BestSellers(sales, period, now, Cardinality(Goods))
        PROVE  ListsAgree(sales, active, period, now, best)
    <3>1. PICK S, sold, at : S = sales /\ sold = active /\ at = now
      OBVIOUS
    <3>2. /\ S \in SUBSET SaleRecord /\ IsFiniteSet(S) /\ sold \in SUBSET Goods
          /\ best \in BestSellers(S, period, at, Cardinality(Goods))
      BY <1>1, <3>1
    <3>3. ListsAgree(S, sold, period, at, best)
      BY <3>2, ListsAddUp
    <3> QED
      BY <3>1, <3>3
  <2>2. /\ Summary(sales, period, now).revenue =
             Sigma(Column(SalesByStaff(sales, period, now)), DOMAIN SalesByStaff(sales, period, now))
        /\ Summary(sales, period, now).revenue =
             Sigma(Column(SalesByMethod(sales, period, now)), DOMAIN SalesByMethod(sales, period, now))
    BY <1>1, TablesAddUp
  <2> QED
    BY <2>1, <2>2 DEF Column, ListsAgree, Quantities, Revenues, Places
<1>3. PICK daily : daily = DailySeries(sales, Week, now)
  OBVIOUS
<1>4. /\ Sigma([k \in DOMAIN daily |-> daily[k].revenue], DOMAIN daily) = Summary(sales, <<"7d">>, now).revenue
      /\ \A i \in DOMAIN daily :
           daily[i].revenue = Summary(sales, <<"custom", daily[i].day, daily[i].day>>, now).revenue
      /\ ComparePeriods(sales, <<"today">>, <<"yesterday">>, now).diff =
           daily[Week].revenue - daily[Week - 1].revenue
  BY <1>1, <1>3, SeriesAgrees DEF Column
<1>5. PICK profile : profile = IncomeProfile(SeriesPoints(Month), ListCloses(Month))
  OBVIOUS
<1>6. profile.average[1] = Summary(sales, <<"30d">>, now).revenue /\ profile.streak <= profile.days
  BY <1>5, ProfileAgrees
<1>7. PICK week, byDay : week = Summary(sales, <<"7d">>, now) /\ byDay = ByDay(sales, now, daily)
  OBVIOUS
<1>8. WeekAgrees(byDay, week)
  <2>1. PICK S, at : S = sales /\ at = now
    OBVIOUS
  <2>2. /\ S \in SUBSET SaleRecord /\ IsFiniteSet(S) /\ at \in Nat /\ daily = DailySeries(S, Week, at)
        /\ byDay = ByDay(S, at, daily) /\ week = Summary(S, <<"7d">>, at)
    BY <1>1, <1>3, <1>7, <2>1
  <2> QED
    BY <2>2, WeekAddsUp
<1>9. \A i \in DOMAIN daily : daily[i].revenue = byDay[i].revenue
  BY <1>4, <1>7 DEF ByDay
<1> QED
  BY <1>2, <1>3, <1>4, <1>5, <1>6, <1>7, <1>8, <1>9 DEF ReportsAgree, WeekAgrees, ByDay

\* The shop starts so, tills add sales to it one by one, products are sold no more, and
\* time goes on.
LEMMA BookStays == (Init => BookOK) /\ (BookOK /\ [Next]_vars => BookOK')
<1>1. ASSUME Init PROVE BookOK
  <2>1. PICK b \in Books : sales = b.sales
    BY <1>1 DEF Init
  <2>2. now \in Nat /\ b.sales \subseteq SaleRecord /\ IsFiniteSet(b.sales) /\ active = Goods
    BY <1>1, DaysAssumption DEF Init
  <2> QED
    BY <2>1, <2>2 DEF BookOK
<1>2. ASSUME BookOK, [Next]_vars PROVE BookOK'
  <2>1. CASE Ring
    <3>1. PICK s \in Receipts : sales' = sales \cup {[s EXCEPT !.at = now]} /\ UNCHANGED <<now, active>>
      BY <2>1 DEF Ring
    <3>2. PICK r : r = [s EXCEPT !.at = now]
      OBVIOUS
    <3>3. s \in SaleRecord /\ now \in Nat
      BY <1>2, DaysAssumption DEF BookOK
    <3>4. r \in SaleRecord
      BY <3>2, <3>3 DEF SaleRecord
    <3>5. IsFiniteSet(sales \cup {r})
      BY <1>2, FS_AddElement DEF BookOK
    <3> QED
      BY <1>2, <3>1, <3>2, <3>3, <3>4, <3>5 DEF BookOK
  <2>2. CASE Tick
    BY <1>2, <2>2 DEF BookOK, Tick
  <2>3. CASE UNCHANGED vars
    BY <1>2, <2>3 DEF BookOK, vars
  <2>4. ASSUME NEW w \in Handlers,
               CloseDay(w) \/ ReopenDay(w) \/ WriteDay(w) \/ ReadSales(w) \/ ReadCloses(w) \/ AnswerQuote(w)
        PROVE  BookOK'
    BY <1>2, <2>4 DEF BookOK, CloseDay, ReopenDay, WriteDay, ReadSales, ReadCloses, AnswerQuote
  <2>5. ASSUME NEW w \in Handlers,
               BuyFlat(w) \/ CheckPolicies(w) \/ IssuePolicy(w) \/ ReadClaims(w) \/ ReadEvidence(w) \/ PayClaim(w)
        PROVE  BookOK'
    BY <1>2, <2>5 DEF BookOK, BuyFlat, CheckPolicies, IssuePolicy, ReadClaims, ReadEvidence, PayClaim
  <2>6. ASSUME NEW w \in Handlers, DeactivateProduct(w) PROVE BookOK'
    BY <1>2, <2>6 DEF BookOK, DeactivateProduct
  <2> QED
    BY <1>2, <2>1, <2>2, <2>3, <2>4, <2>5, <2>6 DEF Next
<1> QED
  BY <1>1, <1>2

\* The tables of the report page agree whichever way they cut the sales, also those of
\* products sold no more, and the income profile leaves out no revenue, at every moment.
THEOREM ReportsStayAgreed == Spec => []ReportsAgree
<1>1. Init => BookOK
  BY BookStays
<1>2. BookOK /\ [Next]_vars => BookOK'
  BY BookStays
<1>3. BookOK => ReportsAgree
  BY AgreeFromBook
<1> QED
  BY <1>1, <1>2, <1>3, PTL DEF Spec
-----------------------------------------------------------------------------
(***************************************************************************)
(* The schedule of a loan.                                                 *)
(***************************************************************************)

\* What holds of the first of some naturals, and of each if of the one before, holds
\* of all of them.
LEMMA UpTo ==
    ASSUME NEW m \in Nat, NEW n \in Nat, NEW P, m \in P, \A k \in m + 1 .. n : k - 1 \in P => k \in P
    PROVE  \A k \in m .. n : k \in P
<1>1. PICK Bad : Bad = {k \in m .. n : k \notin P}
  OBVIOUS
<1>2. ASSUME Bad # {} PROVE FALSE
  <2>1. Bad \in SUBSET Nat
    BY <1>1
  <2>2. PICK k : k \in Bad /\ \A j \in Bad : k <= j
    BY <1>2, <2>1, MinOfNat
  <2>3. k \in m .. n /\ k \notin P /\ k # m
    BY <1>1, <2>2
  <2>4. k \in m + 1 .. n /\ k - 1 \in m .. n /\ ~(k <= k - 1)
    BY <2>3
  <2>5. k - 1 \in P
    BY <1>1, <2>2, <2>4
  <2> QED
    BY <2>3, <2>4, <2>5
<1> QED
  BY <1>1, <1>2

\* h starts with a number and makes each next one of the one before.
Steps(h, start, step, m, n) ==
    h = [k \in m .. n |-> IF k = m THEN start ELSE step[<<k, h[k - 1]>>]]

\* Which is to say this of its values.
LEMMA StepsAre ==
    ASSUME NEW h, NEW start, NEW step, NEW m \in Nat, NEW n \in Nat, m <= n, Steps(h, start, step, m, n)
    PROVE  /\ DOMAIN h = m .. n /\ h[m] = start
           /\ \A k \in m + 1 .. n : h[k] = step[<<k, h[k - 1]>>]
<1>1. m \in m .. n /\ \A k \in m + 1 .. n : k \in m .. n /\ k # m
  OBVIOUS
<1>2. DOMAIN h = m .. n
  BY DEF Steps
<1>3. \A k \in m .. n : h[k] = IF k = m THEN start ELSE step[<<k, h[k - 1]>>]
  BY DEF Steps
<1> QED
  BY <1>1, <1>2, <1>3

\* There is one.
LEMMA StepsExist ==
    ASSUME NEW start, NEW step, NEW m \in Nat, NEW n \in Nat, m <= n
    PROVE  \E h : Steps(h, start, step, m, n)
<1>1. PICK P : P = {k \in m .. n : \E h : Steps(h, start, step, m, k)}
  OBVIOUS
<1>2. m \in P
  <2>1. PICK h : h = [k \in m .. m |-> start]
    OBVIOUS
  <2>2. \A k \in m .. m : k = m
    OBVIOUS
  <2>3. Steps(h, start, step, m, m)
    BY <2>1, <2>2 DEF Steps
  <2> QED
    BY <1>1, <2>3
<1>3. ASSUME NEW k \in m + 1 .. n, k - 1 \in P PROVE k \in P
  <2>1. PICK g : Steps(g, start, step, m, k - 1)
    BY <1>1, <1>3
  <2>2. PICK h : h = [j \in m .. k |-> IF j = k THEN step[<<k, g[k - 1]>>] ELSE g[j]]
    OBVIOUS
  <2>3. k - 1 \in Nat /\ m <= k - 1 /\ k \in m .. n /\ k # m /\ k - 1 \in m .. k
    BY <1>3
  <2>4. DOMAIN g = m .. k - 1 /\ \A j \in m .. k - 1 : g[j] = IF j = m THEN start ELSE step[<<j, g[j - 1]>>]
    BY <2>1 DEF Steps
  <2>5. \A j \in m .. k : j - 1 \in m .. k \/ j = m
    BY <1>3
  <2>6. ASSUME NEW j \in m .. k PROVE h[j] = IF j = m THEN start ELSE step[<<j, h[j - 1]>>]
    <3>1. CASE j = k
      <4>1. h[k - 1] = g[k - 1]
        BY <2>2, <2>3
      <4> QED
        BY <2>2, <2>3, <3>1, <4>1
    <3>2. CASE j # k
      <4>1. j \in m .. k - 1 /\ h[j] = g[j]
        BY <2>2, <2>3, <3>2
      <4>2. CASE j = m
        BY <2>4, <4>1, <4>2
      <4>3. CASE j # m
        <5>1. j - 1 \in m .. k /\ j - 1 # k
          BY <2>3, <3>2, <4>3
        <5>2. h[j - 1] = g[j - 1]
          BY <2>2, <5>1
        <5> QED
          BY <2>4, <4>1, <4>3, <5>2
      <4> QED
        BY <4>2, <4>3
    <3> QED
      BY <3>1, <3>2
  <2>7. h = [j \in m .. k |-> IF j = m THEN start ELSE step[<<j, h[j - 1]>>]]
    BY <2>2, <2>6
  <2> QED
    BY <1>1, <2>3, <2>7 DEF Steps
<1>4. \A k \in m .. n : k \in P
  BY <1>2, <1>3, UpTo
<1>5. n \in m .. n
  OBVIOUS
<1> QED
  BY <1>1, <1>4, <1>5

\* If its steps lead from integers to integers, it has integers only.
LEMMA StepsTyped ==
    ASSUME NEW h, NEW m \in Nat, NEW n \in Nat, m <= n, h[m] \in Int,
           \A k \in m + 1 .. n : h[k - 1] \in Int => h[k] \in Int
    PROVE  \A k \in m .. n : h[k] \in Int
<1>1. PICK P : P = {k \in m .. n : h[k] \in Int}
  OBVIOUS
<1>2. m \in P
  BY <1>1
<1>3. \A k \in m + 1 .. n : k - 1 \in P => k \in P
  BY <1>1
<1>4. \A k \in m .. n : k \in P
  BY <1>2, <1>3, UpTo
<1> QED
  BY <1>1, <1>4

\* The function by whose recursion Power is defined.
PowerFun(p, base, n) == p = [k \in 0 .. n |-> IF k = 0 THEN 1 ELSE base * p[k - 1]]

\* Power is its last value.
LEMMA PowerIsLast == ASSUME NEW base, NEW n PROVE Power(base, n) = (CHOOSE p : PowerFun(p, base, n))[n]
  BY DEF Power, PowerFun

\* The powers up to one.
LEMMA Powers ==
    ASSUME NEW base \in Int, NEW n \in Nat
    PROVE  \E p : /\ p[0] = 1 /\ Power(base, n) = p[n]
                  /\ \A k \in 0 .. n : p[k] \in Int
                  /\ \A k \in 1 .. n : p[k] = base * p[k - 1]
<1>1. PICK step : step = [q \in (0 .. n) \X Int |-> base * q[2]]
  OBVIOUS
<1>2. PICK h : Steps(h, 1, step, 0, n)
  <2>1. PICK z, one : z = 0 /\ one = 1
    OBVIOUS
  <2>2. z \in Nat /\ z <= n
    BY <2>1
  <2>3. \E h : Steps(h, one, step, z, n)
    BY <2>2, StepsExist
  <2> QED
    BY <2>1, <2>3
<1>3. DOMAIN h = 0 .. n /\ h[0] = 1 /\ \A k \in 1 .. n : h[k] = step[<<k, h[k - 1]>>]
  <2>1. 0 \in Nat /\ 0 <= n /\ 0 + 1 = 1
    OBVIOUS
  <2> QED
    BY <1>2, <2>1, StepsAre
<1>4. ASSUME NEW k \in 1 .. n, h[k - 1] \in Int PROVE h[k] = base * h[k - 1]
  <2>1. PICK q : q = <<k, h[k - 1]>>
    OBVIOUS
  <2>2. q \in (0 .. n) \X Int /\ q[2] = h[k - 1]
    BY <1>4, <2>1
  <2> QED
    BY <1>1, <1>3, <2>1, <2>2
<1>5. \A k \in 0 .. n : h[k] \in Int
  <2>1. 0 \in Nat /\ 0 <= n /\ 0 + 1 = 1 /\ h[0] \in Int
    BY <1>3
  <2>2. \A k \in 0 + 1 .. n : h[k - 1] \in Int => h[k] \in Int
    BY <1>4
  <2> QED
    BY <2>1, <2>2, StepsTyped
<1>6. PowerFun(h, base, n)
  <2>1. h = [k \in 0 .. n |-> h[k]]
    BY <1>2, <1>3 DEF Steps
  <2>2. \A k \in 0 .. n : h[k] = IF k = 0 THEN 1 ELSE base * h[k - 1]
    BY <1>3, <1>4, <1>5
  <2> QED
    BY <2>1, <2>2 DEF PowerFun
<1>7. PICK p : p = CHOOSE x : PowerFun(x, base, n)
  OBVIOUS
<1>8. PowerFun(p, base, n)
  BY <1>6, <1>7
<1>9. p[0] = 1 /\ \A k \in 1 .. n : p[k] = base * p[k - 1]
  BY <1>8 DEF PowerFun
<1>10. \A k \in 0 .. n : p[k] \in Int
  <2>1. 0 \in Nat /\ 0 <= n /\ 0 + 1 = 1 /\ p[0] \in Int
    BY <1>9
  <2>2. \A k \in 0 + 1 .. n : p[k - 1] \in Int => p[k] \in Int
    BY <1>9
  <2> QED
    BY <2>1, <2>2, StepsTyped
<1>11. Power(base, n) = p[n]
  BY <1>7, PowerIsLast
<1> QED
  BY <1>9, <1>10, <1>11

\* Nothing grows slower than something, and in every month.
LEMMA Growth ==
    ASSUME NEW a \in Nat, NEW b \in Nat, b > 0, NEW n \in Nat, NEW u, NEW v, u[0] = 1, v[0] = 1,
           \A k \in 0 .. n : u[k] \in Int /\ v[k] \in Int,
           \A k \in 1 .. n : u[k] = (a + b) * u[k - 1] /\ v[k] = b * v[k - 1]
    PROVE  /\ \A k \in 0 .. n : u[k] >= v[k] /\ v[k] >= 1
           /\ a > 0 => \A k \in 1 .. n : u[k] > v[k]
<1>1. ASSUME NEW x \in Int, NEW y \in Int, x >= y, y >= 1
      PROVE  (a + b) * x >= b * y /\ b * y >= 1 /\ (a > 0 => (a + b) * x > b * y)
  <2>1. (a + b) * x = a * x + b * x
    OBVIOUS
  <2>2. b * x >= b * y /\ b * y >= 1
    BY <1>1
  <2>3. a * x \in Int /\ b * x \in Int /\ b * y \in Int /\ a * x >= 0 /\ (a > 0 => a * x > 0)
    BY <1>1
  <2> QED
    BY <2>1, <2>2, <2>3
<1>2. PICK P : P = {k \in 0 .. n : u[k] >= v[k] /\ v[k] >= 1}
  OBVIOUS
<1>3. 0 \in P
  BY <1>2
<1>4. ASSUME NEW k \in 1 .. n, k - 1 \in P PROVE k \in P /\ (a > 0 => u[k] > v[k])
  <2>1. PICK x, y : x = u[k - 1] /\ y = v[k - 1]
    OBVIOUS
  <2>2. x \in Int /\ y \in Int /\ x >= y /\ y >= 1
    BY <1>2, <1>4, <2>1
  <2>3. u[k] = (a + b) * x /\ v[k] = b * y
    BY <2>1
  <2>4. (a + b) * x >= b * y /\ b * y >= 1 /\ (a > 0 => (a + b) * x > b * y)
    BY <1>1, <2>2
  <2>5. k \in 0 .. n
    OBVIOUS
  <2> QED
    BY <1>2, <2>3, <2>4, <2>5
<1>5. \A k \in 0 .. n : k \in P
  <2>1. 0 \in Nat /\ 0 + 1 = 1
    OBVIOUS
  <2> QED
    BY <1>3, <1>4, <2>1, UpTo
<1>6. \A k \in 1 .. n : k - 1 \in 0 .. n
  OBVIOUS
<1> QED
  BY <1>2, <1>4, <1>5, <1>6

\* Rounding to the nearest whole.
LEMMA HalfUpIs ==
    ASSUME NEW x \in Int, NEW d \in Nat, d > 0
    PROVE  /\ HalfUp(x, d) \in Int
           /\ 2 * (d * HalfUp(x, d)) - 2 * x <= d
           /\ 2 * x - 2 * (d * HalfUp(x, d)) < d
<1>1. PICK y, e, h : y = 2 * x + d /\ e = 2 * d /\ h = HalfUp(x, d)
  OBVIOUS
<1>2. y \in Int /\ e \in Nat /\ e > 0
  BY <1>1
<1>3. h = y \div e
  BY <1>1 DEF HalfUp
<1>4. h \in Int /\ e * h <= y /\ y < e * h + e
  BY <1>2, <1>3
<1>5. e * h = 2 * (d * h) /\ d * h \in Int
  BY <1>1, <1>4
<1> QED
  BY <1>1, <1>4, <1>5

\* What is worth no more is rounded to no more.
LEMMA HalfUpMonotone ==
    ASSUME NEW x \in Int, NEW d \in Nat, d > 0, NEW y \in Int, NEW e \in Nat, e > 0, x * e <= y * d
    PROVE  HalfUp(x, d) <= HalfUp(y, e)
<1>1. PICK h, g : h = HalfUp(x, d) /\ g = HalfUp(y, e)
  OBVIOUS
<1>2. h \in Int /\ 2 * (d * h) - 2 * x <= d /\ g \in Int /\ 2 * y - 2 * (e * g) < e
  BY <1>1, HalfUpIs
<1>3. ASSUME h >= g + 1 PROVE FALSE
  <2>1. PICK X, Y, D, H, G : X = x * e /\ Y = y * d /\ D = d * e /\ H = (d * e) * h /\ G = (d * e) * g
    OBVIOUS
  <2>2. X \in Int /\ Y \in Int /\ D \in Int /\ H \in Int /\ G \in Int
    BY <1>2, <2>1
  <2>3. H >= G + D
    <3>1. (d * e) * h >= (d * e) * (g + 1)
      <4>1. d * e \in Nat
        OBVIOUS
      <4> QED
        BY <1>2, <1>3, <4>1
    <3>2. (d * e) * (g + 1) = (d * e) * g + d * e
      BY <1>2
    <3> QED
      BY <2>1, <2>2, <3>1, <3>2
  <2>4. 2 * H - 2 * X <= D
    <3>1. (2 * (d * h) - 2 * x) * e <= d * e
      BY <1>2
    <3>2. (2 * (d * h) - 2 * x) * e = 2 * ((d * e) * h) - 2 * (x * e)
      BY <1>2
    <3> QED
      BY <2>1, <3>1, <3>2
  <2>5. 2 * Y - 2 * G < D
    <3>1. (2 * y - 2 * (e * g)) * d < e * d
      BY <1>2
    <3>2. (2 * y - 2 * (e * g)) * d = 2 * (y * d) - 2 * ((d * e) * g)
      BY <1>2
    <3>3. e * d = d * e
      OBVIOUS
    <3> QED
      BY <2>1, <3>1, <3>2, <3>3
  <2> QED
    BY <2>1, <2>2, <2>3, <2>4, <2>5
<1> QED
  BY <1>1, <1>2, <1>3

\* An installment of a schedule, when some of the loan remains.
Installment(each, rate, term, firstDue, seq, remaining) ==
    [due |-> AddMonths(firstDue, seq - 1),
     principal |-> Repaid(each, Times(remaining, rate), remaining, seq = term),
     interest |-> Times(remaining, rate),
     amount |-> Repaid(each, Times(remaining, rate), remaining, seq = term) + Times(remaining, rate)]

\* The function by whose recursion BuildSchedule is defined: what remains before each.
Remains(f, amount, each, rate, term, firstDue) ==
    f = [seq \in 1 .. term |->
            IF seq = 1 THEN amount
            ELSE f[seq - 1] - Installment(each, rate, term, firstDue, seq - 1, f[seq - 1]).principal]

\* A schedule is of its values.
LEMMA ScheduleOfRemains ==
    ASSUME NEW amount, NEW rate, NEW term, NEW firstDue
    PROVE  BuildSchedule(amount, rate, term, firstDue) =
             [seq \in 1 .. term |->
                Installment(AmortizedInstallment(amount, rate, term), rate, term, firstDue, seq,
                  (CHOOSE f : Remains(f, amount, AmortizedInstallment(amount, rate, term), rate, term, firstDue))[seq])]
  BY DEF BuildSchedule, Remains, Installment

\* u and v are the powers of a + b and b.
Grows(u, v, a, b, n) ==
    /\ u[0] = 1 /\ v[0] = 1
    /\ \A k \in 0 .. n : u[k] \in Int /\ v[k] \in Int
    /\ \A k \in 0 .. n : u[k] >= v[k] /\ v[k] >= 1
    /\ \A k \in 1 .. n : u[k] = (a + b) * u[k - 1] /\ v[k] = b * v[k - 1]

\* The powers of a rate's two terms.
LEMMA Grown ==
    ASSUME NEW a \in Nat, NEW b \in Nat, b > 0, NEW n \in Nat
    PROVE  \E u, v : /\ Grows(u, v, a, b, n) /\ Power(a + b, n) = u[n] /\ Power(b, n) = v[n]
                     /\ (a > 0 /\ n > 0) => u[n] > v[n]
<1>1. PICK u : /\ u[0] = 1 /\ Power(a + b, n) = u[n]
               /\ \A k \in 0 .. n : u[k] \in Int
               /\ \A k \in 1 .. n : u[k] = (a + b) * u[k - 1]
  <2>1. a + b \in Int
    OBVIOUS
  <2> QED
    BY <2>1, Powers
<1>2. PICK v : /\ v[0] = 1 /\ Power(b, n) = v[n]
               /\ \A k \in 0 .. n : v[k] \in Int
               /\ \A k \in 1 .. n : v[k] = b * v[k - 1]
  <2>1. b \in Int
    OBVIOUS
  <2> QED
    BY <2>1, Powers
<1>3. \A k \in 0 .. n : u[k] \in Int /\ v[k] \in Int
  BY <1>1, <1>2
<1>4. \A k \in 1 .. n : u[k] = (a + b) * u[k - 1] /\ v[k] = b * v[k - 1]
  BY <1>1, <1>2
<1>5. /\ \A k \in 0 .. n : u[k] >= v[k] /\ v[k] >= 1
      /\ a > 0 => \A k \in 1 .. n : u[k] > v[k]
  BY <1>1, <1>2, <1>3, <1>4, Growth
<1>6. Grows(u, v, a, b, n)
  BY <1>1, <1>2, <1>3, <1>4, <1>5 DEF Grows
<1>7. (a > 0 /\ n > 0) => u[n] > v[n]
  BY <1>5
<1> QED
  BY <1>1, <1>2, <1>6, <1>7

\* One more month: what the difference from the exact debt grows to.
LEMMA RoundingGrows ==
    ASSUME NEW a \in Nat, NEW b \in Nat, b > 0, NEW u \in Int, NEW v \in Int, u >= v, v >= 1,
           NEW P \in Int, NEW I \in Int, NEW x \in Int, NEW h \in Int,
           2 * (b * h) - 2 * (x * a) <= b, 2 * (x * a) - 2 * (b * h) <= b,
           2 * (a * v * x - (a * P * u - b * I * (u - v))) <= b * (u - v),
           -(b * (u - v)) <= 2 * (a * v * x - (a * P * u - b * I * (u - v)))
    PROVE  LET y == x - (I - h)
               uu == (a + b) * u
               vv == b * v
           IN  /\ 2 * (a * vv * y - (a * P * uu - b * I * (uu - vv))) <= b * (uu - vv)
               /\ -(b * (uu - vv)) <= 2 * (a * vv * y - (a * P * uu - b * I * (uu - vv)))
<1>1. PICK D, E, w, c : /\ D = a * v * x - (a * P * u - b * I * (u - v)) /\ E = b * h - a * x
                        /\ w = b * (u - v) /\ c = a + b
  OBVIOUS
<1>2. D \in Int /\ E \in Int /\ w \in Int /\ c \in Nat
  BY <1>1
<1>3. 2 * D <= w /\ -w <= 2 * D /\ 2 * E <= b /\ -b <= 2 * E
  <2>1. a * x = x * a
    OBVIOUS
  <2>2. 2 * E = 2 * (b * h) - 2 * (x * a)
    BY <1>1, <2>1
  <2> QED
    BY <1>1, <1>2, <2>2
<1>4. a * (b * v) * (x - (I - h)) - (a * P * ((a + b) * u) - b * I * ((a + b) * u - b * v))
        = c * D + (a * v) * E
  BY <1>1
<1>5. b * ((a + b) * u - b * v) = c * w + (a * v) * b
  BY <1>1
<1>6. c * (2 * D) <= c * w /\ c * (-w) <= c * (2 * D)
  BY <1>2, <1>3
<1>7. (a * v) * (2 * E) <= (a * v) * b /\ (a * v) * (-b) <= (a * v) * (2 * E)
  <2>1. a * v \in Nat
    OBVIOUS
  <2> QED
    BY <1>2, <1>3, <2>1
<1>8. PICK Y, Z, X, F, G, H : /\ Y = a * (b * v) * (x - (I - h)) - (a * P * ((a + b) * u) - b * I * ((a + b) * u - b * v))
                        /\ Z = b * ((a + b) * u - b * v) /\ X = c * D /\ F = (a * v) * E
                        /\ G = c * w /\ H = (a * v) * b
  OBVIOUS
<1>9. Y \in Int /\ Z \in Int /\ X \in Int /\ F \in Int /\ G \in Int /\ H \in Int
  BY <1>2, <1>8
<1>10. c * (2 * D) = 2 * X /\ c * (-w) = -G /\ (a * v) * (2 * E) = 2 * F /\ (a * v) * (-b) = -H
  BY <1>2, <1>8
<1>11. Y = X + F /\ Z = G + H /\ 2 * X <= G /\ -G <= 2 * X /\ 2 * F <= H /\ -H <= 2 * F
  BY <1>4, <1>5, <1>6, <1>7, <1>8, <1>10
<1>12. 2 * Y <= Z /\ -Z <= 2 * Y
  BY <1>9, <1>11
<1> QED
  BY <1>8, <1>12

\* f is what remains of P before each of n installments of I, at the rate of a to b.
Repays(f, a, b, n, P, I) ==
    /\ f[1] = P /\ \A k \in 1 .. n : f[k] \in Int
    /\ \A k \in 2 .. n : f[k] = f[k - 1] - (I - HalfUp(f[k - 1] * a, b))

\* x is the exact debt but for half of what one in each month grows to.
Nearly(x, a, b, P, I, p, q) ==
    /\ 2 * (a * q * x - (a * P * p - b * I * (p - q))) <= b * (p - q)
    /\ -(b * (p - q)) <= 2 * (a * q * x - (a * P * p - b * I * (p - q)))

\* Before each installment the debt is the exact one but for the roundings so far.
LEMMA NearlyOwed ==
    ASSUME NEW a \in Nat, NEW b \in Nat, b > 0, NEW n \in Nat, n >= 1, NEW P \in Int, NEW I \in Int,
           NEW f, NEW u, NEW v, Repays(f, a, b, n, P, I), Grows(u, v, a, b, n)
    PROVE  \A k \in 1 .. n : Nearly(f[k], a, b, P, I, u[k - 1], v[k - 1])
<1>1. PICK S : S = {k \in 1 .. n : Nearly(f[k], a, b, P, I, u[k - 1], v[k - 1])}
  OBVIOUS
<1>2. 1 \in S
  <2>1. 1 \in 1 .. n /\ 1 - 1 = 0
    OBVIOUS
  <2>2. a * 1 * P - (a * P * 1 - b * I * (1 - 1)) = 0 /\ b * (1 - 1) = 0
    OBVIOUS
  <2>3. Nearly(P, a, b, P, I, 1, 1)
    BY <2>2 DEF Nearly
  <2>4. f[1] = P /\ u[0] = 1 /\ v[0] = 1
    BY DEF Repays, Grows
  <2> QED
    BY <1>1, <2>1, <2>3, <2>4
<1>3. ASSUME NEW k \in 2 .. n, k - 1 \in S PROVE k \in S
  <2>1. PICK j : j = k - 1
    OBVIOUS
  <2>2. j \in 1 .. n /\ j - 1 \in 0 .. n /\ k \in 1 .. n
    BY <2>1
  <2>3. PICK x, p, q, h : x = f[j] /\ p = u[j - 1] /\ q = v[j - 1] /\ h = HalfUp(x * a, b)
    OBVIOUS
  <2>4. x \in Int /\ p \in Int /\ q \in Int /\ p >= q /\ q >= 1
    BY <2>2, <2>3 DEF Repays, Grows
  <2>5. x * a \in Int
    BY <2>4
  <2>6. h \in Int /\ 2 * (b * h) - 2 * (x * a) <= b /\ 2 * (x * a) - 2 * (b * h) < b
    BY <2>3, <2>5, HalfUpIs
  <2>7. b * h \in Int
    BY <2>6
  <2>8. 2 * (x * a) - 2 * (b * h) <= b
    BY <2>5, <2>6, <2>7
  <2>9. Nearly(x, a, b, P, I, p, q)
    BY <1>1, <1>3, <2>1, <2>3
  <2>10. f[k] = x - (I - h) /\ u[j] = (a + b) * p /\ v[j] = b * q
    BY <2>1, <2>2, <2>3 DEF Repays, Grows
  <2>11. PICK y, pp, qq : y = x - (I - h) /\ pp = (a + b) * p /\ qq = b * q
    OBVIOUS
  <2>12. Nearly(y, a, b, P, I, pp, qq)
    BY <2>4, <2>6, <2>8, <2>9, <2>11, RoundingGrows DEF Nearly
  <2>13. f[k] = y /\ u[k - 1] = pp /\ v[k - 1] = qq
    BY <2>1, <2>10, <2>11
  <2> QED
    BY <1>1, <2>2, <2>12, <2>13
<1>4. \A k \in 1 .. n : k \in S
  <2>1. 1 \in Nat /\ 1 + 1 = 2
    OBVIOUS
  <2> QED
    BY <1>2, <1>3, <2>1, UpTo
<1> QED
  BY <1>1, <1>4

\* What the last installment differs by from the others.
LEMMA LastNearly ==
    ASSUME NEW a \in Nat, NEW b \in Nat, b > 0, a > 0, NEW n \in Nat, n >= 1, NEW P \in Int, NEW I \in Int,
           NEW f, NEW u, NEW v, Repays(f, a, b, n, P, I), Grows(u, v, a, b, n),
           u[n] > v[n], I = HalfUp(P * a * u[n], b * (u[n] - v[n]))
    PROVE  (f[n] + HalfUp(f[n] * a, b) - I) * a * v[n] \in -(b * (u[n] - v[n])) .. b * (u[n] - v[n])
<1>1. PICK x, p, q, h : x = f[n] /\ p = u[n - 1] /\ q = v[n - 1] /\ h = HalfUp(x * a, b)
  OBVIOUS
<1>2. n \in 1 .. n /\ n - 1 \in 0 .. n /\ n \in 0 .. n
  OBVIOUS
<1>3. x \in Int /\ p \in Int /\ q \in Int /\ p >= q /\ q >= 1
  BY <1>1, <1>2 DEF Repays, Grows
<1>4. x * a \in Int
  BY <1>3
<1>5. h \in Int /\ 2 * (b * h) - 2 * (x * a) <= b /\ 2 * (x * a) - 2 * (b * h) < b
  BY <1>1, <1>4, HalfUpIs
<1>6. b * h \in Int
  BY <1>5
<1>7. 2 * (x * a) - 2 * (b * h) <= b
  BY <1>4, <1>5, <1>6
<1>8. Nearly(x, a, b, P, I, p, q)
  <2>1. \A k \in 1 .. n : Nearly(f[k], a, b, P, I, u[k - 1], v[k - 1])
    BY NearlyOwed
  <2> QED
    BY <1>1, <1>2, <2>1
<1>9. PICK y, G, B : y = x - (I - h) /\ G = (a + b) * p /\ B = b * q
  OBVIOUS
<1>10. Nearly(y, a, b, P, I, G, B)
  BY <1>3, <1>5, <1>7, <1>8, <1>9, RoundingGrows DEF Nearly
<1>11. u[n] = G /\ v[n] = B /\ G \in Int /\ B \in Int /\ G > B
  BY <1>1, <1>2, <1>3, <1>9 DEF Grows
<1>12. PICK d, w : d = b * (G - B) /\ w = P * a * G
  OBVIOUS
<1>13. d \in Nat /\ d > 0 /\ w \in Int
  <2>1. PICK g : g = G - B
    OBVIOUS
  <2>2. g \in Int /\ g > 0
    BY <1>11, <2>1
  <2>3. b * g \in Nat /\ b * g > 0
    BY <2>2
  <2> QED
    BY <1>11, <1>12, <2>1, <2>3
<1>14. 2 * (d * I) - 2 * w <= d /\ 2 * w - 2 * (d * I) < d
  BY <1>11, <1>12, <1>13, HalfUpIs
<1>15. PICK Y, W, V : Y = a * B * y /\ W = a * P * G /\ V = b * I * (G - B)
  OBVIOUS
<1>16. Y \in Int /\ W \in Int /\ V \in Int /\ w = W /\ d * I = V /\ y \in Int
  <2>1. y \in Int /\ G - B \in Int
    BY <1>3, <1>5, <1>9, <1>11
  <2>2. Y \in Int /\ W \in Int /\ V \in Int
    BY <1>11, <1>15, <2>1
  <2>3. P * a = a * P
    OBVIOUS
  <2>4. w = W
    BY <1>12, <1>15, <2>3
  <2>5. PICK g : g = G - B
    OBVIOUS
  <2>6. (b * g) * I = b * I * g
    BY <2>1, <2>5
  <2>7. d * I = V
    BY <1>12, <1>15, <2>5, <2>6
  <2> QED
    BY <2>1, <2>2, <2>4, <2>7
<1>17. 2 * (Y - (W - V)) <= d /\ -d <= 2 * (Y - (W - V)) /\ 2 * V - 2 * W <= d /\ 2 * W - 2 * V < d
  BY <1>10, <1>12, <1>14, <1>15, <1>16 DEF Nearly
<1>18. Y <= d /\ -d <= Y
  BY <1>13, <1>16, <1>17
<1>19. f[n] + HalfUp(f[n] * a, b) - I = y
  BY <1>1, <1>3, <1>5, <1>9
<1>20. y * a * B = Y
  BY <1>11, <1>15, <1>16
<1> QED
  BY <1>11, <1>12, <1>13, <1>16, <1>18, <1>19, <1>20

\* Installments that pay the interest of the whole leave none of their principals below
\* zero.
LEMMA NoneAdds ==
    ASSUME NEW a \in Nat, NEW b \in Nat, b > 0, NEW n \in Nat, n >= 1, NEW P \in Int, NEW I \in Int,
           NEW f, Repays(f, a, b, n, P, I), HalfUp(P * a, b) <= I
    PROVE  \A k \in 1 .. n : I - HalfUp(f[k] * a, b) >= 0
<1>1. ASSUME NEW x \in Int, x <= P PROVE HalfUp(x * a, b) \in Int /\ HalfUp(x * a, b) <= I
  <2>1. x * a \in Int /\ P * a \in Int /\ x * a <= P * a
    BY <1>1
  <2>2. (x * a) * b <= (P * a) * b
    BY <2>1
  <2>3. PICK y, z : y = x * a /\ z = P * a
    OBVIOUS
  <2>4. HalfUp(y, b) <= HalfUp(z, b)
    BY <2>1, <2>2, <2>3, HalfUpMonotone
  <2>5. HalfUp(y, b) \in Int /\ HalfUp(z, b) \in Int
    BY <2>1, <2>3, HalfUpIs
  <2> QED
    BY <2>3, <2>4, <2>5
<1>2. PICK S : S = {k \in 1 .. n : f[k] <= P}
  OBVIOUS
<1>3. 1 \in S
  BY <1>2 DEF Repays
<1>4. ASSUME NEW k \in 2 .. n, k - 1 \in S PROVE k \in S
  <2>1. PICK x, h : x = f[k - 1] /\ h = HalfUp(x * a, b)
    OBVIOUS
  <2>2. k - 1 \in 1 .. n /\ k \in 1 .. n
    OBVIOUS
  <2>3. x \in Int /\ x <= P
    BY <1>2, <1>4, <2>1, <2>2 DEF Repays
  <2>4. h \in Int /\ h <= I
    BY <1>1, <2>1, <2>3
  <2>5. f[k] = x - (I - h)
    BY <2>1 DEF Repays
  <2> QED
    BY <1>2, <2>2, <2>3, <2>4, <2>5
<1>5. \A k \in 1 .. n : k \in S
  <2>1. 1 \in Nat /\ 1 + 1 = 2
    OBVIOUS
  <2> QED
    BY <1>3, <1>4, <2>1, UpTo
<1>6. ASSUME NEW k \in 1 .. n PROVE I - HalfUp(f[k] * a, b) >= 0
  <2>1. PICK x : x = f[k]
    OBVIOUS
  <2>2. x \in Int /\ x <= P
    BY <1>2, <1>5, <2>1 DEF Repays
  <2>3. HalfUp(x * a, b) \in Int /\ HalfUp(x * a, b) <= I
    BY <1>1, <2>2
  <2> QED
    BY <2>1, <2>3
<1> QED
  BY <1>6

\* The principals are all of the loan.
LEMMA PaysAll ==
    ASSUME NEW a \in Nat, NEW b \in Nat, b > 0, NEW n \in Nat, n >= 1, NEW P \in Int, NEW I \in Int,
           NEW f, Repays(f, a, b, n, P, I), NEW g, g[n] = f[n],
           \A k \in 1 .. n - 1 : g[k] = I - HalfUp(f[k] * a, b)
    PROVE  Sigma(g, 1 .. n) = P
<1>1. \A k \in 1 .. n : f[k] \in Int
  BY DEF Repays
<1>2. ASSUME NEW k \in 1 .. n PROVE g[k] \in Int
  <2>1. PICK x, h : x = f[k] * a /\ h = HalfUp(x, b)
    OBVIOUS
  <2>2. x \in Int
    BY <1>1, <2>1
  <2>3. h \in Int
    BY <2>1, <2>2, HalfUpIs
  <2>4. CASE k = n
    BY <1>1, <2>4
  <2>5. CASE k # n
    <3>1. k \in 1 .. n - 1
      BY <2>5
    <3> QED
      BY <2>1, <2>3, <3>1
  <2> QED
    BY <2>4, <2>5
<1>3. PICK S : S = {k \in 0 .. n - 1 : Sigma(g, 1 .. k) = P - f[k + 1]}
  OBVIOUS
<1>4. 0 \in S
  <2>1. 1 .. 0 = {} /\ 0 + 1 = 1 /\ 0 \in 0 .. n - 1
    OBVIOUS
  <2>2. Sigma(g, {}) = 0
    BY SigmaEmpty
  <2>3. f[1] = P
    BY DEF Repays
  <2> QED
    BY <1>3, <2>1, <2>2, <2>3
<1>5. ASSUME NEW k \in 1 .. n PROVE Sigma(g, 1 .. k) = Sigma(g, 1 .. k - 1) + g[k]
  <2>1. PICK T : T = 1 .. k - 1
    OBVIOUS
  <2>2. T \cup {k} = 1 .. k /\ k \notin T
    BY <2>1
  <2>3. IsFiniteSet(T)
    BY <2>1, FS_Interval
  <2>4. \A y \in T \cup {k} : g[y] \in Int
    BY <1>2, <2>2
  <2>5. Sigma(g, T \cup {k}) = Sigma(g, T) + g[k]
    BY <2>2, <2>3, <2>4, SigmaAdd
  <2> QED
    BY <2>1, <2>2, <2>5
<1>6. ASSUME NEW k \in 1 .. n - 1, k - 1 \in S PROVE k \in S
  <2>1. PICK j, x, y, i : j = k + 1 /\ x = f[k] /\ y = f[j] /\ i = HalfUp(f[k] * a, b)
    OBVIOUS
  <2>2. j \in 2 .. n /\ j - 1 = k /\ k \in 1 .. n /\ j \in 1 .. n /\ k - 1 + 1 = k /\ k \in 0 .. n - 1
    BY <2>1
  <2>3. y = x - (I - i)
    BY <2>1, <2>2 DEF Repays
  <2>4. Sigma(g, 1 .. k - 1) = P - x
    BY <1>3, <1>6, <2>1, <2>2
  <2>5. Sigma(g, 1 .. k) = P - x + g[k]
    BY <1>5, <2>2, <2>4
  <2>6. g[k] = I - i /\ g[k] \in Int /\ x \in Int /\ y \in Int
    BY <1>1, <1>2, <2>1, <2>2
  <2>7. Sigma(g, 1 .. k) = P - y
    BY <2>3, <2>5, <2>6
  <2> QED
    BY <1>3, <2>1, <2>2, <2>7
<1>7. \A k \in 0 .. n - 1 : k \in S
  <2>1. 0 \in Nat /\ 0 + 1 = 1 /\ n - 1 \in Nat
    OBVIOUS
  <2>2. \A k \in 0 + 1 .. n - 1 : k - 1 \in S => k \in S
    BY <1>6
  <2> QED
    BY <1>4, <2>1, <2>2, UpTo
<1>8. n - 1 \in S /\ n - 1 + 1 = n /\ n \in 1 .. n
  BY <1>7
<1> QED
  BY <1>1, <1>3, <1>5, <1>8

\* Without interest each installment takes as much, and the last one what is left of
\* their rounding.
LEMMA LastOfNoInterest ==
    ASSUME NEW b \in Nat, b > 0, NEW n \in Nat, n >= 1, NEW P \in Int, NEW I \in Int,
           NEW f, Repays(f, 0, b, n, P, I), I = HalfUp(P, n)
    PROVE  f[n] + HalfUp(f[n] * 0, b) - I \in -n .. n
<1>1. \A x \in Int : x * 0 = 0
  OBVIOUS
<1>2. HalfUp(0, b) = 0
  <2>1. PICK h : h = HalfUp(0, b)
    OBVIOUS
  <2>2. h \in Int /\ 2 * (b * h) - 2 * 0 <= b /\ 2 * 0 - 2 * (b * h) < b
    BY <2>1, HalfUpIs
  <2>3. ASSUME h >= 1 PROVE FALSE
    <3>1. b * h >= b
      BY <2>2, <2>3
    <3> QED
      BY <2>2, <3>1
  <2>4. ASSUME h <= -1 PROVE FALSE
    <3>1. b * h <= -b
      BY <2>2, <2>4
    <3> QED
      BY <2>2, <3>1
  <2> QED
    BY <2>1, <2>2, <2>3, <2>4
<1>3. PICK S : S = {k \in 1 .. n : f[k] = P - (k - 1) * I}
  OBVIOUS
<1>4. 1 \in S
  <2>1. (1 - 1) * I = 0 /\ P - 0 = P /\ 1 \in 1 .. n
    OBVIOUS
  <2> QED
    BY <1>3, <2>1 DEF Repays
<1>5. ASSUME NEW k \in 2 .. n, k - 1 \in S PROVE k \in S
  <2>1. f[k - 1] = P - (k - 1 - 1) * I /\ k \in 1 .. n /\ k - 1 \in 1 .. n
    BY <1>3, <1>5
  <2>2. f[k - 1] \in Int
    BY <2>1 DEF Repays
  <2>3. f[k] = f[k - 1] - (I - 0)
    BY <1>1, <1>2, <2>2 DEF Repays
  <2>4. (k - 1) * I = (k - 1 - 1) * I + I
    OBVIOUS
  <2>5. f[k] = P - (k - 1) * I
    BY <2>1, <2>2, <2>3, <2>4
  <2> QED
    BY <1>3, <2>1, <2>5
<1>6. \A k \in 1 .. n : k \in S
  <2>1. 1 \in Nat /\ 1 + 1 = 2
    OBVIOUS
  <2> QED
    BY <1>4, <1>5, <2>1, UpTo
<1>7. f[n] = P - (n - 1) * I /\ f[n] \in Int
  BY <1>3, <1>6 DEF Repays
<1>8. 2 * (n * I) - 2 * P <= n /\ 2 * P - 2 * (n * I) < n
  <2>1. n > 0
    OBVIOUS
  <2> QED
    BY <2>1, HalfUpIs
<1>9. (n - 1) * I = n * I - I /\ n * I \in Int
  OBVIOUS
<1>10. f[n] + HalfUp(f[n] * 0, b) - I = P - n * I
  BY <1>1, <1>2, <1>7, <1>9
<1> QED
  BY <1>8, <1>9, <1>10

\* The parts of a date some months later.
LEMMA AddMonthsIs ==
    ASSUME NEW d, NEW i
    PROVE  /\ AddMonths(d, i)[1] = d[1] + (d[2] - 1 + i) \div 12
           /\ AddMonths(d, i)[2] = ((d[2] - 1 + i) % 12) + 1
           /\ AddMonths(d, i)[3] = Min({d[3], DaysIn(AddMonths(d, i)[1], AddMonths(d, i)[2])})
<1>1. AddMonths(d, i) = <<d[1] + (d[2] - 1 + i) \div 12, ((d[2] - 1 + i) % 12) + 1,
          Min({d[3], DaysIn(d[1] + (d[2] - 1 + i) \div 12, ((d[2] - 1 + i) % 12) + 1)})>>
  BY DEF AddMonths
<1> QED
  BY <1>1

\* It is as many months later, on the same day as far as the month has one.
LEMMA MonthsLater ==
    ASSUME NEW d \in Date, NEW i \in Nat
    PROVE  /\ 12 * AddMonths(d, i)[1] + AddMonths(d, i)[2] =
                12 * AddMonths(d, 0)[1] + AddMonths(d, 0)[2] + i
           /\ AddMonths(d, i)[3] =
                Min({AddMonths(d, 0)[3], DaysIn(AddMonths(d, i)[1], AddMonths(d, i)[2])})
<1>1. PICK y, m, day : y = d[1] /\ m = d[2] /\ day = d[3]
  OBVIOUS
<1>2. y \in Int /\ m \in 1 .. 12 /\ day \in 1 .. 31 /\ day <= DaysIn(y, m)
  BY <1>1 DEF Date
<1>3. (m - 1 + 0) \div 12 = 0 /\ (m - 1 + 0) % 12 = m - 1
  BY <1>2
<1>4. AddMonths(d, 0)[1] = y /\ AddMonths(d, 0)[2] = m
  <2>1. PICK z : z = 0
    OBVIOUS
  <2>2. (m - 1 + z) \div 12 = 0 /\ (m - 1 + z) % 12 = m - 1
    BY <1>3, <2>1
  <2>3. AddMonths(d, z)[1] = y + (m - 1 + z) \div 12 /\ AddMonths(d, z)[2] = ((m - 1 + z) % 12) + 1
    BY <1>1, AddMonthsIs
  <2>4. AddMonths(d, 0)[1] = y + 0 /\ AddMonths(d, 0)[2] = m - 1 + 1
    BY <2>1, <2>2, <2>3
  <2> QED
    BY <1>2, <2>4
<1>5. AddMonths(d, 0)[3] = day
  <2>1. PICK D : D = DaysIn(y, m)
    OBVIOUS
  <2>2. AddMonths(d, 0)[3] = Min({day, D})
    BY <1>1, <1>4, <2>1, AddMonthsIs
  <2>3. D \in Int
    BY <2>1 DEF DaysIn
  <2>4. Min({day, D}) = day
    <3>1. \A x \in {day, D} : (\A z \in {day, D} : x <= z) <=> x = day
      BY <1>2, <2>1, <2>3
    <3> QED
      BY <3>1 DEF Min
  <2> QED
    BY <2>2, <2>4
<1>6. PICK j, q, r : j = m - 1 + i /\ q = j \div 12 /\ r = j % 12
  OBVIOUS
<1>7. j \in Int /\ q \in Int /\ r \in Int /\ j = 12 * q + r
  BY <1>2, <1>6
<1>8. AddMonths(d, i)[1] = y + q /\ AddMonths(d, i)[2] = r + 1
  BY <1>1, <1>6, AddMonthsIs
<1>9. 12 * (y + q) + (r + 1) = 12 * y + m + i
  BY <1>2, <1>6, <1>7
<1> QED
  BY <1>1, <1>4, <1>5, <1>8, <1>9, AddMonthsIs

\* What an installment takes of the loan and asks for.
LEMMA InstallmentIs ==
    ASSUME NEW each, NEW rate, NEW term, NEW firstDue, NEW seq, NEW x
    PROVE  LET row == Installment(each, rate, term, firstDue, seq, x)
               interest == HalfUp(x * rate[1], rate[2])
           IN  /\ row.due = AddMonths(firstDue, seq - 1)
               /\ row.principal = (IF seq = term THEN x ELSE each - interest)
               /\ row.amount = (IF seq = term THEN x ELSE each - interest) + interest
  BY DEF Installment, Repaid, Times

\* The function of BuildSchedule exists, and is what the installments repay.
LEMMA RemainsRepays ==
    ASSUME NEW P \in Int, NEW each \in Int, NEW rate \in Nat \X (Nat \ {0}), NEW n \in Nat \ {0}, NEW d
    PROVE  /\ \E f : Remains(f, P, each, rate, n, d)
           /\ \A f : Remains(f, P, each, rate, n, d) => Repays(f, rate[1], rate[2], n, P, each)
<1>1. PICK a, b : a = rate[1] /\ b = rate[2]
  OBVIOUS
<1>2. a \in Nat /\ b \in Nat /\ b > 0 /\ n \in Nat /\ n >= 1
  BY <1>1
<1>3. \A x \in Int : HalfUp(x * a, b) \in Int
  <2>1. ASSUME NEW x \in Int PROVE HalfUp(x * a, b) \in Int
    <3>1. PICK y : y = x * a
      OBVIOUS
    <3>2. y \in Int
      BY <1>2, <3>1
    <3> QED
      BY <1>2, <3>1, <3>2, HalfUpIs
  <2> QED
    BY <2>1
<1>4. ASSUME NEW k \in 2 .. n, NEW x
      PROVE  Installment(each, rate, n, d, k - 1, x).principal = each - HalfUp(x * a, b)
  <2>1. k - 1 # n
    BY <1>2
  <2> QED
    BY <1>1, <2>1, InstallmentIs
<1>5. \E f : Remains(f, P, each, rate, n, d)
  <2>1. PICK step : step = [q \in (1 .. n) \X Int |-> q[2] - (each - HalfUp(q[2] * a, b))]
    OBVIOUS
  <2>2. PICK one : one = 1
    OBVIOUS
  <2>3. one \in Nat /\ one <= n
    BY <1>2, <2>2
  <2>4. PICK f : Steps(f, P, step, one, n)
    BY <1>2, <2>3, StepsExist
  <2>5. DOMAIN f = one .. n /\ f[one] = P /\ \A k \in one + 1 .. n : f[k] = step[<<k, f[k - 1]>>]
    BY <1>2, <2>3, <2>4, StepsAre
  <2>6. one + 1 = 2
    BY <2>2
  <2>7. ASSUME NEW k \in 2 .. n, f[k - 1] \in Int
        PROVE  f[k] = f[k - 1] - (each - HalfUp(f[k - 1] * a, b)) /\ f[k] \in Int
    <3>1. PICK x, q : x = f[k - 1] /\ q = <<k, f[k - 1]>>
      OBVIOUS
    <3>2. q \in (1 .. n) \X Int /\ q[2] = x /\ x \in Int
      BY <2>7, <3>1
    <3>3. f[k] = x - (each - HalfUp(x * a, b))
      BY <2>1, <2>5, <2>6, <3>1, <3>2
    <3> QED
      BY <1>3, <3>1, <3>2, <3>3
  <2>8. \A k \in one .. n : f[k] \in Int
    <3>1. f[one] \in Int
      BY <2>5
    <3>2. \A k \in one + 1 .. n : f[k - 1] \in Int => f[k] \in Int
      BY <2>6, <2>7
    <3> QED
      BY <1>2, <2>3, <3>1, <3>2, StepsTyped
  <2>9. \A k \in 1 .. n : f[k] = IF k = 1 THEN P
                          ELSE f[k - 1] - Installment(each, rate, n, d, k - 1, f[k - 1]).principal
    <3>1. ASSUME NEW k \in 2 .. n
          PROVE  f[k] = f[k - 1] - Installment(each, rate, n, d, k - 1, f[k - 1]).principal
      <4>1. k - 1 \in 1 .. n
        BY <1>2
      <4>2. f[k - 1] \in Int
        BY <2>2, <2>8, <4>1
      <4> QED
        BY <1>4, <2>7, <4>2
    <3>2. \A k \in 1 .. n : k = 1 \/ k \in 2 .. n
      BY <1>2
    <3> QED
      BY <2>2, <2>5, <3>1, <3>2
  <2>10. f = [k \in 1 .. n |-> f[k]]
    BY <2>2, <2>4, <2>5 DEF Steps
  <2>11. f = [seq \in 1 .. n |-> IF seq = 1 THEN P
                ELSE f[seq - 1] - Installment(each, rate, n, d, seq - 1, f[seq - 1]).principal]
    BY <2>9, <2>10
  <2>12. Remains(f, P, each, rate, n, d)
    BY <2>11 DEF Remains
  <2> QED
    BY <2>12
<1>6. ASSUME NEW f, Remains(f, P, each, rate, n, d) PROVE Repays(f, a, b, n, P, each)
  <2>1. \A k \in 1 .. n : f[k] = IF k = 1 THEN P
                          ELSE f[k - 1] - Installment(each, rate, n, d, k - 1, f[k - 1]).principal
    BY <1>6 DEF Remains
  <2>2. \A k \in 2 .. n : k \in 1 .. n /\ k # 1
    OBVIOUS
  <2>3. \A k \in 2 .. n : f[k] = f[k - 1] - (each - HalfUp(f[k - 1] * a, b))
    BY <1>4, <2>1, <2>2
  <2>4. 1 \in 1 .. n
    BY <1>2
  <2>5. f[1] = P
    BY <2>1, <2>4
  <2>6. \A k \in 1 .. n : f[k] \in Int
    <3>1. PICK one : one = 1
      OBVIOUS
    <3>2. one \in Nat /\ one <= n /\ f[one] \in Int /\ one + 1 = 2
      BY <1>2, <2>5, <3>1
    <3>3. ASSUME NEW k \in 2 .. n, f[k - 1] \in Int PROVE f[k] \in Int
      BY <1>3, <2>3, <3>3
    <3>4. \A k \in one + 1 .. n : f[k - 1] \in Int => f[k] \in Int
      BY <3>2, <3>3
    <3> QED
      BY <1>2, <3>1, <3>2, <3>4, StepsTyped
  <2> QED
    BY <2>3, <2>5, <2>6 DEF Repays
<1> QED
  BY <1>1, <1>5, <1>6

\* The installment that is quoted pays at least the interest of the whole.
LEMMA EachIs ==
    ASSUME NEW P \in Nat, NEW rate \in Nat \X (Nat \ {0}), NEW n \in Nat \ {0}, NEW I, NEW u, NEW v,
           I = AmortizedInstallment(P, rate, n), Grows(u, v, rate[1], rate[2], n),
           Power(rate[1] + rate[2], n) = u[n], Power(rate[2], n) = v[n],
           rate[1] > 0 => u[n] > v[n]
    PROVE  /\ I = IF rate[1] = 0 THEN HalfUp(P, n)
                  ELSE HalfUp(P * rate[1] * u[n], rate[2] * (u[n] - v[n]))
           /\ I \in Int
           /\ HalfUp(P * rate[1], rate[2]) <= I
<1>1. PICK a, b : a = rate[1] /\ b = rate[2]
  OBVIOUS
<1>2. a \in Nat /\ b \in Nat /\ b > 0 /\ n \in Nat /\ n > 0 /\ n \in 0 .. n
  BY <1>1
<1>3. PICK G, B : G = u[n] /\ B = v[n]
  OBVIOUS
<1>4. G \in Int /\ B \in Int /\ G >= B /\ B >= 1
  BY <1>2, <1>3 DEF Grows
<1>5. I = IF a = 0 THEN HalfUp(P, n) ELSE HalfUp(P * a * G, b * (G - B))
  BY <1>1, <1>3 DEF AmortizedInstallment
<1>6. P * a \in Int
  BY <1>2
<1>7. CASE a = 0
  <2>1. P * a = 0
    BY <1>7
  <2>2. P * a * n <= P * b
    <3>1. P * a * n = 0 /\ P * b >= 0
      BY <1>2, <2>1
    <3> QED
      BY <3>1
  <2>3. PICK y : y = P * a
    OBVIOUS
  <2>4. HalfUp(y, b) <= HalfUp(P, n)
    BY <1>2, <1>6, <2>2, <2>3, HalfUpMonotone
  <2>5. HalfUp(P, n) \in Int
    BY <1>2, HalfUpIs
  <2> QED
    BY <1>1, <1>3, <1>5, <1>7, <2>3, <2>4, <2>5
<1>8. CASE a # 0
  <2>1. PICK y, z, e : y = P * a /\ z = P * a * G /\ e = b * (G - B)
    OBVIOUS
  <2>2. G > B
    BY <1>1, <1>2, <1>3, <1>8
  <2>3. y \in Nat /\ z \in Int
    BY <1>2, <1>4, <2>1
  <2>4. e \in Nat /\ e > 0
    <3>1. PICK g : g = G - B
      OBVIOUS
    <3>2. g \in Nat /\ g > 0
      BY <1>4, <2>2, <3>1
    <3>3. b * g \in Nat /\ b * g > 0
      BY <1>2, <3>2
    <3> QED
      BY <2>1, <3>1, <3>3
  <2>5. y * e <= z * b
    <3>1. y * e = (y * b) * (G - B) /\ z * b = (y * b) * G
      BY <1>2, <1>4, <2>1, <2>3
    <3>2. y * b \in Nat
      BY <1>2, <2>3
    <3>3. (y * b) * (G - B) = (y * b) * G - (y * b) * B /\ (y * b) * B >= 0 /\ (y * b) * B \in Int
          /\ (y * b) * G \in Int
      BY <1>4, <3>2
    <3> QED
      BY <3>1, <3>3
  <2>6. HalfUp(y, b) <= HalfUp(z, e)
    BY <1>2, <2>3, <2>4, <2>5, HalfUpMonotone
  <2>7. HalfUp(z, e) \in Int
    BY <2>3, <2>4, HalfUpIs
  <2> QED
    BY <1>1, <1>3, <1>5, <1>8, <2>1, <2>6, <2>7
<1> QED
  BY <1>7, <1>8

\* The schedule s of installments I pays off P.
PaysOff(P, rate, n, s, I) ==
    /\ Sigma([i \in 1 .. n |-> s[i].principal], 1 .. n) = P
    /\ \A i \in 1 .. n - 1 : s[i].principal >= 0 /\ s[i].amount = I
    /\ WithinRounding(s[n].amount - I, rate, n)
    /\ \A i \in 1 .. n :
          /\ 12 * s[i].due[1] + s[i].due[2] = 12 * s[1].due[1] + s[1].due[2] + i - 1
          /\ s[i].due[3] = Min({s[1].due[3], DaysIn(s[i].due[1], s[i].due[2])})

\* A schedule pays off its loan, and no installment but the last is another than quoted.
LEMMA SchedulePays ==
    ASSUME NEW P \in Nat, NEW rate \in Nat \X (Nat \ {0}), NEW n \in Nat \ {0}, NEW d \in Date,
           NEW s, s = BuildSchedule(P, rate, n, d), NEW I, I = AmortizedInstallment(P, rate, n)
    PROVE  PaysOff(P, rate, n, s, I)
<1>1. PICK a, b : a = rate[1] /\ b = rate[2]
  OBVIOUS
<1>2. a \in Nat /\ b \in Nat /\ b > 0 /\ n \in Nat /\ n >= 1 /\ P \in Int
  BY <1>1
<1>3. PICK u, v : /\ Grows(u, v, a, b, n) /\ Power(a + b, n) = u[n] /\ Power(b, n) = v[n]
                  /\ (a > 0 /\ n > 0) => u[n] > v[n]
  BY <1>2, Grown
<1>4. Grows(u, v, a, b, n)
  BY <1>3
<1>5. a > 0 => u[n] > v[n]
  BY <1>2, <1>3
<1>6. /\ I = IF a = 0 THEN HalfUp(P, n) ELSE HalfUp(P * a * u[n], b * (u[n] - v[n]))
      /\ I \in Int /\ HalfUp(P * a, b) <= I
  BY <1>1, <1>3, <1>4, <1>5, EachIs
<1>7. PICK f : f = CHOOSE g : Remains(g, P, I, rate, n, d)
  OBVIOUS
<1>8. Repays(f, a, b, n, P, I)
  <2>1. /\ \E g : Remains(g, P, I, rate, n, d)
        /\ \A g : Remains(g, P, I, rate, n, d) => Repays(g, rate[1], rate[2], n, P, I)
    BY <1>2, <1>6, RemainsRepays
  <2> QED
    BY <1>1, <1>7, <2>1
<1>9. s = [seq \in 1 .. n |-> Installment(I, rate, n, d, seq, f[seq])]
  BY <1>7, ScheduleOfRemains
<1>10. ASSUME NEW k \in 1 .. n
       PROVE  /\ s[k].due = AddMonths(d, k - 1)
              /\ s[k].principal = (IF k = n THEN f[k] ELSE I - HalfUp(f[k] * a, b))
              /\ s[k].amount = (IF k = n THEN f[k] ELSE I - HalfUp(f[k] * a, b)) + HalfUp(f[k] * a, b)
  <2>1. s[k] = Installment(I, rate, n, d, k, f[k])
    BY <1>9
  <2> QED
    BY <1>1, <2>1, InstallmentIs
<1>11. ASSUME NEW k \in 1 .. n PROVE f[k] \in Int /\ HalfUp(f[k] * a, b) \in Int
  <2>1. f[k] \in Int
    BY <1>8 DEF Repays
  <2>2. PICK y : y = f[k] * a
    OBVIOUS
  <2>3. y \in Int
    BY <1>2, <2>1, <2>2
  <2> QED
    BY <1>2, <2>1, <2>2, <2>3, HalfUpIs
<1>12. Sigma([i \in 1 .. n |-> s[i].principal], 1 .. n) = P
  <2>1. PICK g : g = [i \in 1 .. n |-> s[i].principal]
    OBVIOUS
  <2>2. n \in 1 .. n /\ \A k \in 1 .. n - 1 : k \in 1 .. n /\ k # n
    BY <1>2
  <2>3. g[n] = f[n]
    BY <1>10, <2>1, <2>2
  <2>4. \A k \in 1 .. n - 1 : g[k] = I - HalfUp(f[k] * a, b)
    BY <1>10, <2>1, <2>2
  <2>5. Sigma(g, 1 .. n) = P
    BY <1>2, <1>6, <1>8, <2>3, <2>4, PaysAll
  <2> QED
    BY <2>1, <2>5
<1>13. ASSUME NEW k \in 1 .. n - 1 PROVE s[k].principal >= 0 /\ s[k].amount = I
  <2>1. k \in 1 .. n /\ k # n
    BY <1>2
  <2>2. I - HalfUp(f[k] * a, b) >= 0
    BY <1>2, <1>6, <1>8, <2>1, NoneAdds
  <2>3. PICK h : h = HalfUp(f[k] * a, b)
    OBVIOUS
  <2>4. h \in Int /\ I - h >= 0
    BY <1>11, <2>1, <2>2, <2>3
  <2>5. s[k].principal = I - h /\ s[k].amount = I - h + h
    BY <1>10, <2>1, <2>3
  <2> QED
    BY <1>6, <2>4, <2>5
<1>14. WithinRounding(s[n].amount - I, rate, n)
  <2>1. n \in 1 .. n
    BY <1>2
  <2>2. s[n].amount = f[n] + HalfUp(f[n] * a, b)
    BY <1>10, <2>1
  <2>3. CASE a = 0
    <3>1. I = HalfUp(P, n)
      BY <1>6, <2>3
    <3>9. PICK amount : amount = s[n].amount
      OBVIOUS
    <3>2. Repays(f, 0, b, n, P, I)
      BY <1>8, <2>3
    <3>3. f[n] + HalfUp(f[n] * 0, b) - I \in -n .. n
      BY <1>2, <1>6, <3>1, <3>2, LastOfNoInterest
    <3>4. amount = f[n] + HalfUp(f[n] * 0, b)
      BY <2>2, <2>3, <3>9
    <3>5. PICK x, h : x = f[n] /\ h = HalfUp(f[n] * 0, b)
      OBVIOUS
    <3>6. x \in Int /\ h \in Int
      BY <1>11, <2>1, <2>3, <3>5
    <3>7. amount = x + h /\ x + h - I \in -n .. n
      BY <3>3, <3>4, <3>5
    <3>8. amount - I \in -n .. n
      BY <1>2, <1>6, <3>6, <3>7
    <3> QED
      BY <1>1, <2>3, <3>9, <3>8 DEF WithinRounding
  <2>4. CASE a # 0
    <3>1. a > 0 /\ u[n] > v[n] /\ I = HalfUp(P * a * u[n], b * (u[n] - v[n]))
      BY <1>2, <1>5, <1>6, <2>4
    <3>2. (f[n] + HalfUp(f[n] * a, b) - I) * a * v[n] \in -(b * (u[n] - v[n])) .. b * (u[n] - v[n])
      BY <1>2, <1>4, <1>6, <1>8, <3>1, LastNearly
    <3>3. PICK amount, difference : amount = s[n].amount /\ difference = amount - I
      OBVIOUS
    <3>4. amount = f[n] + HalfUp(f[n] * a, b)
      BY <2>2, <3>3
    <3>5. PICK x, h : x = f[n] /\ h = HalfUp(f[n] * a, b)
      OBVIOUS
    <3>7. x \in Int /\ h \in Int
      BY <1>11, <2>1, <3>5
    <3>8. amount = x + h /\ (x + h - I) * a * v[n] \in -(b * (u[n] - v[n])) .. b * (u[n] - v[n])
      BY <3>2, <3>4, <3>5
    <3>9. difference = x + h - I
      BY <1>6, <3>3, <3>7, <3>8
    <3>10. difference * a * v[n] \in -(b * (u[n] - v[n])) .. b * (u[n] - v[n])
      BY <3>8, <3>9
    <3>6. WithinRounding(difference, rate, n)
      BY <1>1, <1>3, <2>4, <3>10 DEF WithinRounding
    <3> QED
      BY <3>3, <3>6
  <2> QED
    BY <2>3, <2>4
<1>15. ASSUME NEW i \in 1 .. n
       PROVE  /\ 12 * s[i].due[1] + s[i].due[2] = 12 * s[1].due[1] + s[1].due[2] + i - 1
              /\ s[i].due[3] = Min({s[1].due[3], DaysIn(s[i].due[1], s[i].due[2])})
  <2>1. 1 \in 1 .. n /\ 1 - 1 = 0
    BY <1>2
  <2>2. s[1].due = AddMonths(d, 0)
    BY <1>10, <2>1
  <2>3. PICK j : j = i - 1
    OBVIOUS
  <2>4. s[i].due = AddMonths(d, j) /\ j \in Nat
    BY <1>2, <1>10, <2>3
  <2>5. /\ 12 * s[i].due[1] + s[i].due[2] = 12 * s[1].due[1] + s[1].due[2] + j
        /\ s[i].due[3] = Min({s[1].due[3], DaysIn(s[i].due[1], s[i].due[2])})
    BY <2>2, <2>4, MonthsLater
  <2>6. s[1].due[1] \in Int /\ s[1].due[2] \in Int
    <3>1. d[1] \in Int /\ d[2] \in Int /\ 12 > 0
      BY DEF Date
    <3>2. PICK z : z = 0
      OBVIOUS
    <3>3. d[1] + (d[2] - 1 + z) \div 12 \in Int /\ ((d[2] - 1 + z) % 12) + 1 \in Int
      BY <3>1, <3>2
    <3>4. s[1].due = AddMonths(d, z)
      BY <2>2, <3>2
    <3>5. /\ AddMonths(d, z)[1] = d[1] + (d[2] - 1 + z) \div 12
          /\ AddMonths(d, z)[2] = ((d[2] - 1 + z) % 12) + 1
      BY AddMonthsIs
    <3> QED
      BY <3>3, <3>4, <3>5
  <2>7. 12 * s[1].due[1] + s[1].due[2] + j = 12 * s[1].due[1] + s[1].due[2] + i - 1
    BY <2>3, <2>6
  <2> QED
    BY <2>5, <2>7
<1> QED
  BY <1>12, <1>13, <1>14, <1>15 DEF PaysOff

\* A fraction of a natural is not below zero.
LEMMA HalfUpOfNat ==
    ASSUME NEW x \in Nat, NEW d \in Nat, d > 0
    PROVE  HalfUp(x, d) \in Nat
<1>1. PICK h : h = HalfUp(x, d)
  OBVIOUS
<1>2. h \in Int /\ 2 * x - 2 * (d * h) < d
  BY <1>1, HalfUpIs
<1>3. ASSUME h <= -1 PROVE FALSE
  <2>1. d * h <= -d /\ d * h \in Int
    BY <1>2, <1>3
  <2> QED
    BY <1>2, <2>1
<1> QED
  BY <1>1, <1>2, <1>3

\* The parts of an offer.
LEMMA OfferIs ==
    ASSUME NEW amount, NEW product, NEW term, NEW today, NEW caps
    PROVE  LET offer == Offer(amount, product, term, today, caps)
           IN  /\ offer.amount = amount /\ offer.caps = caps
               /\ offer.schedule = BuildSchedule(amount, product.rate, term, today)
               /\ offer.installment = AmortizedInstallment(amount, product.rate, term)
  BY DEF Offer

\* A quote that is not refused offers the least of what is asked for and three caps, and
\* a visitor is offered the least of it and two of them.
LEMMA QuoteIs ==
    ASSUME NEW use \in LoanRequest, NEW limit \in Nat, NEW offer,
           offer = Quote(use.product, limit, use.amount, use.collateral, use.term, use.today),
           offer # Refused
    PROVE  /\ limit > 0 /\ offer.amount \in Nat /\ offer.amount <= limit
           /\ offer.schedule = BuildSchedule(offer.amount, use.product.rate, use.term, use.today)
           /\ offer.installment = AmortizedInstallment(offer.amount, use.product.rate, use.term)
           /\ PublicLoanQuote(use.product, use.amount, use.collateral, use.term, use.today).amount
                >= offer.amount
           /\ offer.caps = {} <=> offer.amount = use.amount
<1>1. PICK product, amount, worth, term, today :
        /\ product = use.product /\ amount = use.amount /\ term = use.term /\ today = use.today
        /\ worth = Times(use.collateral, Ltv[product.kind])
  OBVIOUS
<1>2. /\ product \in LoanProduct /\ amount \in Nat \ {0} /\ use.collateral \in Nat
      /\ term \in Nat \ {0} /\ today \in Date
  BY <1>1 DEF LoanRequest
<1>3. product.maxPrincipal \in Nat /\ product.kind \in DOMAIN Ltv
  BY <1>2 DEF LoanProduct
<1>4. worth \in Nat
  <2>1. PICK f : f = Ltv[product.kind]
    OBVIOUS
  <2>2. f \in Nat \X (Nat \ {0})
    BY <1>3, <2>1, QuotesAssumption
  <2>3. PICK x, d : x = use.collateral * f[1] /\ d = f[2]
    OBVIOUS
  <2>4. x \in Nat /\ d \in Nat /\ d > 0
    BY <1>2, <2>2, <2>3
  <2>5. worth = HalfUp(x, d)
    BY <1>1, <2>1, <2>3 DEF Times
  <2> QED
    BY <2>4, <2>5, HalfUpOfNat
<1>5. PICK cap : cap = [credit |-> limit, product |-> product.maxPrincipal, collateral |-> worth]
  OBVIOUS
<1>6. /\ DOMAIN cap = {"credit", "product", "collateral"}
      /\ cap["credit"] = limit /\ cap["product"] = product.maxPrincipal /\ cap["collateral"] = worth
  BY <1>5
<1>7. PICK S : S = {amount} \cup {cap[c] : c \in DOMAIN cap}
  OBVIOUS
<1>8. S = {amount, limit, product.maxPrincipal, worth}
  BY <1>6, <1>7
<1>9. PICK least : least = Min(S)
  OBVIOUS
<1>10. least \in S /\ least \in Nat /\ \A y \in S : least <= y
  <2>1. S \in SUBSET Nat /\ S # {}
    BY <1>2, <1>3, <1>4, <1>8
  <2> QED
    BY <1>9, <2>1, MinOfNat
<1>11. PICK caps : caps = IF least = amount THEN {} ELSE {c \in DOMAIN cap : cap[c] = least}
  OBVIOUS
<1>12. offer = IF term \notin product.minTerm .. product.maxTerm \/ limit <= 0 THEN Refused
               ELSE Offer(least, product, term, today, caps)
  BY <1>1, <1>5, <1>7, <1>9, <1>11 DEF Quote
<1>13. term \in product.minTerm .. product.maxTerm /\ limit > 0 /\ offer = Offer(least, product, term, today, caps)
  BY <1>12
<1>14. /\ offer.amount = least /\ offer.caps = caps
       /\ offer.schedule = BuildSchedule(least, product.rate, term, today)
       /\ offer.installment = AmortizedInstallment(least, product.rate, term)
  BY <1>13, OfferIs
<1>15. caps = {} <=> least = amount
  <2>1. CASE least = amount
    BY <1>11, <2>1
  <2>2. CASE least # amount
    <3>1. \E c \in DOMAIN cap : cap[c] = least
      BY <1>7, <1>10, <2>2
    <3> QED
      BY <1>11, <2>2, <3>1
  <2> QED
    BY <2>1, <2>2
<1>16. PublicLoanQuote(use.product, use.amount, use.collateral, use.term, use.today).amount >= least
  <2>1. PICK V, m : V = {amount, product.maxPrincipal, worth} /\ m = Min(V)
    OBVIOUS
  <2>2. V \in SUBSET Nat /\ V # {} /\ V \subseteq S
    BY <1>2, <1>3, <1>4, <1>8, <2>1
  <2>3. m \in V
    BY <2>1, <2>2, MinOfNat
  <2>4. PICK offered : offered = PublicLoanQuote(use.product, use.amount, use.collateral, use.term, use.today)
    OBVIOUS
  <2>5. offered = Offer(m, product, term, today, {})
    BY <1>1, <1>13, <2>1, <2>4 DEF PublicLoanQuote
  <2>6. offered.amount = m
    BY <2>5, OfferIs
  <2>7. m \in Nat /\ least <= m
    BY <1>10, <2>2, <2>3
  <2> QED
    BY <1>10, <2>4, <2>6, <2>7
<1> QED
  BY <1>1, <1>8, <1>10, <1>13, <1>14, <1>15, <1>16

\* A credit limit that a streak of days and the payments made earn.
Earned(streak, limit) ==
    /\ streak >= StreakRequired
    /\ \E tier \in Range(Tiers) : OnTimePayments >= tier.payments /\ tier.limit = limit

\* A credit limit is that of a tier the shop has earned, or none.
LEMMA TierLimit ==
    ASSUME NEW streak, NEW limit, limit = ResolveTier(streak, OnTimePayments).limit,
           streak \in Nat
    PROVE  limit \in Nat /\ (limit > 0 => Earned(streak, limit))
<1>1. IsFiniteSet(DOMAIN Tiers) /\ 1 \in DOMAIN Tiers /\ DOMAIN Tiers \in SUBSET Nat
  <2>1. DOMAIN Tiers = 1 .. Len(Tiers) /\ Len(Tiers) \in Nat /\ Len(Tiers) >= 1
    BY DaysAssumption
  <2>2. IsFiniteSet(1 .. Len(Tiers))
    BY <2>1, FS_Interval
  <2> QED
    BY <2>1, <2>2
<1>2. \A k \in DOMAIN Tiers : Tiers[k].limit \in Nat /\ Tiers[k].payments \in Nat
  <2>1. \A k \in DOMAIN Tiers : Tiers[k] \in Tier
    BY DaysAssumption
  <2> QED
    BY <2>1 DEF Tier
<1>3. OnTimePayments \in Nat
  <2>1. PICK T : T = {p \in PaidInstallments : LocalDay(p.paidAt) <= p.due + Grace}
    OBVIOUS
  <2>2. IsFiniteSet(T)
    BY <2>1, DaysAssumption, FS_Subset
  <2> QED
    BY <2>1, <2>2, FS_CardinalityType DEF OnTimePayments
<1>4. PICK K, k : K = {j \in DOMAIN Tiers : OnTimePayments >= Tiers[j].payments} /\ k = Max(K)
  OBVIOUS
<1>5. k \in K
  <2>1. K \in SUBSET (DOMAIN Tiers) /\ 1 \in K
    BY <1>1, <1>3, <1>4, DaysAssumption
  <2>2. IsFiniteSet(K) /\ K \in SUBSET Nat /\ K # {}
    BY <1>1, <2>1, FS_Subset
  <2> QED
    BY <1>4, <2>1, <2>2, MaxOfFinite
<1>6. PICK tier : tier = Tiers[k]
  OBVIOUS
<1>7. tier \in Range(Tiers) /\ OnTimePayments >= tier.payments /\ tier.limit \in Nat
  BY <1>2, <1>4, <1>5, <1>6 DEF Range
<1>8. CASE streak < StreakRequired
  BY <1>8 DEF ResolveTier
<1>9. CASE ~(streak < StreakRequired)
  <2>1. limit = tier.limit
    BY <1>4, <1>6, <1>9, ZenonT(30) DEF ResolveTier
  <2>2. streak >= StreakRequired
    BY <1>9, DaysAssumption
  <2> QED
    BY <1>7, <2>1, <2>2 DEF Earned
<1> QED
  BY <1>8, <1>9

\* What a request for a quote keeps to: what it asks for, and an answer to that within
\* the limit that the profile it has read earns.
QuoteOK(w) ==
    /\ tx[w].step = "profile" =>
         /\ tx[w].use \in Covers \cup LoanRequests
         /\ \E points : tx[w].seen = {points} /\ Len(points) = Month
    /\ tx[w].step = "quoted" =>
         /\ tx[w].use \in LoanRequests
         /\ \E profile \in tx[w].seen : \E limit \in Nat :
              /\ limit > 0 => Earned(profile.streak, limit)
              /\ tx[w].answer = Quote(tx[w].use.product, limit, tx[w].use.amount,
                                      tx[w].use.collateral, tx[w].use.term, tx[w].use.today)

QuotesInv == IInv /\ \A w \in Handlers : QuoteOK(w)

\* An answer that keeps to it pays off.
LEMMA PaysFromInv == QuotesInv => SchedulePaysOff
<1> SUFFICES ASSUME QuotesInv PROVE SchedulePaysOff
  OBVIOUS
<1>1. ASSUME NEW w \in Quoted
      PROVE
        LET use == tx[w].use
            offer == tx[w].answer
            s == offer.schedule
            n == use.term
            visitor == PublicLoanQuote(use.product, use.amount, use.collateral, n, use.today)
        IN  /\ Sigma([i \in 1 .. n |-> s[i].principal], 1 .. n) = offer.amount
            /\ \A i \in 1 .. n - 1 : s[i].principal >= 0 /\ s[i].amount = offer.installment
            /\ WithinRounding(s[n].amount - offer.installment, use.product.rate, n)
            /\ \A i \in 1 .. n :
                 /\ 12 * s[i].due[1] + s[i].due[2] = 12 * s[1].due[1] + s[1].due[2] + i - 1
                 /\ s[i].due[3] = Min({s[1].due[3], DaysIn(s[i].due[1], s[i].due[2])})
            /\ \E profile \in tx[w].seen, tier \in Range(Tiers) :
                 /\ profile.streak >= StreakRequired
                 /\ OnTimePayments >= tier.payments /\ offer.amount <= tier.limit
            /\ visitor.amount >= offer.amount
            /\ offer.caps = {} <=> offer.amount = use.amount
  <2>1. PICK use, offer : use = tx[w].use /\ offer = tx[w].answer
    OBVIOUS
  <2>2. w \in Handlers /\ tx[w].step = "quoted" /\ offer # Refused
    BY <1>1, <2>1 DEF Quoted, At
  <2>3. QuoteOK(w)
    BY <2>2 DEF QuotesInv
  <2>5. use \in LoanRequests
    BY <2>1, <2>2, <2>3 DEF QuoteOK
  <2>6. PICK profile \in tx[w].seen, limit \in Nat :
          /\ limit > 0 => Earned(profile.streak, limit)
          /\ offer = Quote(use.product, limit, use.amount, use.collateral, use.term, use.today)
    BY <2>1, <2>2, <2>3 DEF QuoteOK
  <2>7. use \in LoanRequest
    BY <2>5, DaysAssumption
  <2>8. /\ limit > 0 /\ offer.amount \in Nat /\ offer.amount <= limit
        /\ offer.schedule = BuildSchedule(offer.amount, use.product.rate, use.term, use.today)
        /\ offer.installment = AmortizedInstallment(offer.amount, use.product.rate, use.term)
        /\ PublicLoanQuote(use.product, use.amount, use.collateral, use.term, use.today).amount
             >= offer.amount
        /\ offer.caps = {} <=> offer.amount = use.amount
    BY <2>2, <2>6, <2>7, QuoteIs
  <2>9. PICK P, rate, n, d, s, I :
          /\ P = offer.amount /\ rate = use.product.rate /\ n = use.term /\ d = use.today
          /\ s = offer.schedule /\ I = offer.installment
    OBVIOUS
  <2>10. P \in Nat /\ rate \in Nat \X (Nat \ {0}) /\ n \in Nat \ {0} /\ d \in Date
    BY <2>7, <2>8, <2>9 DEF LoanRequest, LoanProduct
  <2>11. s = BuildSchedule(P, rate, n, d) /\ I = AmortizedInstallment(P, rate, n)
    BY <2>8, <2>9
  <2>12. PaysOff(P, rate, n, s, I)
    BY <2>10, <2>11, SchedulePays
  <2>13. profile.streak >= StreakRequired
    BY <2>6, <2>8 DEF Earned
  <2>14. PICK tier \in Range(Tiers) : OnTimePayments >= tier.payments /\ tier.limit = limit
    BY <2>6, <2>8 DEF Earned
  <2>15. offer.amount <= tier.limit
    BY <2>8, <2>14
  <2>16. \E known \in tx[w].seen, one \in Range(Tiers) :
           /\ known.streak >= StreakRequired
           /\ OnTimePayments >= one.payments /\ offer.amount <= one.limit
    BY <2>6, <2>13, <2>14, <2>15
  <2> QED
    BY <2>1, <2>8, <2>9, <2>12, <2>16, ZenonT(30) DEF PaysOff
<1> QED
  BY <1>1, ZenonT(40) DEF SchedulePaysOff
-----------------------------------------------------------------------------
\* Answers to requests for a loan keep to what was asked.

\* A request that is about no quote disturbs none.
LEMMA OtherStep ==
    ASSUME QuotesInv, NEW w \in Handlers, NEW r, Becomes(w, r), r.step \notin {"profile", "quoted"}
    PROVE  \A v \in Handlers : QuoteOK(v)'
<1>1. tx'[w] = r /\ \A v \in Handlers \ {w} : tx'[v] = tx[v]
  BY BecomesOne DEF QuotesInv, IInv
<1>2. QuoteOK(w)'
  BY <1>1 DEF QuoteOK
<1>3. ASSUME NEW v \in Handlers \ {w} PROVE QuoteOK(v)'
  <2>1. PICK t : t = tx[v]
    OBVIOUS
  <2>2. QuoteOK(v) /\ tx'[v] = t
    BY <1>1, <2>1 DEF QuotesInv
  <2> QED
    BY <2>1, <2>2 DEF QuoteOK
<1> QED
  BY <1>2, <1>3

\* A step that makes a request one about a quote disturbs no other.
LEMMA QuoteStep ==
    ASSUME QuotesInv, NEW w \in Handlers, NEW r, Becomes(w, r), QuoteOK(w)'
    PROVE  \A v \in Handlers : QuoteOK(v)'
<1>1. \A v \in Handlers \ {w} : tx'[v] = tx[v]
  BY BecomesOne DEF QuotesInv, IInv
<1>2. ASSUME NEW v \in Handlers \ {w} PROVE QuoteOK(v)'
  <2>1. PICK t : t = tx[v]
    OBVIOUS
  <2>2. QuoteOK(v) /\ tx'[v] = t
    BY <1>1, <2>1 DEF QuotesInv
  <2> QED
    BY <2>1, <2>2 DEF QuoteOK
<1> QED
  BY <1>2

\* The requests that arrive for something else.
LEMMA OtherArrival ==
    ASSUME NEW w \in Handlers, CloseDay(w) \/ ReopenDay(w) \/ BuyFlat(w) \/ ReadClaims(w)
    PROVE  \E r : Becomes(w, r) /\ r.step \in {"day", "reopen", "buy", "claim"}
<1>1. CASE CloseDay(w)
  <2>1. PICK d, reason, seen : Becomes(w, [Begun("day") EXCEPT !.day = d, !.reason = reason, !.seen = seen])
    BY <1>1 DEF CloseDay
  <2>2. PICK b, r : b = Begun("day") /\ r = [b EXCEPT !.day = d, !.reason = reason, !.seen = seen]
    OBVIOUS
  <2>3. b.step = "day" /\ r.step = b.step
    BY <2>2, BegunRequest
  <2> QED
    BY <2>1, <2>2, <2>3
<1>2. CASE ReopenDay(w)
  <2>1. PICK d, seen : Becomes(w, [Begun("reopen") EXCEPT !.day = d, !.seen = seen])
    BY <1>2 DEF ReopenDay
  <2>2. PICK b, r : b = Begun("reopen") /\ r = [b EXCEPT !.day = d, !.seen = seen]
    OBVIOUS
  <2>3. b.step = "reopen" /\ r.step = b.step
    BY <2>2, BegunRequest
  <2> QED
    BY <2>1, <2>2, <2>3
<1>3. CASE BuyFlat(w)
  <2>1. PICK cover : Becomes(w, [Begun("buy") EXCEPT !.use = cover])
    BY <1>3 DEF BuyFlat
  <2>2. PICK b, r : b = Begun("buy") /\ r = [b EXCEPT !.use = cover]
    OBVIOUS
  <2>3. b.step = "buy" /\ r.step = b.step
    BY <2>2, BegunRequest
  <2> QED
    BY <2>1, <2>2, <2>3
<1>4. CASE ReadClaims(w)
  <2>1. PICK id, first, last, seen :
          Becomes(w, [Begun("claim") EXCEPT !.policy = id, !.first = first, !.last = last, !.seen = seen])
    BY <1>4 DEF ReadClaims
  <2>2. PICK b, r : /\ b = Begun("claim")
                    /\ r = [b EXCEPT !.policy = id, !.first = first, !.last = last, !.seen = seen]
    OBVIOUS
  <2>3. b.step = "claim" /\ r.step = b.step
    BY <2>2, BegunRequest
  <2> QED
    BY <2>1, <2>2, <2>3
<1> QED
  BY <1>1, <1>2, <1>3, <1>4

\* A request for a profile arrives.
LEMMA ReadSalesQuotes ==
    ASSUME QuotesInv, NEW w \in Handlers, ReadSales(w) PROVE \A v \in Handlers : QuoteOK(v)'
<1>1. PICK use, points :
        /\ use \in Covers \cup LoanRequests /\ points = SeriesPoints(Month)
        /\ Becomes(w, [Begun("profile") EXCEPT !.use = use, !.seen = {points}])
  BY DEF ReadSales
<1>2. PICK b, r : b = Begun("profile") /\ r = [b EXCEPT !.use = use, !.seen = {points}]
  OBVIOUS
<1>3. r.step = "profile" /\ r.use = use /\ r.seen = {points}
  BY <1>2, BegunRequest, IdleRequest
<1>4. Becomes(w, r)
  BY <1>1, <1>2
<1>5. tx'[w] = r
  BY <1>4, BecomesOne DEF QuotesInv, IInv
<1>6. Len(points) = Month
  <2>1. Month \in Nat
    BY ReportsAssumption
  <2> QED
    BY <1>1, <2>1 DEF SeriesPoints
<1>7. QuoteOK(w)'
  BY <1>1, <1>3, <1>5, <1>6 DEF QuoteOK
<1> QED
  BY <1>4, <1>7, QuoteStep

\* A quote reads the closes, and is answered.
LEMMA ReadClosesQuotes ==
    ASSUME QuotesInv, NEW w \in Handlers, ReadCloses(w) PROVE \A v \in Handlers : QuoteOK(v)'
<1>1. PICK t, use : t = tx[w] /\ use = t.use
  OBVIOUS
<1>2. /\ DOMAIN t = DOMAIN Idle /\ t.step = "profile" /\ use \in Covers \cup LoanRequests
      /\ \E points : t.seen = {points} /\ Len(points) = Month
  BY <1>1 DEF QuotesInv, IInv, RequestOK, QuoteOK, ReadCloses, At
<1>3. CASE use \in Covers
  <2>1. PICK benefit : Becomes(w, [t EXCEPT !.step = "buy", !.seen = {}, !.benefit = benefit])
    BY <1>1, <1>3 DEF ReadCloses
  <2>2. PICK r : r = [t EXCEPT !.step = "buy", !.seen = {}, !.benefit = benefit]
    OBVIOUS
  <2>3. r.step = "buy"
    BY <1>2, <2>2, IdleRequest
  <2> QED
    BY <2>1, <2>2, <2>3, OtherStep
<1>4. CASE use \notin Covers
  <2>1. PICK profile, limit :
          /\ profile = IncomeProfile(CHOOSE p \in t.seen : TRUE, ListCloses(Month))
          /\ limit = profile.tier.limit
    OBVIOUS
  <2>2. limit \in Nat /\ (limit > 0 => Earned(profile.streak, limit))
    <3>1. PICK points, closed : points = (CHOOSE p \in t.seen : TRUE) /\ closed = ListCloses(Month)
      OBVIOUS
    <3>2. PICK streak : streak = Streak(points, closed)
      OBVIOUS
    <3>3. profile.tier = ResolveTier(streak, OnTimePayments) /\ profile.streak = streak
      BY <2>1, <3>1, <3>2 DEF IncomeProfile
    <3>4. limit = ResolveTier(streak, OnTimePayments).limit
      BY <2>1, <3>3
    <3>5. Len(points) = Month
      BY <1>2, <3>1
    <3>6. streak \in Nat
      <4>1. PICK n : n = Month
        OBVIOUS
      <4>2. n \in Nat
        BY <4>1, ReportsAssumption
      <4>3. PICK days : days = {i \in 1 .. n : Recorded(points, closed, i)}
        OBVIOUS
      <4> QED
        BY <3>2, <3>5, <4>1, <4>2, <4>3, StreakWithin
    <3> QED
      BY <3>3, <3>4, <3>6, TierLimit
  <2>3. PICK answer : answer = Quote(use.product, limit, use.amount, use.collateral, use.term, use.today)
    OBVIOUS
  <2>4. PICK r : r = [t EXCEPT !.step = "quoted", !.seen = {profile}, !.answer = answer]
    OBVIOUS
  <2>5. Becomes(w, r)
    BY <1>1, <1>4, <2>1, <2>3, <2>4 DEF ReadCloses
  <2>6. r.step = "quoted" /\ r.use = use /\ r.answer = answer /\ r.seen = {profile}
    BY <1>1, <1>2, <2>4, IdleRequest
  <2>7. tx'[w] = r
    BY <2>5, BecomesOne DEF QuotesInv, IInv
  <2>8. QuoteOK(w)'
    BY <1>2, <1>4, <2>2, <2>3, <2>6, <2>7 DEF QuoteOK
  <2> QED
    BY <2>5, <2>8, QuoteStep
<1> QED
  BY <1>3, <1>4

\* A request that ends, or goes on with a purchase or a claim.
LEMMA OtherGoesOn ==
    ASSUME IInv, NEW w \in Handlers,
           \/ WriteDay(w) \/ AnswerQuote(w) \/ CheckPolicies(w)
           \/ IssuePolicy(w) \/ ReadEvidence(w) \/ PayClaim(w)
    PROVE  \E r : Becomes(w, r) /\ r.step \in {"idle", "issue", "pay"}
<1>1. PICK t : t = tx[w]
  OBVIOUS
<1>2. DOMAIN t = DOMAIN Idle
  BY <1>1 DEF IInv, RequestOK
<1>3. \/ Becomes(w, Idle)
      \/ \E read : Becomes(w, [t EXCEPT !.step = "issue", !.read = read])
      \/ \E benefit : Becomes(w, [t EXCEPT !.step = "pay", !.benefit = benefit])
  BY <1>1 DEF WriteDay, AnswerQuote, CheckPolicies, IssuePolicy, ReadEvidence, PayClaim
<1>4. CASE Becomes(w, Idle)
  BY <1>4, IdleRequest
<1>5. ASSUME NEW read, Becomes(w, [t EXCEPT !.step = "issue", !.read = read])
      PROVE  \E r : Becomes(w, r) /\ r.step = "issue"
  <2>1. PICK r : r = [t EXCEPT !.step = "issue", !.read = read]
    OBVIOUS
  <2>2. r.step = "issue"
    BY <1>2, <2>1, IdleRequest
  <2> QED
    BY <1>5, <2>1, <2>2
<1>6. ASSUME NEW benefit, Becomes(w, [t EXCEPT !.step = "pay", !.benefit = benefit])
      PROVE  \E r : Becomes(w, r) /\ r.step = "pay"
  <2>1. PICK r : r = [t EXCEPT !.step = "pay", !.benefit = benefit]
    OBVIOUS
  <2>2. r.step = "pay"
    BY <1>2, <2>1, IdleRequest
  <2> QED
    BY <1>6, <2>1, <2>2
<1> QED
  BY <1>3, <1>4, <1>5, <1>6

\* The invariant of the quotes is inductive.
LEMMA QuotesStay == (Init => QuotesInv) /\ (QuotesInv /\ [Next]_vars => QuotesInv')
<1>1. ASSUME Init PROVE QuotesInv
  <2>1. \A w \in Handlers : tx[w] = Idle
    BY <1>1 DEF Init
  <2>2. \A w \in Handlers : QuoteOK(w)
    BY <2>1, IdleRequest DEF QuoteOK
  <2> QED
    BY <1>1, <2>2, InitInv DEF QuotesInv
<1>2. ASSUME QuotesInv, [Next]_vars PROVE QuotesInv'
  <2>1. IInv'
    BY <1>2, StepInv DEF QuotesInv
  <2>2. CASE tx' = tx
    BY <1>2, <2>1, <2>2 DEF QuotesInv, QuoteOK
  <2>3. ASSUME NEW w \in Handlers, NEW r, Becomes(w, r), r.step \notin {"profile", "quoted"}
        PROVE  QuotesInv'
    BY <1>2, <2>1, <2>3, OtherStep DEF QuotesInv
  <2>4. ASSUME NEW w \in Handlers, CloseDay(w) \/ ReopenDay(w) \/ BuyFlat(w) \/ ReadClaims(w)
        PROVE  QuotesInv'
    BY <2>3, <2>4, OtherArrival
  <2>5. ASSUME NEW w \in Handlers,
               \/ WriteDay(w) \/ AnswerQuote(w) \/ CheckPolicies(w)
               \/ IssuePolicy(w) \/ ReadEvidence(w) \/ PayClaim(w)
        PROVE  QuotesInv'
    BY <1>2, <2>3, <2>5, OtherGoesOn DEF QuotesInv
  <2>6. ASSUME NEW w \in Handlers, ReadSales(w) \/ ReadCloses(w) PROVE QuotesInv'
    BY <1>2, <2>1, <2>6, ReadSalesQuotes, ReadClosesQuotes DEF QuotesInv
  <2>7. Ring \/ Tick \/ (\E w \in Handlers : DeactivateProduct(w)) \/ UNCHANGED vars => tx' = tx
    BY DEF Ring, Tick, DeactivateProduct, vars
  <2> QED
    BY <1>2, <2>2, <2>4, <2>5, <2>6, <2>7 DEF Next
<1> QED
  BY <1>1, <1>2

\* A loan that is offered can be paid back by its schedule, whatever its amount, its rate,
\* its term and its day, and is within the limit of a tier the shop has earned.
THEOREM SchedulesPayOff == Spec => []SchedulePaysOff
<1>1. Init => QuotesInv
  BY QuotesStay
<1>2. QuotesInv /\ [Next]_vars => QuotesInv'
  BY QuotesStay
<1>3. QuotesInv => SchedulePaysOff
  BY PaysFromInv
<1> QED
  BY <1>1, <1>2, <1>3, PTL DEF Spec
-----------------------------------------------------------------------------
(***************************************************************************)
(* The targets of promotions.                                              *)
(***************************************************************************)

\* The steps at which an edit holds what it has read.
Editing == {"columns", "targets", "commit"}
HeldRows(id) == {r \in targetRows : r.id = id /\ r.held}

\* What an edit sets is what a rule may have.
SetsColumns(edit) == \E rule \in Rule : \A f \in DOMAIN edit \cap DOMAIN rule : edit[f] = rule[f]

\* An edit that has sent an UPDATE, and a create, hold the row; then none but their own
\* request will write target rows that count, and an edit has read all there are.
EditOK(w) ==
    LET t == session[w] IN
    /\ DOMAIN t = DOMAIN NoRequest /\ t.held \in BOOLEAN
    /\ t.held => t.step \in {"create", "targets", "commit"} /\ t.id \in Ids /\ lock[t.id] = w
    /\ t.step = "create" => t.held /\ t.id \notin Existing /\ t.edit \in Rule
    /\ t.step \in Editing => t.id \in Existing /\ SetsColumns(t.edit)
    /\ t.step = "commit" /\ t.held /\ t.targets # Keep => HeldRows(t.id) \subseteq t.seen

RowsOK ==
    /\ promo \in [Ids -> Rule \cup {NoRule}]
    /\ lock \in [Rows -> Workers \cup {NoWorker}]
    /\ DOMAIN session = Workers

\* The inductive invariant.
TargetsInv ==
    /\ RowsOK
    /\ \A r \in targetRows : r.id \in Existing
    /\ TargetsOfOneRequest
    /\ \A w \in Workers : EditOK(w)
-----------------------------------------------------------------------------
\* What the operators of the module return.

\* A handler without a request.
LEMMA NoRequestIs ==
    /\ DOMAIN NoRequest = {"step", "id", "by", "edit", "targets", "held", "seen", "cart", "answer"}
    /\ NoRequest.step = "idle" /\ NoRequest.held = FALSE
  BY DEF NoRequest

\* Serves touches one handler.
LEMMA ServesOne ==
    ASSUME RowsOK, NEW w \in Workers, NEW r, Serves(w, r)
    PROVE  /\ DOMAIN session' = Workers /\ session'[w] = r
           /\ \A v \in Workers \ {w} : session'[v] = session[v]
  BY DEF Serves, RowsOK

\* A rule of which some columns are set to those of another is a rule.
LEMMA EditedIsRule ==
    ASSUME NEW row \in Rule, NEW edit, SetsColumns(edit)
    PROVE  Edited(row, edit) \in Rule
<1>1. PICK rule \in Rule : \A f \in DOMAIN edit \cap DOMAIN rule : edit[f] = rule[f]
  BY DEF SetsColumns
<1>2. PICK new : new = Edited(row, edit)
  OBVIOUS
<1>3. DOMAIN row = DOMAIN Blank /\ DOMAIN rule = DOMAIN Blank
  BY DEF Rule, Blank
<1>4. DOMAIN new = DOMAIN Blank /\ \A f \in DOMAIN Blank : new[f] \in {row[f], rule[f]}
  BY <1>1, <1>2, <1>3 DEF Edited
<1>5. new = [f \in DOMAIN Blank |-> new[f]]
  BY <1>2, <1>3 DEF Edited
<1>6. /\ new.kind \in Kinds /\ new.scope \in {"product", "category", "all"}
      /\ new.off \in Nat /\ new.buy \in Nat /\ new.get \in Nat
      /\ new.bundle \in Nat \cup {NoPrice} /\ new.code \in Codes \cup {NoCode}
  BY <1>4 DEF Rule, Blank
<1>7. /\ new.from \in Nat /\ new.until \in Nat /\ new.weekdays \in SUBSET (0 .. 6)
      /\ new.hours \in (0 .. 23) \X (0 .. 23) /\ new.uses \in Nat /\ new.maxUses \in Nat
      /\ new.priority \in Int
  BY <1>4 DEF Rule, Blank
<1>8. new.stackable \in BOOLEAN /\ new.active \in BOOLEAN
  <2>1. \A r \in Rule : r.stackable \in BOOLEAN /\ r.active \in BOOLEAN
    BY DEF Rule
  <2>2. new.stackable \in {row.stackable, rule.stackable} /\ new.active \in {row.active, rule.active}
    BY <1>4 DEF Blank
  <2> QED
    BY <2>1, <2>2
<1>9. new \in Rule
  BY <1>4, <1>5, <1>6, <1>7, <1>8 DEF Rule, Blank
<1> QED
  BY <1>2, <1>9

\* A body's columns are a rule's, and so are those of them that change.
LEMMA BodySets ==
    ASSUME NEW edit \in Edits, NEW changed, changed \subseteq DOMAIN edit
    PROVE  SetsColumns([f \in changed |-> edit[f]])
<1>1. Edited(Blank, edit) \in Rule
  BY EditsAssumption
<1>2. DOMAIN Edited(Blank, edit) = DOMAIN Blank
  BY DEF Edited
<1>3. \A f \in changed \cap DOMAIN Blank : Edited(Blank, edit)[f] = edit[f]
  BY DEF Edited
<1> QED
  BY <1>1, <1>2, <1>3 DEF SetsColumns

\* To be switched off is what some rule is.
LEMMA OffSets == ASSUME NEW row \in Rule PROVE SetsColumns([active |-> FALSE])
<1>1. PICK off : off = [row EXCEPT !.active = FALSE]
  OBVIOUS
<1>2. off \in Rule /\ off.active = FALSE
  BY <1>1 DEF Rule
<1>3. PICK edit : edit = [active |-> FALSE]
  OBVIOUS
<1>4. \A f \in DOMAIN edit : edit[f] = off[f]
  <2>1. DOMAIN edit = {"active"}
    BY <1>3
  <2>2. edit.active = FALSE
    BY <1>3
  <2>3. edit.active = off.active
    BY <1>2, <2>2
  <2> QED
    BY <2>1, <2>3
<1> QED
  BY <1>2, <1>3, <1>4 DEF SetsColumns

\* A handler whose step it is not keeps what it relies on.
LEMMA OtherEdit ==
    ASSUME NEW v \in Workers, EditOK(v), NEW t, session[v] = t, session'[v] = t,
           Existing \subseteq Existing',
           t.held => lock'[t.id] = v,
           t.held => HeldRows(t.id)' \subseteq HeldRows(t.id),
           t.step = "create" => t.id \notin Existing'
    PROVE  EditOK(v)'
<1>1. PICK rows : rows = HeldRows(t.id)'
  OBVIOUS
<1>2. t.held => rows \subseteq HeldRows(t.id)
  BY <1>1
<1> QED
  BY <1>1, <1>2 DEF EditOK

\* Steps that leave the promotions and their targets alone.
LEMMA QuietEdit ==
    ASSUME TargetsInv, NEW w \in Workers, NEW r, Serves(w, r), promo' = promo, targetRows' = targetRows,
           lock' \in [Rows -> Workers \cup {NoWorker}],
           \A v \in Workers \ {w} : \A id \in Ids : lock[id] = v => lock'[id] = v,
           EditOK(w)'
    PROVE  TargetsInv'
<1>1. /\ DOMAIN session' = Workers /\ session'[w] = r
      /\ \A v \in Workers \ {w} : session'[v] = session[v]
  BY ServesOne DEF TargetsInv
<1>2. Existing' = Existing /\ \A id : HeldRows(id)' = HeldRows(id)
  BY DEF Existing, HeldRows
<1>3. ASSUME NEW v \in Workers \ {w} PROVE EditOK(v)'
  <2>1. PICK t : t = session[v]
    OBVIOUS
  <2>2. EditOK(v) /\ session[v] = t /\ session'[v] = t
    BY <1>1, <2>1 DEF TargetsInv
  <2>3. t.held => t.id \in Ids /\ lock[t.id] = v
    BY <2>2 DEF EditOK
  <2>4. HeldRows(t.id)' = HeldRows(t.id)
    BY <1>2
  <2>5. t.step = "create" => t.id \notin Existing'
    BY <1>2, <2>2 DEF EditOK
  <2> QED
    BY <1>2, <2>2, <2>3, <2>4, <2>5, OtherEdit
<1>4. RowsOK'
  BY <1>1 DEF TargetsInv, RowsOK
<1>5. TargetsOfOneRequest'
  BY DEF TargetsInv, TargetsOfOneRequest
<1> QED
  BY <1>2, <1>3, <1>4, <1>5 DEF TargetsInv

\* Locks are released to nobody.
LEMMA Released ==
    ASSUME RowsOK, NEW w \in Workers, ReleaseRows(w)
    PROVE  /\ lock' \in [Rows -> Workers \cup {NoWorker}]
           /\ \A v \in Workers \ {w} : \A id \in Ids : lock[id] = v => lock'[id] = v
  BY DEF RowsOK, ReleaseRows, Rows

\* A row that is free, and a code that is free, are taken from nobody.
LEMMA RowsHeld ==
    ASSUME RowsOK, NEW w \in Workers, NEW id \in Ids, NEW code, lock[id] = NoWorker,
           HoldRow(w, id, code), code \in Codes \cup {NoCode}
    PROVE  /\ lock' \in [Rows -> Workers \cup {NoWorker}] /\ lock'[id] = w
           /\ \A v \in Workers \ {w} : \A k \in Ids : lock[k] = v => lock'[k] = v
  BY PromotionsAssumption DEF RowsOK, HoldRow, Rows

-----------------------------------------------------------------------------
\* One lemma per action.

\* The invariant holds at first.
LEMMA PromoInitInv == PromoInit => TargetsInv
<1> SUFFICES ASSUME PromoInit PROVE TargetsInv
  OBVIOUS
<1>1. RowsOK
  BY PromotionsAssumption DEF PromoInit, RowsOK
<1>2. PICK list \in TargetLists :
        targetRows = [id : {k \in Ids : promo[k] # NoRule}, target : list, by : {0}, held : {FALSE}]
  BY DEF PromoInit
<1>3. \A r \in targetRows : r.id \in Existing /\ r.held = FALSE
  BY <1>2 DEF Existing
<1>4. TargetsOfOneRequest
  BY <1>3 DEF TargetsOfOneRequest
<1>5. ASSUME NEW w \in Workers PROVE EditOK(w)
  <2>1. session[w] = NoRequest
    BY DEF PromoInit
  <2>2. session[w].step = "idle" /\ DOMAIN session[w] = DOMAIN NoRequest
    BY <2>1, NoRequestIs
  <2>3. session[w].held = FALSE
    BY <2>1, NoRequestIs
  <2>4. session[w].held \in BOOLEAN
    BY <2>3
  <2> QED
    BY <2>2, <2>3, <2>4 DEF EditOK, Editing
<1> QED
  BY <1>1, <1>3, <1>4, <1>5 DEF TargetsInv

\* A request that holds no row: nothing, a till's, or one that has ended.
LEMMA FreeSession ==
    ASSUME NEW w \in Workers, NEW r, session'[w] = r, DOMAIN r = DOMAIN NoRequest, r.held = FALSE,
           r.step \notin Editing \cup {"create"}
    PROVE  EditOK(w)'
<1>1. r.held \in BOOLEAN
  OBVIOUS
<1>2. ~r.held
  OBVIOUS
<1> QED
  BY <1>1, <1>2 DEF EditOK, Editing

\* A new promotion is there for its request alone, which holds its row.
LEMMA CreateInv == ASSUME TargetsInv, NEW w \in Workers, CreatePromotion(w) PROVE TargetsInv'
<1>1. PICK id \in Ids \ Existing, rule \in NewRules, list \in TargetLists :
        /\ lock[id] = NoWorker /\ FreeCode(w, id, rule.code)
        /\ HoldRow(w, id, rule.code)
        /\ Serves(w, [NoRequest EXCEPT !.step = "create", !.id = id, !.by = edits,
                                   !.edit = rule, !.targets = list, !.held = TRUE])
        /\ UNCHANGED <<promo, targetRows, carts>>
  BY DEF CreatePromotion
<1>2. PICK r : r = [NoRequest EXCEPT !.step = "create", !.id = id, !.by = edits,
                                !.edit = rule, !.targets = list, !.held = TRUE]
  OBVIOUS
<1>3. /\ DOMAIN r = DOMAIN NoRequest /\ r.step = "create" /\ r.id = id /\ r.edit = rule
  BY <1>2, NoRequestIs
<1>4. r.held = TRUE
  BY <1>2, NoRequestIs
<1>5. r.held /\ r.held \in BOOLEAN
  BY <1>4
<1>6. rule \in Rule /\ rule.code \in Codes \cup {NoCode}
  BY PromotionsAssumption DEF Rule
<1>7. /\ lock' \in [Rows -> Workers \cup {NoWorker}] /\ lock'[id] = w
      /\ \A v \in Workers \ {w} : \A k \in Ids : lock[k] = v => lock'[k] = v
  BY <1>1, <1>6, RowsHeld DEF TargetsInv
<1>8. Serves(w, r) /\ session'[w] = r /\ Existing' = Existing
  BY <1>1, <1>2, ServesOne DEF TargetsInv, Existing
<1>9. EditOK(w)'
  BY <1>1, <1>3, <1>5, <1>6, <1>7, <1>8 DEF EditOK, Editing
<1> QED
  BY <1>1, <1>7, <1>8, <1>9, QuietEdit

\* An edit has read the row; it holds nothing yet.
LEMMA BeginEdit ==
    ASSUME TargetsInv, NEW w \in Workers, NEW r, Serves(w, r), UNCHANGED <<promo, targetRows, lock>>,
           DOMAIN r = DOMAIN NoRequest, r.held = FALSE, r.step \in {"columns", "targets"},
           r.id \in Existing, SetsColumns(r.edit)
    PROVE  TargetsInv'
<1>1. session'[w] = r /\ Existing' = Existing
  BY ServesOne DEF TargetsInv, Existing
<1>2. r.held \in BOOLEAN
  OBVIOUS
<1>3. ~r.held
  OBVIOUS
<1>4. EditOK(w)'
  BY <1>1, <1>2, <1>3 DEF EditOK, Editing
<1> QED
  BY <1>4, QuietEdit DEF TargetsInv, RowsOK

\* An update of a promotion has.
LEMMA ReadPromotionInv == ASSUME TargetsInv, NEW w \in Workers, ReadPromotion(w) PROVE TargetsInv'
<1>1. PICK id \in Existing, edit \in Edits, list \in TargetLists \cup {Keep} :
        LET changed == {f \in DOMAIN edit : edit[f] # promo[id][f]} IN
        /\ Serves(w, [NoRequest EXCEPT !.step = IF changed = {} THEN "targets" ELSE "columns",
                                   !.id = id, !.by = edits, !.targets = list,
                                   !.edit = [f \in changed |-> edit[f]]])
        /\ UNCHANGED <<promo, targetRows, lock, carts>>
  BY DEF ReadPromotion
<1>2. PICK changed, step, set :
        /\ changed = {f \in DOMAIN edit : edit[f] # promo[id][f]}
        /\ step = (IF changed = {} THEN "targets" ELSE "columns")
        /\ set = [f \in changed |-> edit[f]]
  OBVIOUS
<1>3. PICK r : r = [NoRequest EXCEPT !.step = step, !.id = id, !.by = edits, !.targets = list, !.edit = set]
  OBVIOUS
<1>4. Serves(w, r) /\ UNCHANGED <<promo, targetRows, lock>>
  BY <1>1, <1>2, <1>3
<1>5. /\ DOMAIN r = DOMAIN NoRequest /\ r.step = step /\ r.id = id /\ r.edit = set /\ r.held = NoRequest.held
  BY <1>3, NoRequestIs
<1>6. step \in {"columns", "targets"} /\ r.held = FALSE
  BY <1>2, <1>5, NoRequestIs
<1>7. changed \subseteq DOMAIN edit
  BY <1>2
<1>8. SetsColumns(set)
  BY <1>2, <1>7, BodySets
<1> QED
  BY <1>4, <1>5, <1>6, <1>8, BeginEdit

\* So has a switch off.
LEMMA DeactivateInv == ASSUME TargetsInv, NEW w \in Workers, DeactivatePromotion(w) PROVE TargetsInv'
<1>1. PICK id \in Existing :
        /\ Serves(w, [NoRequest EXCEPT !.step = "columns", !.id = id, !.edit = [active |-> FALSE]])
        /\ UNCHANGED <<promo, targetRows, lock, carts>>
  BY DEF DeactivatePromotion
<1>2. PICK off : off = [active |-> FALSE]
  OBVIOUS
<1>3. PICK r : r = [NoRequest EXCEPT !.step = "columns", !.id = id, !.edit = off]
  OBVIOUS
<1>4. Serves(w, r)
  BY <1>1, <1>2, <1>3
<1>5. /\ DOMAIN r = DOMAIN NoRequest /\ r.step = "columns" /\ r.id = id /\ r.edit = off
      /\ r.held = NoRequest.held
  BY <1>3, NoRequestIs
<1>6. promo[id] \in Rule
  BY DEF TargetsInv, RowsOK, Existing
<1>7. SetsColumns(off)
  BY <1>2, <1>6, OffSets
<1> QED
  BY <1>1, <1>4, <1>5, <1>7, NoRequestIs, BeginEdit

\* The UPDATE takes the row.
LEMMA FlushInv == ASSUME TargetsInv, NEW w \in Workers, FlushColumns(w) PROVE TargetsInv'
<1>1. PICK t, id, code : t = session[w] /\ id = session[w].id /\ code = EditedCode(w)
  OBVIOUS
<1>2. PICK r : r = [t EXCEPT !.step = "targets", !.held = TRUE]
  OBVIOUS
<1>3. /\ t.step = "columns" /\ lock[id] = NoWorker /\ FreeCode(w, id, code) /\ HoldRow(w, id, code)
      /\ Serves(w, r) /\ UNCHANGED <<promo, targetRows, edits, carts>>
  BY <1>1, <1>2 DEF FlushColumns, AtStep
<1>4. DOMAIN t = DOMAIN NoRequest /\ id \in Existing /\ t.id = id /\ SetsColumns(t.edit)
  BY <1>1, <1>3 DEF TargetsInv, EditOK, Editing
<1>5. DOMAIN r = DOMAIN NoRequest /\ r.step = "targets" /\ r.id = id /\ r.edit = t.edit
  BY <1>2, <1>4, NoRequestIs
<1>6. r.held = TRUE
  BY <1>2, <1>4, NoRequestIs
<1>7. r.held /\ r.held \in BOOLEAN
  BY <1>6
<1>8. code \in Codes \cup {NoCode}
  <2>1. PICK rule \in Rule : \A f \in DOMAIN t.edit \cap DOMAIN rule : t.edit[f] = rule[f]
    BY <1>4 DEF SetsColumns
  <2>2. "code" \in DOMAIN rule /\ rule.code \in Codes \cup {NoCode}
    BY DEF Rule
  <2>3. "code" \in DOMAIN t.edit => t.edit.code = rule.code
    BY <2>1, <2>2
  <2> QED
    BY <1>1, <2>2, <2>3 DEF EditedCode
<1>9. id \in Ids
  BY <1>4 DEF Existing
<1>10. /\ lock' \in [Rows -> Workers \cup {NoWorker}] /\ lock'[id] = w
       /\ \A v \in Workers \ {w} : \A k \in Ids : lock[k] = v => lock'[k] = v
  BY <1>3, <1>8, <1>9, RowsHeld DEF TargetsInv
<1>11. session'[w] = r /\ Existing' = Existing
  BY <1>3, ServesOne DEF TargetsInv, Existing
<1>12. EditOK(w)'
  BY <1>4, <1>5, <1>7, <1>9, <1>10, <1>11 DEF EditOK, Editing
<1> QED
  BY <1>3, <1>10, <1>12, QuietEdit

\* A request ends without a change: its code was taken, or a till was answered.
LEMMA AnswerInv ==
    ASSUME TargetsInv, NEW w \in Workers, Finish(w), UNCHANGED <<promo, targetRows>>
    PROVE  TargetsInv'
<1>1. Serves(w, NoRequest) /\ ReleaseRows(w)
  BY DEF Finish
<1>2. session'[w] = NoRequest
  BY <1>1, ServesOne DEF TargetsInv
<1>3. EditOK(w)'
  BY <1>2, NoRequestIs, FreeSession DEF Editing
<1> QED
  BY <1>1, <1>3, Released, QuietEdit DEF TargetsInv

\* An edit reads the targets it replaces.
LEMMA ReadTargetsInv == ASSUME TargetsInv, NEW w \in Workers, ReadTargets(w) PROVE TargetsInv'
<1>1. PICK t, found :
        t = session[w] /\ found = (IF session[w].targets = Keep THEN {}
                              ELSE {r \in targetRows : r.id = session[w].id})
  OBVIOUS
<1>2. PICK r : r = [t EXCEPT !.step = "commit", !.seen = found]
  OBVIOUS
<1>3. t.step = "targets" /\ Serves(w, r) /\ UNCHANGED <<promo, targetRows, lock, edits, carts>>
  BY <1>1, <1>2 DEF ReadTargets, AtStep
<1>4. /\ DOMAIN t = DOMAIN NoRequest /\ t.held \in BOOLEAN /\ t.id \in Existing /\ SetsColumns(t.edit)
      /\ t.held => t.id \in Ids /\ lock[t.id] = w
  BY <1>1, <1>3 DEF TargetsInv, EditOK, Editing
<1>5. /\ DOMAIN r = DOMAIN NoRequest /\ r.step = "commit" /\ r.id = t.id /\ r.edit = t.edit
      /\ r.held = t.held /\ r.targets = t.targets /\ r.seen = found
  BY <1>2, <1>4, NoRequestIs
<1>6. session'[w] = r /\ Existing' = Existing /\ HeldRows(t.id)' = HeldRows(t.id)
  <2>1. PICK id : id = t.id
    OBVIOUS
  <2>2. HeldRows(id)' = HeldRows(id)
    BY <1>3 DEF HeldRows
  <2> QED
    BY <1>3, <2>1, <2>2, ServesOne DEF TargetsInv, Existing
<1>7. r.targets # Keep => HeldRows(r.id) \subseteq r.seen
  BY <1>1, <1>5 DEF HeldRows
<1>8. EditOK(w)'
  <2>1. PICK rows : rows = HeldRows(r.id)'
    OBVIOUS
  <2>2. rows = HeldRows(r.id)
    BY <1>5, <1>6, <2>1
  <2> QED
    BY <1>3, <1>4, <1>5, <1>6, <1>7, <2>1, <2>2 DEF EditOK, Editing
<1> QED
  BY <1>3, <1>8, QuietEdit DEF TargetsInv, RowsOK

\* A till reads promotions, then their targets.
LEMMA TillInv ==
    ASSUME TargetsInv, NEW w \in Workers, LoadPromotions(w) \/ LoadTargets(w)
    PROVE  TargetsInv'
<1>1. CASE LoadPromotions(w)
  <2>1. PICK cart, found : /\ Serves(w, [NoRequest EXCEPT !.step = "load", !.cart = cart, !.seen = found])
                           /\ UNCHANGED <<promo, targetRows, lock>>
    BY <1>1 DEF LoadPromotions
  <2>2. PICK r : r = [NoRequest EXCEPT !.step = "load", !.cart = cart, !.seen = found]
    OBVIOUS
  <2>3. DOMAIN r = DOMAIN NoRequest /\ r.step = "load" /\ r.held = NoRequest.held
    BY <2>2, NoRequestIs
  <2>4. session'[w] = r /\ Serves(w, r)
    BY <2>1, <2>2, ServesOne DEF TargetsInv
  <2>5. EditOK(w)'
    BY <2>3, <2>4, NoRequestIs, FreeSession DEF Editing
  <2> QED
    BY <2>1, <2>4, <2>5, QuietEdit DEF TargetsInv, RowsOK
<1>2. CASE LoadTargets(w)
  <2>1. PICK t : t = session[w]
    OBVIOUS
  <2>2. PICK found, price :
          /\ Serves(w, [t EXCEPT !.step = "answered", !.seen = found, !.answer = price])
          /\ t.step = "load" /\ UNCHANGED <<promo, targetRows, lock>>
    BY <1>2, <2>1 DEF LoadTargets, AtStep
  <2>3. PICK r : r = [t EXCEPT !.step = "answered", !.seen = found, !.answer = price]
    OBVIOUS
  <2>4. DOMAIN t = DOMAIN NoRequest /\ t.held \in BOOLEAN /\ ~t.held
    BY <2>1, <2>2 DEF TargetsInv, EditOK
  <2>5. DOMAIN r = DOMAIN NoRequest /\ r.step = "answered" /\ r.held = t.held
    BY <2>3, <2>4, NoRequestIs
  <2>6. r.held = FALSE
    BY <2>4, <2>5
  <2>7. session'[w] = r /\ Serves(w, r)
    BY <2>2, <2>3, ServesOne DEF TargetsInv
  <2>8. EditOK(w)'
    BY <2>5, <2>6, <2>7, FreeSession DEF Editing
  <2> QED
    BY <2>2, <2>7, <2>8, QuietEdit DEF TargetsInv, RowsOK
<1> QED
  BY <1>1, <1>2

\* A commit replaces every row that counts by rows of its own, or adds rows that do not.
LEMMA CommitInv == ASSUME TargetsInv, NEW w \in Workers, Commit(w) PROVE TargetsInv'
<1>1. PICK t, id, list, own :
        t = session[w] /\ id = session[w].id /\ list = session[w].targets /\ own = NewTargets(w, list)
  OBVIOUS
<1>2. PICK row : row = IF t.step = "create" THEN t.edit ELSE Edited(promo[id], t.edit)
  OBVIOUS
<1>3. /\ t.step \in {"create", "commit"}
      /\ promo' = [promo EXCEPT ![id] = row]
      /\ targetRows' = IF list = Keep THEN targetRows ELSE (targetRows \ t.seen) \cup own
      /\ Serves(w, NoRequest) /\ ReleaseRows(w)
  BY <1>1, <1>2 DEF Commit, Finish, AtStep
<1>4. \A r \in own : r.id = id /\ r.by = t.by /\ r.held = t.held
  BY <1>1 DEF NewTargets
<1>5. EditOK(w) /\ t.id = id /\ t.held \in BOOLEAN
  BY <1>1 DEF TargetsInv, EditOK
<1>6. /\ id \in Ids
      /\ t.step = "create" => t.held /\ id \notin Existing /\ t.edit \in Rule
      /\ t.step = "commit" => id \in Existing /\ SetsColumns(t.edit)
      /\ t.held => lock[id] = w
  BY <1>1, <1>3, <1>5 DEF EditOK, Editing, Existing
<1>7. row \in Rule
  <2>1. t.step = "commit" => promo[id] \in Rule
    BY <1>6 DEF TargetsInv, RowsOK, Existing
  <2> QED
    BY <1>2, <1>3, <1>6, <2>1, EditedIsRule
<1>8. RowsOK' /\ Existing' = Existing \cup {id}
  <2>1. promo' \in [Ids -> Rule \cup {NoRule}]
    BY <1>3, <1>7 DEF TargetsInv, RowsOK
  <2>2. Existing' = Existing \cup {id}
    BY <1>3, <1>6, <1>7, PromotionsAssumption DEF TargetsInv, RowsOK, Existing
  <2>3. lock' \in [Rows -> Workers \cup {NoWorker}]
    BY <1>3, Released DEF TargetsInv
  <2>4. DOMAIN session' = Workers
    BY <1>3, ServesOne DEF TargetsInv
  <2> QED
    BY <2>1, <2>2, <2>3, <2>4 DEF RowsOK
<1>9. targetRows' \subseteq targetRows \cup own
  BY <1>3
<1>10. \A r \in targetRows' : r.id \in Existing'
  BY <1>4, <1>8, <1>9 DEF TargetsInv
<1>11. ASSUME t.held, list # Keep PROVE \A r \in targetRows' : r.id = id /\ r.held => r \in own
  <2>1. CASE t.step = "create"
    BY <1>6, <1>9, <1>11, <2>1 DEF TargetsInv
  <2>2. CASE t.step = "commit"
    <3>1. HeldRows(id) \subseteq t.seen
      BY <1>1, <1>5, <1>11, <2>2 DEF EditOK
    <3> QED
      BY <1>3, <1>11, <3>1 DEF HeldRows
  <2> QED
    BY <1>3, <2>1, <2>2
<1>12. TargetsOfOneRequest'
  <2> SUFFICES ASSUME NEW r \in targetRows', NEW s \in targetRows', r.id = s.id, r.held, s.held
               PROVE  r.by = s.by
    BY DEF TargetsOfOneRequest
  <2>1. CASE r \in targetRows /\ s \in targetRows
    BY <2>1 DEF TargetsInv, TargetsOfOneRequest
  <2>2. CASE ~(r \in targetRows /\ s \in targetRows)
    <3>1. r.id = id /\ list # Keep
      BY <1>3, <1>4, <1>9, <2>2
    <3>2. t.held
      BY <1>4, <1>9, <2>2
    <3>3. r \in own /\ s \in own
      BY <1>11, <3>1, <3>2
    <3> QED
      BY <1>4, <3>3
  <2> QED
    BY <2>1, <2>2
<1>13. EditOK(w)'
  <2>1. session'[w] = NoRequest
    BY <1>3, ServesOne DEF TargetsInv
  <2> QED
    BY <2>1, NoRequestIs, FreeSession DEF Editing
<1>14. ASSUME NEW v \in Workers \ {w} PROVE EditOK(v)'
  <2>1. PICK u : u = session[v]
    OBVIOUS
  <2>2. EditOK(v) /\ session[v] = u /\ session'[v] = u
    BY <1>3, <2>1, ServesOne DEF TargetsInv
  <2>3. u.held => u.id \in Ids /\ lock[u.id] = v
    BY <2>2 DEF EditOK
  <2>4. u.held => lock'[u.id] = v
    BY <1>3, <2>3, Released DEF TargetsInv
  <2>5. u.held /\ t.held => u.id # id
    BY <1>6, <2>3
  <2>6. ASSUME u.held PROVE HeldRows(u.id)' \subseteq HeldRows(u.id)
    <3>1. PICK k : k = u.id
      OBVIOUS
    <3>2. \A r \in own : ~(r.id = k /\ r.held)
      BY <1>4, <2>5, <2>6, <3>1
    <3>3. HeldRows(k)' \subseteq HeldRows(k)
      BY <1>9, <3>2 DEF HeldRows
    <3> QED
      BY <3>1, <3>3
  <2>7. u.step = "create" => u.id \notin Existing'
    <3>1. u.step = "create" => u.held /\ u.id \notin Existing
      BY <2>2 DEF EditOK
    <3> QED
      BY <1>3, <1>6, <1>8, <2>5, <3>1
  <2>8. Existing \subseteq Existing'
    BY <1>8
  <2> QED
    BY <2>2, <2>4, <2>6, <2>7, <2>8, OtherEdit
<1> QED
  BY <1>8, <1>10, <1>12, <1>13, <1>14 DEF TargetsInv

\* Every step keeps the invariant.
LEMMA PromoStepInv == TargetsInv /\ [PromoNext]_promoVars => TargetsInv'
<1> SUFFICES ASSUME TargetsInv, [PromoNext]_promoVars PROVE TargetsInv'
  OBVIOUS
<1>1. CASE UNCHANGED promoVars
  <2>1. UNCHANGED <<promo, targetRows, lock, session>>
    BY <1>1 DEF promoVars
  <2>2. \A w \in Workers : EditOK(w)'
    BY <2>1 DEF TargetsInv, EditOK, HeldRows, Existing
  <2> QED
    BY <2>1, <2>2 DEF TargetsInv, RowsOK, Existing, TargetsOfOneRequest
<1>2. ASSUME NEW w \in Workers, CreatePromotion(w) PROVE TargetsInv'
  BY <1>2, CreateInv
<1>3. ASSUME NEW w \in Workers, ReadPromotion(w) PROVE TargetsInv'
  BY <1>3, ReadPromotionInv
<1>4. ASSUME NEW w \in Workers, DeactivatePromotion(w) PROVE TargetsInv'
  BY <1>4, DeactivateInv
<1>5. ASSUME NEW w \in Workers, FlushColumns(w) PROVE TargetsInv'
  BY <1>5, FlushInv
<1>6. ASSUME NEW w \in Workers, ReadTargets(w) PROVE TargetsInv'
  BY <1>6, ReadTargetsInv
<1>7. ASSUME NEW w \in Workers, Commit(w) PROVE TargetsInv'
  BY <1>7, CommitInv
<1>8. ASSUME NEW w \in Workers, LoadPromotions(w) \/ LoadTargets(w) PROVE TargetsInv'
  BY <1>8, TillInv
<1>9. ASSUME NEW w \in Workers, RefuseCode(w) \/ Answer(w) PROVE TargetsInv'
  BY <1>9, AnswerInv DEF RefuseCode, Answer
<1> QED
  BY <1>1, <1>2, <1>3, <1>4, <1>5, <1>6, <1>7, <1>8, <1>9 DEF PromoNext

\* The targets of a promotion are the list of one request, as far as requests wrote
\* them that changed a column: those wait for each other.
THEOREM OneListOfTargets == PromoSpec => []TargetsOfOneRequest
<1>1. PromoInit => TargetsInv
  BY PromoInitInv
<1>2. TargetsInv /\ [PromoNext]_promoVars => TargetsInv'
  BY PromoStepInv
<1>3. TargetsInv => TargetsOfOneRequest
  BY DEF TargetsInv
<1> QED
  BY <1>1, <1>2, <1>3, PTL DEF PromoSpec

-----------------------------------------------------------------------------
\* What a cart costs: the winner of a line is the best candidate, and what a till answers
\* is a price of what it has found.

\* What the provers need to know of a promotion a till has found.
Sellable(k) == k.id \in Nat \ {0} /\ k.rule \in Rule

Beats(j, k, req) == Better(j, PromoValue(j, req), k, PromoValue(k, req))

\* b is worth something on the line and is taken over every other one of C, or none of
\* them is worth anything.
IsBest(b, C, req) ==
    \/ b = NoPromo /\ \A k \in C : PromoValue(k, req) = 0
    \/ b \in C /\ PromoValue(b, req) > 0 /\ \A k \in C \ {b} : Beats(b, k, req)

\* A rounded quotient of naturals.
LEMMA RoundedIsNatural == ASSUME NEW n \in Nat PROVE Quantize(n, 100) \in Nat
<1>1. PICK m \in Nat : m = 2 * n + 100
  OBVIOUS
<1>2. m \div 200 \in Nat
  OBVIOUS
<1> QED
  BY <1>1, <1>2 DEF Quantize

\* A product of naturals.
LEMMA TimesIsNatural == \A x, y \in Nat : x * y \in Nat
  OBVIOUS

\* So many of so many.
LEMMA QuotientIsNatural == \A x, y \in Nat : y > 0 => x \div y \in Nat
  OBVIOUS

\* What a flat discount takes off a natural.
LEMMA FlatIsNatural ==
    ASSUME NEW r \in Rule, NEW gross \in Nat
    PROVE  PercentOrAmountDiscount(r, gross) \in Nat
<1>1. PICK off : off = r.off /\ off \in Nat
  BY DEF Rule
<1>2. PICK n : n = gross * off /\ n \in Nat
  BY <1>1, TimesIsNatural
<1>3. Quantize(gross * r.off, 100) \in Nat
  BY <1>1, <1>2, RoundedIsNatural
<1>4. Least(r.off, gross) \in Nat
  BY <1>1 DEF Least
<1> QED
  BY <1>3, <1>4 DEF PercentOrAmountDiscount

\* A promotion is worth a natural number of satang.
LEMMA WorthIsNatural ==
    ASSUME NEW k, Sellable(k), NEW req \in Request
    PROVE  PromoValue(k, req) \in Nat
<1>1. PICK r, price, qty : r = k.rule /\ price = Price[req.product] /\ qty = req.qty
  OBVIOUS
<1>2. r \in Rule /\ price \in Nat /\ qty \in Nat /\ r.buy \in Nat /\ r.get \in Nat /\ r.bundle \in Nat \cup {NoPrice}
  BY <1>1, EngineAssumption DEF Sellable, Request, Rule
<1>3. PercentOrAmountDiscount(r, price * qty) \in Nat
  BY <1>2, TimesIsNatural, FlatIsNatural
<1>4. ASSUME r.buy > 0, r.get > 0 PROVE price * FreeUnits(r, qty) \in Nat
  <2>1. PICK d \in Nat : d = r.buy + r.get /\ d > 0
    BY <1>2, <1>4
  <2>2. PICK q \in Nat : q = qty \div d
    BY <1>2, <2>1, QuotientIsNatural
  <2>3. PICK f \in Nat : f = q * r.get
    BY <1>2, <2>2, TimesIsNatural
  <2>4. FreeUnits(r, qty) = f
    BY <2>1, <2>2, <2>3 DEF FreeUnits
  <2> QED
    BY <1>2, <2>3, <2>4, TimesIsNatural
<1>5. ASSUME r.buy > 0, r.bundle # NoPrice
      PROVE  (qty \div r.buy) * Most(price * r.buy - r.bundle, 0) \in Nat
  <2>1. PICK q \in Nat : q = qty \div r.buy
    BY <1>2, <1>5, QuotientIsNatural
  <2>2. PICK g \in Nat : g = price * r.buy
    BY <1>2, TimesIsNatural
  <2>3. PICK most \in Nat : most = Most(price * r.buy - r.bundle, 0)
    BY <1>2, <1>5, <2>2 DEF Most
  <2> QED
    BY <2>1, <2>3, TimesIsNatural
<1> QED
  BY <1>1, <1>3, <1>4, <1>5 DEF PromoValue

\* The order in which promotions are preferred is strict and, between two of different ids, total.
LEMMA BeatsOrders ==
    ASSUME NEW i, NEW j, NEW k, NEW req \in Request, Sellable(i), Sellable(j), Sellable(k)
    PROVE  /\ ~Beats(i, i, req)
           /\ Beats(i, j, req) /\ Beats(j, k, req) => Beats(i, k, req)
           /\ i.id # j.id => Beats(i, j, req) \/ Beats(j, i, req)
           /\ PromoValue(i, req) > PromoValue(j, req) => Beats(i, j, req)
<1>1. PICK vi, vj, vk : vi = PromoValue(i, req) /\ vj = PromoValue(j, req) /\ vk = PromoValue(k, req)
  OBVIOUS
<1>2. vi \in Nat /\ vj \in Nat /\ vk \in Nat
  BY <1>1, WorthIsNatural
<1>3. /\ i.rule.priority \in Int /\ j.rule.priority \in Int /\ k.rule.priority \in Int
      /\ i.id \in Nat /\ j.id \in Nat /\ k.id \in Nat
  BY DEF Sellable, Rule
<1> QED
  BY <1>1, <1>2, <1>3 DEF Beats, Better

\* One more candidate.
LEMMA BetterStep ==
    ASSUME NEW C, NEW k, NEW b, NEW req \in Request, Sellable(k), \A j \in C : Sellable(j),
           \A j \in C : j.id = k.id => j = k, IsBest(b, C, req)
    PROVE  IsBest(BetterOf(b, k, req), C \cup {k}, req)
<1>1. PICK D, a : D = C \cup {k} /\ a = BetterOf(b, k, req)
  OBVIOUS
<1>2. PromoValue(k, req) \in Nat /\ \A j \in C : PromoValue(j, req) \in Nat
  BY WorthIsNatural
<1>3. \A j \in C : j # NoPromo
  BY DEF Sellable, NoPromo
<1>4. a = IF PromoValue(k, req) > 0 /\ (b = NoPromo \/ Beats(k, b, req)) THEN k ELSE b
  BY <1>1 DEF BetterOf, Beats
<1>5. CASE PromoValue(k, req) = 0
  <2>1. a = b
    BY <1>4, <1>5
  <2>2. \A j \in C : PromoValue(j, req) > 0 => Beats(j, k, req)
    BY <1>2, <1>5, BeatsOrders
  <2> QED
    BY <1>1, <1>2, <1>5, <2>1, <2>2 DEF IsBest
<1>6. CASE PromoValue(k, req) > 0 /\ b = NoPromo
  <2>1. a = k /\ \A j \in C : PromoValue(j, req) = 0
    BY <1>3, <1>4, <1>6 DEF IsBest
  <2>2. \A j \in C : Beats(k, j, req)
    BY <1>2, <1>6, <2>1, BeatsOrders
  <2> QED
    BY <1>1, <1>6, <2>1, <2>2 DEF IsBest
<1>7. CASE PromoValue(k, req) > 0 /\ b # NoPromo
  <2>1. b \in C /\ PromoValue(b, req) > 0 /\ \A j \in C \ {b} : Beats(b, j, req)
    BY <1>7 DEF IsBest
  <2>2. CASE Beats(k, b, req)
    <3>1. \A j \in C : Beats(k, j, req)
      BY <2>1, <2>2, BeatsOrders
    <3> QED
      BY <1>1, <1>4, <1>7, <2>2, <3>1 DEF IsBest
  <2>3. CASE ~Beats(k, b, req)
    <3>1. k # b => Beats(b, k, req)
      BY <2>1, <2>3, BeatsOrders
    <3> QED
      BY <1>1, <1>4, <1>7, <2>1, <2>3, <3>1 DEF IsBest
  <2> QED
    BY <2>2, <2>3
<1> QED
  BY <1>1, <1>2, <1>5, <1>6, <1>7

\* The best of the first of some promotions in a row.
BestSoFar(h, loaded, at, req) ==
    h = [i \in 0 .. Len(loaded) |->
           IF i = 0 THEN NoPromo
           ELSE IF IsAuto(loaded[i], at, req.product) THEN BetterOf(h[i - 1], loaded[i], req) ELSE h[i - 1]]

\* BestAuto is its last value.
LEMMA BestAutoIs ==
    ASSUME NEW loaded, NEW at, NEW req
    PROVE  BestAuto(loaded, at, req) = (CHOOSE h : BestSoFar(h, loaded, at, req))[Len(loaded)]
  BY DEF BestAuto, BestSoFar

\* The promotions that apply to a product by themselves.
Autos(loaded, at, p, n) == {k \in {loaded[i] : i \in 1 .. n} : IsAuto(k, at, p)}

\* What a till has found: each promotion once.
Shown(S) ==
    /\ IsFiniteSet(S) /\ \A k \in S : Sellable(k)
    /\ \A j, k \in S : j.id = k.id => j = k

Listed(loaded, S) == loaded \in Seq(S) /\ {loaded[i] : i \in 1 .. Len(loaded)} = S

\* There is such a function; the recursion tells its values, and no more.
LEMMA BestExists ==
    ASSUME NEW S, NEW loaded, Listed(loaded, S), NEW at, NEW req
    PROVE  \E h : BestSoFar(h, loaded, at, req)
<1>1. PICK n, none, zero : n = Len(loaded) /\ none = NoPromo /\ zero = 0
  OBVIOUS
<1>2. zero \in Nat /\ n \in Nat /\ zero <= n
  BY <1>1 DEF Listed
<1>3. PICK V : V = S \cup {NoPromo}
  OBVIOUS
<1>4. PICK step : step = [q \in (0 .. n) \X V |->
                            IF IsAuto(loaded[q[1]], at, req.product) THEN BetterOf(q[2], loaded[q[1]], req) ELSE q[2]]
  OBVIOUS
<1>5. PICK h : Steps(h, none, step, zero, n)
  BY <1>2, StepsExist
<1>6. DOMAIN h = 0 .. n /\ h[0] = none /\ \A k \in 1 .. n : h[k] = step[<<k, h[k - 1]>>]
  <2>1. DOMAIN h = zero .. n
    BY <1>2, <1>5, StepsAre
  <2>3. h[zero] = none
    <3>1. zero \in zero .. n
      BY <1>2
    <3> QED
      BY <1>5, <3>1 DEF Steps
  <2>2. \A k \in zero + 1 .. n : h[k] = step[<<k, h[k - 1]>>]
    BY <1>2, <1>5, StepsAre
  <2> QED
    BY <1>1, <2>1, <2>2, <2>3
<1>7. ASSUME NEW i \in 1 .. n, h[i - 1] \in V
      PROVE  /\ h[i] = IF IsAuto(loaded[i], at, req.product) THEN BetterOf(h[i - 1], loaded[i], req) ELSE h[i - 1]
             /\ h[i] \in V
  <2>1. PICK b, q, k : b = h[i - 1] /\ q = <<i, b>> /\ k = loaded[i]
    OBVIOUS
  <2>2. q \in (0 .. n) \X V /\ q[1] = i /\ q[2] = b
    BY <1>7, <2>1
  <2>3. h[i] = IF IsAuto(k, at, req.product) THEN BetterOf(b, k, req) ELSE b
    BY <1>4, <1>6, <2>1, <2>2
  <2>4. k \in S
    BY <1>1, <2>1, ElementIn DEF Listed
  <2> QED
    BY <1>3, <1>7, <2>1, <2>3, <2>4 DEF BetterOf
<1>8. \A i \in 0 .. n : h[i] \in V
  <2>1. PICK P : P = {i \in 0 .. n : h[i] \in V}
    OBVIOUS
  <2>2. zero \in P /\ \A i \in zero + 1 .. n : i - 1 \in P => i \in P
    BY <1>1, <1>2, <1>3, <1>6, <1>7, <2>1
  <2>3. \A i \in zero .. n : i \in P
    BY <1>2, <2>2, UpTo
  <2> QED
    BY <1>1, <2>1, <2>3
<1>9. \A i \in 0 .. n : h[i] = IF i = 0 THEN NoPromo
         ELSE IF IsAuto(loaded[i], at, req.product) THEN BetterOf(h[i - 1], loaded[i], req) ELSE h[i - 1]
  BY <1>1, <1>2, <1>6, <1>7, <1>8
<1>10. h = [i \in 0 .. n |-> h[i]]
  BY <1>1, <1>5, <1>6 DEF Steps
<1> QED
  BY <1>1, <1>9, <1>10 DEF BestSoFar

\* The pass finds the best of those it has seen.
LEMMA PassFindsBest ==
    ASSUME NEW S, Shown(S), NEW loaded, Listed(loaded, S), NEW at, NEW req \in Request,
           NEW h, BestSoFar(h, loaded, at, req)
    PROVE  \A n \in 0 .. Len(loaded) : IsBest(h[n], Autos(loaded, at, req.product, n), req)
<1>1. PICK p, len, zero : p = req.product /\ len = Len(loaded) /\ zero = 0
  OBVIOUS
<1>2. len \in Nat /\ zero \in Nat /\ \A i \in 1 .. len : loaded[i] \in S
  BY <1>1, ElementIn DEF Listed
<1>3. \A i \in 0 .. len : h[i] = IF i = 0 THEN NoPromo
         ELSE IF IsAuto(loaded[i], at, p) THEN BetterOf(h[i - 1], loaded[i], req) ELSE h[i - 1]
  BY <1>1 DEF BestSoFar
<1>4. PICK P : P = {n \in 0 .. len : IsBest(h[n], Autos(loaded, at, p, n), req)}
  OBVIOUS
<1>5. zero \in P
  <2>1. Autos(loaded, at, p, 0) = {} /\ h[0] = NoPromo /\ 0 \in 0 .. len
    BY <1>2, <1>3 DEF Autos
  <2> QED
    BY <1>1, <1>4, <2>1 DEF IsBest
<1>6. ASSUME NEW n \in zero + 1 .. len, n - 1 \in P PROVE n \in P
  <2>1. PICK b, k, m, C : b = h[n - 1] /\ k = loaded[n] /\ m = n - 1 /\ C = Autos(loaded, at, p, n - 1)
    OBVIOUS
  <2>2. n \in 1 .. len /\ n \in 0 .. len /\ n # 0 /\ m \in 0 .. len /\ 1 .. n = (1 .. m) \cup {n}
    BY <1>1, <1>2, <1>6, <2>1
  <2>3. IsBest(b, C, req)
    BY <1>4, <1>6, <2>1
  <2>4. k \in S /\ C \subseteq S
    BY <1>2, <2>1, <2>2 DEF Autos
  <2>5. h[n] = IF IsAuto(k, at, p) THEN BetterOf(b, k, req) ELSE b
    BY <1>3, <2>1, <2>2
  <2>6. Autos(loaded, at, p, n) = IF IsAuto(k, at, p) THEN C \cup {k} ELSE C
    BY <2>1, <2>2 DEF Autos
  <2>7. IsBest(BetterOf(b, k, req), C \cup {k}, req)
    <3>1. Sellable(k) /\ (\A j \in C : Sellable(j)) /\ \A j \in C : j.id = k.id => j = k
      BY <2>4 DEF Shown
    <3> QED
      BY <2>3, <3>1, BetterStep
  <2>8. IsBest(h[n], Autos(loaded, at, p, n), req)
    BY <2>3, <2>5, <2>6, <2>7
  <2> QED
    BY <1>4, <2>2, <2>8
<1>7. \A n \in zero .. len : n \in P
  BY <1>2, <1>5, <1>6, UpTo
<1> QED
  BY <1>1, <1>4, <1>7

\* The candidates of a line: those that apply by themselves, and the coupon.
Fit(S, at, coupon, p) ==
    {k \in S : IsValidAt(k.rule, at) /\ (k.rule.code = NoCode \/ k = coupon) /\ MatchesProduct(k, p)}

IsCoupon(coupon, S, at) ==
    coupon # NoPromo => coupon \in S /\ coupon.rule.code # NoCode /\ IsValidAt(coupon.rule, at)

\* The winner is the best of the candidates.
LEMMA BestOfAll ==
    ASSUME NEW S, Shown(S), NEW loaded, Listed(loaded, S), NEW at, NEW req \in Request,
           NEW coupon, IsCoupon(coupon, S, at)
    PROVE  IsBest(BestOf(loaded, at, coupon, req), Fit(S, at, coupon, req.product), req)
<1>1. PICK auto, h, len, p : /\ h = CHOOSE x : BestSoFar(x, loaded, at, req)
                          /\ len = Len(loaded) /\ auto = h[len] /\ p = req.product
  OBVIOUS
<1>0. /\ auto = BestAuto(loaded, at, req)
      /\ BestOf(loaded, at, coupon, req) = IF coupon # NoPromo /\ MatchesProduct(coupon, p)
                                           THEN BetterOf(auto, coupon, req) ELSE auto
  BY <1>1, BestAutoIs DEF BestOf
<1>2. BestSoFar(h, loaded, at, req)
  BY <1>1, BestExists
<1>3. len \in Nat /\ len \in 0 .. len
  BY <1>1 DEF Listed
<1>4. PICK C : C = Autos(loaded, at, p, len)
  OBVIOUS
<1>5. IsBest(auto, C, req)
  BY <1>1, <1>2, <1>3, <1>4, PassFindsBest
<1>6. C = {k \in S : IsAuto(k, at, p)}
  BY <1>1, <1>4 DEF Autos, Listed
<1>7. CASE coupon # NoPromo /\ MatchesProduct(coupon, p)
  <2>1. coupon \in S /\ Fit(S, at, coupon, p) = C \cup {coupon}
    BY <1>6, <1>7 DEF Fit, IsAuto, IsCoupon
  <2>2. Sellable(coupon) /\ (\A j \in C : Sellable(j)) /\ \A j \in C : j.id = coupon.id => j = coupon
    BY <1>6, <2>1 DEF Shown
  <2> QED
    BY <1>0, <1>1, <1>5, <1>7, <2>1, <2>2, BetterStep
<1>8. CASE ~(coupon # NoPromo /\ MatchesProduct(coupon, p))
  <2>1. \A k \in S : k # NoPromo
    BY DEF Shown, Sellable, NoPromo
  <2>2. Fit(S, at, coupon, p) = C
    BY <1>6, <1>8, <2>1 DEF Fit, IsAuto
  <2> QED
    BY <1>0, <1>1, <1>5, <1>8, <2>2
<1> QED
  BY <1>7, <1>8

\* The least of some integers, if there is one, is Min.
LEMMA MinIs ==
    ASSUME NEW S, NEW x \in S, S \subseteq Int, \A y \in S : x <= y
    PROVE  Min(S) = x
<1>1. x \in S /\ \A y \in S : x =< y
  OBVIOUS
<1>2. Min(S) \in S /\ \A y \in S : Min(S) =< y
  BY <1>1 DEF Min
<1>3. PICK m : m = Min(S)
  OBVIOUS
<1>4. m \in Int /\ x \in Int /\ m >= x /\ x >= m
  BY <1>1, <1>2, <1>3
<1>5. m = x
  BY <1>4
<1> QED
  BY <1>3, <1>5

\* The largest of some naturals is Max.
LEMMA MaxIs ==
    ASSUME NEW S, NEW x \in S, S \subseteq Nat, \A y \in S : y <= x
    PROVE  Max(S) = x
<1>1. x \in S /\ \A y \in S : x >= y
  OBVIOUS
<1>2. Max(S) \in S /\ \A y \in S : Max(S) >= y
  BY <1>1 DEF Max
<1>3. PICK m : m = Max(S)
  OBVIOUS
<1>4. m \in Nat /\ x \in Nat /\ m >= x /\ x >= m
  BY <1>1, <1>2, <1>3
<1>5. m = x
  BY <1>4
<1> QED
  BY <1>3, <1>5

\* The candidates of WinnerOf are those of the pass.
LEMMA WinnerIsBest ==
    ASSUME NEW S, Shown(S), NEW at, NEW coupon, NEW req \in Request,
           NEW b, IsBest(b, Fit(S, at, coupon, req.product), req)
    PROVE  b = WinnerOf(req, ValidOf(S, at), coupon)
<1>1. PICK C : C = Fit(S, at, coupon, req.product)
  OBVIOUS
<1>2. C = {k \in ValidOf(S, at) : (k.rule.code = NoCode \/ k = coupon) /\ MatchesProduct(k, req.product)}
  BY <1>1 DEF Fit, ValidOf
<1>3. /\ C \subseteq S /\ \A k \in C : Sellable(k) /\ PromoValue(k, req) \in Nat /\ k # NoPromo
      /\ \A j, k \in C : j.id = k.id => j = k
  BY <1>1, WorthIsNatural DEF Fit, Shown, Sellable, NoPromo
<1>4. PICK worths : worths = {0} \cup {PromoValue(k, req) : k \in C}
  OBVIOUS
<1>5. PICK best : best = {k \in C : PromoValue(k, req) = Max(worths)}
  OBVIOUS
<1>6. PICK ranks : ranks = {j.rule.priority : j \in best}
  OBVIOUS
<1>7. PICK first : first = {k \in best : k.rule.priority = Min(ranks)}
  OBVIOUS
<1>8. PICK ids : ids = {j.id : j \in first}
  OBVIOUS
<1>9. WinnerOf(req, ValidOf(S, at), coupon) =
        IF Max(worths) = 0 THEN NoPromo ELSE CHOOSE k \in first : k.id = Min(ids)
  BY <1>2, <1>4, <1>5, <1>6, <1>7, <1>8 DEF WinnerOf
<1>10. CASE b = NoPromo /\ \A k \in C : PromoValue(k, req) = 0
  <2>1. worths = {0}
    BY <1>4, <1>10
  <2>2. Max(worths) = 0
    BY <2>1, MaxIs
  <2> QED
    BY <1>9, <1>10, <2>2
<1>11. CASE b \in C /\ PromoValue(b, req) > 0 /\ \A k \in C \ {b} : Beats(b, k, req)
  <2>1. PICK v, prio, id : v = PromoValue(b, req) /\ prio = b.rule.priority /\ id = b.id
    OBVIOUS
  <2>2. v \in Nat /\ prio \in Int /\ id \in Nat /\ v > 0
    BY <1>3, <1>11, <2>1 DEF Sellable, Rule
  <2>3. ASSUME NEW k \in C
        PROVE  /\ PromoValue(k, req) <= v
               /\ PromoValue(k, req) = v => prio <= k.rule.priority
               /\ PromoValue(k, req) = v /\ k.rule.priority = prio => id <= k.id
               /\ k.rule.priority \in Int /\ k.id \in Nat /\ PromoValue(k, req) \in Nat
    <3>1. k.rule.priority \in Int /\ k.id \in Nat /\ PromoValue(k, req) \in Nat
      BY <1>3 DEF Sellable, Rule
    <3>2. CASE k = b
      BY <2>1, <2>2, <3>1, <3>2
    <3>3. CASE k # b
      <4>1. Beats(b, k, req)
        BY <1>11, <3>3
      <4> QED
        BY <2>1, <2>2, <3>1, <4>1 DEF Beats, Better
    <3> QED
      BY <3>2, <3>3
  <2>4. Max(worths) = v
    <3>1. v \in worths /\ worths \subseteq Nat /\ \A y \in worths : y <= v
      BY <1>4, <1>11, <2>1, <2>2, <2>3
    <3> QED
      BY <3>1, MaxIs
  <2>5. b \in best /\ best \subseteq C /\ \A k \in best : PromoValue(k, req) = v
    BY <1>5, <1>11, <2>1, <2>4
  <2>6. Min(ranks) = prio
    <3>1. prio \in ranks /\ ranks \subseteq Int /\ \A y \in ranks : prio <= y
      BY <1>6, <2>1, <2>3, <2>5
    <3> QED
      BY <3>1, MinIs
  <2>7. b \in first /\ first \subseteq best /\ \A k \in first : k.rule.priority = prio
    BY <1>7, <2>1, <2>5, <2>6
  <2>8. Min(ids) = id
    <3>1. id \in ids /\ ids \subseteq Int /\ \A y \in ids : id <= y
      BY <1>8, <2>1, <2>3, <2>5, <2>7
    <3> QED
      BY <3>1, MinIs
  <2>9. \A k \in first : k.id = id => k = b
    BY <1>3, <2>1, <2>5, <2>7
  <2>10. (CHOOSE k \in first : k.id = Min(ids)) = b
    BY <2>1, <2>7, <2>8, <2>9
  <2> QED
    BY <1>9, <2>2, <2>4, <2>10
<1> QED
  BY <1>1, <1>10, <1>11 DEF IsBest

\* The coupon is one of them.
LEMMA CouponIs ==
    ASSUME NEW S, Shown(S), NEW loaded, Listed(loaded, S), NEW code, NEW at
    PROVE  /\ IsCoupon(CouponPromo(loaded, code, at), S, at)
           /\ IF NamedBy(S, code, at) = {} THEN CouponPromo(loaded, code, at) = NoPromo
              ELSE CouponPromo(loaded, code, at) \in NamedBy(S, code, at)
<1>1. PICK N : N = NamedBy(S, code, at)
  OBVIOUS
<1>2. PICK named : named = {i \in DOMAIN loaded :
                    /\ IsValidAt(loaded[i].rule, at)
                    /\ code # NoCode /\ loaded[i].rule.code # NoCode
                    /\ Upper[loaded[i].rule.code] = Upper[code]}
  OBVIOUS
<1>3. CouponPromo(loaded, code, at) = IF named = {} THEN NoPromo ELSE loaded[Min(named)]
  BY <1>2 DEF CouponPromo
<1>4. DOMAIN loaded = 1 .. Len(loaded) /\ Len(loaded) \in Nat
  BY DEF Listed
<1>5. N = {loaded[i] : i \in named}
  <2>1. S = {loaded[i] : i \in DOMAIN loaded}
    BY <1>4 DEF Listed
  <2> QED
    BY <1>1, <1>2, <2>1 DEF NamedBy, ValidOf
<1>6. named \in SUBSET Nat
  BY <1>2, <1>4
<1>7. named # {} => Min(named) \in named
  BY <1>6, MinOfNat
<1>8. IF N = {} THEN CouponPromo(loaded, code, at) = NoPromo ELSE CouponPromo(loaded, code, at) \in N
  BY <1>3, <1>5, <1>7
<1>9. IsCoupon(CouponPromo(loaded, code, at), S, at)
  BY <1>1, <1>8 DEF IsCoupon, NamedBy, ValidOf
<1> QED
  BY <1>1, <1>8, <1>9

\* The lines are those of the winners, whatever the order.
LEMMA LinesAre ==
    ASSUME NEW S, Shown(S), NEW loaded, Listed(loaded, S), NEW at,
           NEW coupon, IsCoupon(coupon, S, at), NEW req \in Request
    PROVE  ResolveLine(req, loaded, at, coupon) = LinesOf(S, at, coupon, req)
<1>1. PICK best : best = BestOf(loaded, at, coupon, req)
  OBVIOUS
<1>2. best = WinnerOf(req, ValidOf(S, at), coupon)
  BY <1>1, BestOfAll, WinnerIsBest
<1> QED
  BY <1>1, <1>2 DEF ResolveLine, LinesOf

\* A cart that is not refused.
LEMMA PriceIs ==
    ASSUME NEW cart, NEW loaded, NEW a, a = PriceCart(cart, loaded), a # NoAnswer
    PROVE  /\ cart.code # NoCode => CouponPromo(loaded, cart.code, cart.at) # NoPromo
           /\ a.lines = FlattenSeq([i \in DOMAIN cart.items |->
                 ResolveLine(cart.items[i], loaded, cart.at, CouponPromo(loaded, cart.code, cart.at))])
           /\ a.applied = Applied(a.lines)
           /\ a.totals.subtotal = Subtotal(a.lines)
  BY DEF PriceCart, Resolve, CalcTotals

\* What is answered: the price of the cart with what was found, in some order.
TillOK(w) ==
    LET t == session[w] IN
    /\ t.step \in {"load", "answered"} => t.cart \in Carts /\ Shown(t.seen)
    /\ t.step = "answered" =>
         \E loaded : Listed(loaded, t.seen) /\ Len(loaded) = Cardinality(t.seen)
                       /\ t.answer = PriceCart(t.cart, loaded)

\* The inductive invariant of tills.
TillsInv == TargetsInv /\ \A w \in Workers : TillOK(w)

\* A till whose request stays keeps what it has.
LEMMA SameTill ==
    ASSUME NEW v \in Workers, TillOK(v), session'[v] = session[v]
    PROVE  TillOK(v)'
<1>1. PICK t : t = session[v]
  OBVIOUS
<1> QED
  BY <1>1 DEF TillOK

\* A handler that serves no till relies on nothing.
LEMMA NoTill ==
    ASSUME NEW w \in Workers, NEW r, session'[w] = r, r.step \notin {"load", "answered"}
    PROVE  TillOK(w)'
  BY DEF TillOK

\* The order of a statement without ORDER BY.
LEMMA OrderLists ==
    ASSUME NEW S, IsFiniteSet(S), NEW order \in SetToSeqs(S)
    PROVE  Listed(order, S) /\ Len(order) = Cardinality(S)
<1>1. PICK n : n = Cardinality(S) /\ n \in Nat
  BY FS_CardinalityType
<1>2. PICK D : D = 1 .. n
  OBVIOUS
<1>3. order \in [D -> S] /\ \A i, j \in D : i # j => order[i] # order[j]
  BY <1>1, <1>2 DEF SetToSeqs
<1>4. order \in Injection(D, S)
  BY <1>3 DEF Injection, IsInjective
<1>5. IsFiniteSet(D) /\ Cardinality(D) = n
  <2>1. 1 \in Int /\ n \in Int /\ (IF 1 > n THEN 0 ELSE n - 1 + 1) = n
    BY <1>1
  <2> QED
    BY <1>2, <2>1, FS_Interval
<1>6. order \in Surjection(D, S)
  BY <1>1, <1>4, <1>5, FS_Injection
<1>7. order \in Seq(S) /\ Len(order) = n
  BY <1>1, <1>2, <1>3
<1>8. {order[i] : i \in D} = S
  BY <1>3, <1>6 DEF Surjection
<1> QED
  BY <1>1, <1>2, <1>7, <1>8 DEF Listed

\* A till finds active promotions, each of which is a row.
LEMMA LoadPromotionsTill == ASSUME TillsInv, NEW w \in Workers, LoadPromotions(w) PROVE TillOK(w)'
<1>1. PICK found : found = {j \in Existing : promo[j].active}
  OBVIOUS
<1>2. PICK row : row = [k \in found |-> [id |-> k, rule |-> promo[k]]]
  OBVIOUS
<1>3. PICK S : S = {row[k] : k \in found}
  OBVIOUS
<1>4. S = {[id |-> k, rule |-> promo[k]] : k \in found}
  BY <1>2, <1>3
<1>5. PICK cart \in Carts : Serves(w, [NoRequest EXCEPT !.step = "load", !.cart = cart, !.seen = S])
  BY <1>1, <1>4 DEF LoadPromotions
<1>6. PICK r : r = [NoRequest EXCEPT !.step = "load", !.cart = cart, !.seen = S]
  OBVIOUS
<1>7. r.step = "load" /\ r.cart = cart /\ r.seen = S
  BY <1>6 DEF NoRequest
<1>8. session'[w] = r
  BY <1>5, <1>6, ServesOne DEF TillsInv, TargetsInv
<1>9. found \subseteq Ids /\ \A k \in found : k \in Nat \ {0} /\ promo[k] \in Rule
  BY <1>1, PromotionsAssumption DEF Existing, TillsInv, TargetsInv, RowsOK
<1>10. IsFiniteSet(S)
  <2>1. IsFiniteSet(found)
    BY <1>9, PromotionsAssumption, FS_Subset
  <2> QED
    BY <1>3, <2>1, ImageFinite
<1>11. \A k \in found : row[k].id = k /\ row[k].rule = promo[k]
  BY <1>2
<1>12. Shown(S)
  BY <1>3, <1>9, <1>10, <1>11 DEF Shown, Sellable
<1> QED
  BY <1>5, <1>7, <1>8, <1>12 DEF TillOK

\* It answers with their price in some order.
LEMMA LoadTargetsTill == ASSUME TillsInv, NEW w \in Workers, LoadTargets(w) PROVE TillOK(w)'
<1>1. PICK t : t = session[w]
  OBVIOUS
<1>2. PICK row : row = [k \in t.seen |-> [id |-> k.id, rule |-> k.rule,
                          targets |-> {r.target : r \in {q \in targetRows : q.id = k.id}}]]
  OBVIOUS
<1>3. PICK S : S = {row[k] : k \in t.seen}
  OBVIOUS
<1>4. S = {[id |-> k.id, rule |-> k.rule,
            targets |-> {r.target : r \in {q \in targetRows : q.id = k.id}}] : k \in t.seen}
  BY <1>2, <1>3
<1>5. PICK order \in SetToSeqs(S) :
        Serves(w, [t EXCEPT !.step = "answered", !.seen = S, !.answer = PriceCart(t.cart, order)])
  BY <1>1, <1>4 DEF LoadTargets
<1>6. t.step = "load"
  BY <1>1 DEF LoadTargets, AtStep
<1>7. PICK r : r = [t EXCEPT !.step = "answered", !.seen = S, !.answer = PriceCart(t.cart, order)]
  OBVIOUS
<1>8. DOMAIN t = DOMAIN NoRequest
  BY <1>1 DEF TillsInv, TargetsInv, EditOK
<1>9. r.step = "answered" /\ r.cart = t.cart /\ r.seen = S /\ r.answer = PriceCart(t.cart, order)
  BY <1>7, <1>8, NoRequestIs
<1>10. session'[w] = r
  BY <1>5, <1>7, ServesOne DEF TillsInv, TargetsInv
<1>11. t.cart \in Carts /\ Shown(t.seen)
  BY <1>1, <1>6 DEF TillsInv, TillOK
<1>12. IsFiniteSet(S)
  BY <1>3, <1>11, ImageFinite DEF Shown
<1>13. \A k \in t.seen : row[k].id = k.id /\ row[k].rule = k.rule
  BY <1>2
<1>14. \A j, k \in t.seen : row[j].id = row[k].id => row[j] = row[k]
  BY <1>11, <1>13 DEF Shown
<1>15. Shown(S)
  BY <1>3, <1>11, <1>12, <1>13, <1>14 DEF Shown, Sellable
<1>16. Listed(order, S) /\ Len(order) = Cardinality(S)
  BY <1>12, OrderLists
<1> QED
  BY <1>9, <1>10, <1>11, <1>15, <1>16 DEF TillOK

\* The other steps of a handler serve no till.
LEMMA EditTill ==
    ASSUME TillsInv, NEW w \in Workers,
           \/ CreatePromotion(w) \/ ReadPromotion(w) \/ DeactivatePromotion(w)
           \/ FlushColumns(w) \/ RefuseCode(w) \/ ReadTargets(w) \/ Commit(w) \/ Answer(w)
    PROVE  TillOK(w)'
<1>1. PICK t : t = session[w]
  OBVIOUS
<1>2. RowsOK /\ DOMAIN t = DOMAIN NoRequest
  BY <1>1 DEF TillsInv, TargetsInv, EditOK
<1>3. CASE CreatePromotion(w)
  <2>1. PICK id, rule, list :
          Serves(w, [NoRequest EXCEPT !.step = "create", !.id = id, !.by = edits,
                                !.edit = rule, !.targets = list, !.held = TRUE])
    BY <1>3 DEF CreatePromotion
  <2>2. PICK r : r = [NoRequest EXCEPT !.step = "create", !.id = id, !.by = edits,
                                !.edit = rule, !.targets = list, !.held = TRUE]
    OBVIOUS
  <2>3. Serves(w, r) /\ r.step = "create"
    BY <2>1, <2>2, NoRequestIs
  <2> QED
    BY <1>2, <2>3, ServesOne, NoTill
<1>4. CASE ReadPromotion(w)
  <2>1. PICK id, edit, list :
          LET changed == {f \in DOMAIN edit : edit[f] # promo[id][f]} IN
          Serves(w, [NoRequest EXCEPT !.step = IF changed = {} THEN "targets" ELSE "columns",
                                !.id = id, !.by = edits, !.targets = list,
                                !.edit = [f \in changed |-> edit[f]]])
    BY <1>4, ZenonT(30) DEF ReadPromotion
  <2>2. PICK changed, step, set, r :
          /\ changed = {f \in DOMAIN edit : edit[f] # promo[id][f]}
          /\ step = (IF changed = {} THEN "targets" ELSE "columns")
          /\ set = [f \in changed |-> edit[f]]
          /\ r = [NoRequest EXCEPT !.step = step, !.id = id, !.by = edits, !.targets = list, !.edit = set]
    OBVIOUS
  <2>3. Serves(w, r) /\ r.step \in {"targets", "columns"}
    BY <2>1, <2>2, NoRequestIs
  <2> QED
    BY <1>2, <2>3, ServesOne, NoTill
<1>5. CASE DeactivatePromotion(w)
  <2>1. PICK id : Serves(w, [NoRequest EXCEPT !.step = "columns", !.id = id, !.edit = [active |-> FALSE]])
    BY <1>5 DEF DeactivatePromotion
  <2>2. PICK r : r = [NoRequest EXCEPT !.step = "columns", !.id = id, !.edit = [active |-> FALSE]]
    OBVIOUS
  <2>3. Serves(w, r) /\ r.step = "columns"
    BY <2>1, <2>2, NoRequestIs
  <2> QED
    BY <1>2, <2>3, ServesOne, NoTill
<1>6. CASE FlushColumns(w)
  <2>1. PICK r : r = [t EXCEPT !.step = "targets", !.held = TRUE]
    OBVIOUS
  <2>2. Serves(w, r) /\ r.step = "targets"
    BY <1>1, <1>2, <1>6, <2>1, NoRequestIs DEF FlushColumns
  <2> QED
    BY <1>2, <2>2, ServesOne, NoTill
<1>7. CASE ReadTargets(w)
  <2>1. PICK found : Serves(w, [t EXCEPT !.step = "commit", !.seen = found])
    BY <1>1, <1>7 DEF ReadTargets
  <2>2. PICK r : r = [t EXCEPT !.step = "commit", !.seen = found]
    OBVIOUS
  <2>3. Serves(w, r) /\ r.step = "commit"
    BY <1>2, <2>1, <2>2, NoRequestIs
  <2> QED
    BY <1>2, <2>3, ServesOne, NoTill
<1>8. CASE RefuseCode(w) \/ Commit(w) \/ Answer(w)
  <2>1. PICK r : r = NoRequest
    OBVIOUS
  <2>2. Serves(w, r) /\ r.step = "idle"
    BY <1>8, <2>1, NoRequestIs DEF RefuseCode, Commit, Answer, Finish
  <2> QED
    BY <1>2, <2>2, ServesOne, NoTill
<1> QED
  BY <1>3, <1>4, <1>5, <1>6, <1>7, <1>8

\* A step is of one handler.
LEMMA OneHandler ==
    ASSUME RowsOK, NEW w \in Workers,
           \/ CreatePromotion(w) \/ ReadPromotion(w) \/ DeactivatePromotion(w)
           \/ FlushColumns(w) \/ RefuseCode(w) \/ ReadTargets(w) \/ Commit(w)
           \/ LoadPromotions(w) \/ LoadTargets(w) \/ Answer(w)
    PROVE  \A v \in Workers \ {w} : session'[v] = session[v]
<1>1. \E r : Serves(w, r)
  BY DEF CreatePromotion, ReadPromotion, DeactivatePromotion, FlushColumns, RefuseCode, ReadTargets,
         Commit, LoadPromotions, LoadTargets, Answer, Finish
<1> QED
  BY <1>1, ServesOne

\* Every step keeps the invariant of tills.
LEMMA TillsStay == (PromoInit => TillsInv) /\ (TillsInv /\ [PromoNext]_promoVars => TillsInv')
<1>1. ASSUME PromoInit PROVE TillsInv
  <2>1. \A w \in Workers : session[w].step = "idle"
    BY <1>1, NoRequestIs DEF PromoInit
  <2> QED
    BY <1>1, <2>1, PromoInitInv DEF TillsInv, TillOK
<1>2. ASSUME TillsInv, [PromoNext]_promoVars PROVE TillsInv'
  <2>1. TargetsInv'
    BY <1>2, PromoStepInv DEF TillsInv
  <2>2. \A w \in Workers : TillOK(w)'
    <3>1. CASE UNCHANGED promoVars
      <4>1. session' = session
        BY <3>1 DEF promoVars
      <4> QED
        BY <1>2, <4>1, SameTill DEF TillsInv
    <3>2. CASE PromoNext
      <4>1. PICK w \in Workers :
              \/ CreatePromotion(w) \/ ReadPromotion(w) \/ DeactivatePromotion(w)
              \/ FlushColumns(w) \/ RefuseCode(w) \/ ReadTargets(w) \/ Commit(w)
              \/ LoadPromotions(w) \/ LoadTargets(w) \/ Answer(w)
        BY <3>2 DEF PromoNext
      <4>2. \A v \in Workers \ {w} : session'[v] = session[v]
        BY <1>2, <4>1, OneHandler DEF TillsInv, TargetsInv
      <4>3. \A v \in Workers \ {w} : TillOK(v)'
        BY <1>2, <4>2, SameTill DEF TillsInv
      <4>4. TillOK(w)'
        BY <1>2, <4>1, EditTill, LoadPromotionsTill, LoadTargetsTill
      <4> QED
        BY <4>3, <4>4
    <3> QED
      BY <1>2, <3>1, <3>2
  <2> QED
    BY <2>1, <2>2 DEF TillsInv
<1> QED
  BY <1>1, <1>2

\* What is answered does not hang on the order, if one promotion at most is named.
LEMMA BestFromInv == TillsInv => BestPromotionWins
<1> SUFFICES ASSUME TillsInv, NEW w \in Answered
             PROVE  LET cart == session[w].cart
                        found == session[w].seen
                        named == NamedBy(found, cart.code, cart.at)
                        coupon == IF named = {} THEN NoPromo ELSE CHOOSE k \in named : TRUE
                    IN  Cardinality(named) <= 1 =>
                          session[w].answer.lines =
                            FlattenSeq([i \in DOMAIN cart.items |-> LinesOf(found, cart.at, coupon, cart.items[i])])
  BY DEF BestPromotionWins
<1>0. PICK cart, S, named, coupon :
        /\ cart = session[w].cart /\ S = session[w].seen
        /\ named = NamedBy(S, cart.code, cart.at)
        /\ coupon = IF named = {} THEN NoPromo ELSE CHOOSE k \in named : TRUE
  OBVIOUS
<1> SUFFICES ASSUME Cardinality(named) <= 1
             PROVE  session[w].answer.lines =
                      FlattenSeq([i \in DOMAIN cart.items |-> LinesOf(S, cart.at, coupon, cart.items[i])])
  BY <1>0
<1>1. w \in Workers /\ session[w].step = "answered" /\ session[w].answer # NoAnswer
  BY DEF Answered, AtStep
<1>2. cart \in Carts /\ Shown(S)
  BY <1>0, <1>1 DEF TillsInv, TillOK
<1>3. PICK a, loaded : a = session[w].answer /\ a = PriceCart(cart, loaded) /\ Listed(loaded, S)
  BY <1>0, <1>1 DEF TillsInv, TillOK
<1>4. PICK c, at, items : c = CouponPromo(loaded, cart.code, cart.at) /\ at = cart.at /\ items = cart.items
  OBVIOUS
<1>5. a.lines = FlattenSeq([i \in DOMAIN items |-> ResolveLine(items[i], loaded, at, c)])
  BY <1>1, <1>3, <1>4, PriceIs
<1>6. c = coupon /\ IsCoupon(coupon, S, at)
  <2>1. IsCoupon(c, S, at) /\ IF named = {} THEN c = NoPromo ELSE c \in named
    BY <1>0, <1>2, <1>3, <1>4, CouponIs
  <2>2. \A j, k \in named : j = k
    <3>1. IsFiniteSet(named)
      <4>1. named \subseteq S
        BY <1>0 DEF NamedBy, ValidOf
      <4> QED
        BY <1>2, <4>1, FS_Subset DEF Shown
    <3>2. Cardinality(named) \in Nat
      BY <3>1, FS_CardinalityType
    <3>3. Cardinality(named) = 0 \/ Cardinality(named) = 1
      BY <3>2
    <3>4. named = {} \/ \E x : named = {x}
      BY <3>1, <3>3, FS_EmptySet, FS_Singleton
    <3> QED
      BY <3>4
  <2>3. named # {} => coupon \in named
    BY <1>0
  <2> QED
    BY <1>0, <1>4, <2>1, <2>2, <2>3
<1>7. \A i \in DOMAIN items : items[i] \in Request
  <2>1. items \in Seq(Request)
    BY <1>2, <1>4, PromotionsAssumption DEF Cart
  <2>2. DOMAIN items = 1 .. Len(items)
    BY <2>1
  <2> QED
    BY <2>1, <2>2, ElementIn
<1>8. \A i \in DOMAIN items : ResolveLine(items[i], loaded, at, c) = LinesOf(S, at, coupon, items[i])
  BY <1>2, <1>3, <1>6, <1>7, LinesAre
<1>9. [i \in DOMAIN items |-> ResolveLine(items[i], loaded, at, c)] =
        [i \in DOMAIN items |-> LinesOf(S, at, coupon, items[i])]
  BY <1>8
<1> QED
  BY <1>3, <1>4, <1>5, <1>9

\* Each item of a cart is charged as the promotion worth most on it says, whatever the
\* order in which the database returned the promotions.
THEOREM BestAlwaysWins == PromoSpec => []BestPromotionWins
<1>1. PromoInit => TillsInv
  BY TillsStay
<1>2. TillsInv /\ [PromoNext]_promoVars => TillsInv'
  BY TillsStay
<1>3. TillsInv => BestPromotionWins
  BY BestFromInv
<1> QED
  BY <1>1, <1>2, <1>3, PTL DEF PromoSpec

-----------------------------------------------------------------------------
\* Sums over lines, and over the lines of all items of a cart.

\* The sum of a column over a sequence of lines; the column is a function of lines.
TotalOf(s, col) == Sigma([i \in DOMAIN s |-> col[s[i]]], DOMAIN s)

\* It is a sum of integers.
LEMMA TotalIsInt ==
    ASSUME NEW L, NEW s \in Seq(L), NEW col \in [L -> Int]
    PROVE  /\ TotalOf(s, col) \in Int
           /\ DOMAIN s = 1 .. Len(s) /\ Len(s) \in Nat /\ IsFiniteSet(DOMAIN s)
           /\ \A i \in DOMAIN s : s[i] \in L /\ col[s[i]] \in Int
<1>1. DOMAIN s = 1 .. Len(s) /\ Len(s) \in Nat
  OBVIOUS
<1>2. IsFiniteSet(DOMAIN s)
  <2>1. PICK n, one : n = Len(s) /\ one = 1
    OBVIOUS
  <2>2. one \in Int /\ n \in Int
    BY <1>1, <2>1
  <2> QED
    BY <1>1, <2>1, <2>2, FS_Interval
<1>3. \A i \in DOMAIN s : s[i] \in L /\ col[s[i]] \in Int
  BY <1>1, ElementIn
<1>4. PICK f, D : f = [i \in DOMAIN s |-> col[s[i]]] /\ D = DOMAIN s
  OBVIOUS
<1>5. Sigma(f, D) \in Int
  BY <1>2, <1>3, <1>4, SigmaType
<1> QED
  BY <1>1, <1>2, <1>3, <1>4, <1>5 DEF TotalOf

\* Of one sequence behind another.
LEMMA TotalAppended ==
    ASSUME NEW L, NEW s \in Seq(L), NEW e \in Seq(L), NEW col \in [L -> Int]
    PROVE  s \o e \in Seq(L) /\ TotalOf(s \o e, col) = TotalOf(s, col) + TotalOf(e, col)
<1>1. PICK z, n, m : z = s \o e /\ n = Len(s) /\ m = Len(e)
  OBVIOUS
<1>2. /\ z \in Seq(L) /\ n \in Nat /\ m \in Nat
      /\ DOMAIN z = 1 .. n + m /\ DOMAIN s = 1 .. n /\ DOMAIN e = 1 .. m
      /\ \A k \in 1 .. n : z[k] = s[k]
      /\ \A k \in 1 .. m : z[n + k] = e[k]
  BY <1>1, Appended
<1>3. PICK f, g, h, A, B, C :
        /\ f = [i \in DOMAIN z |-> col[z[i]]] /\ g = [i \in DOMAIN s |-> col[s[i]]]
        /\ h = [i \in DOMAIN e |-> col[e[i]]]
        /\ A = 1 .. n /\ B = n + 1 .. n + m /\ C = 1 .. m
  OBVIOUS
<1>4. IsFiniteSet(A) /\ IsFiniteSet(B) /\ IsFiniteSet(C)
  <2>1. PICK one, k, j : one = 1 /\ k = n + 1 /\ j = n + m
    OBVIOUS
  <2>2. one \in Int /\ k \in Int /\ j \in Int /\ n \in Int /\ m \in Int
    BY <1>2, <2>1
  <2> QED
    BY <1>3, <2>1, <2>2, FS_Interval
<1>5. A \cap B = {} /\ A \cup B = DOMAIN z
  BY <1>2, <1>3
<1>6. \A i \in A \cup B : f[i] \in Int
  BY <1>2, <1>3, <1>5, TotalIsInt
<1>7. Sigma(f, A \cup B) = Sigma(f, A) + Sigma(f, B)
  BY <1>4, <1>5, <1>6, SigmaUnion
<1>8. Sigma(f, A) = Sigma(g, A)
  <2>1. \A i \in A : g[i] \in Int /\ f[i] = g[i]
    BY <1>2, <1>3, <1>5, <1>6
  <2> QED
    BY <1>4, <2>1, SigmaSame
<1>9. Sigma(f, B) = Sigma(h, C)
  <2>1. PICK b : b = [i \in C |-> n + i]
    OBVIOUS
  <2>2. b \in [C -> B]
    BY <1>2, <1>3, <2>1
  <2>3. ASSUME NEW x \in B PROVE x - n \in C /\ b[x - n] = x
    <3>1. x \in Int /\ x - n \in C
      BY <1>2, <1>3
    <3>2. b[x - n] = n + (x - n)
      BY <2>1, <3>1
    <3> QED
      BY <1>2, <3>1, <3>2
  <2>4. \A y, x \in C : b[y] = b[x] => y = x
    BY <1>2, <1>3, <2>1
  <2>5. \A y \in C : h[y] = f[b[y]]
    <3> SUFFICES ASSUME NEW y \in C PROVE h[y] = f[b[y]]
      OBVIOUS
    <3>1. b[y] = n + y /\ b[y] \in B /\ b[y] \in DOMAIN z /\ z[n + y] = e[y] /\ y \in DOMAIN e
      BY <1>2, <1>3, <1>5, <2>1, <2>2
    <3> QED
      BY <1>3, <3>1
  <2>6. Terms(f, B)
    BY <1>6 DEF Terms
  <2>7. \A x \in B : \E y \in C : b[y] = x
    BY <2>3
  <2>8. Sigma(h, C) = Sigma(f, B)
    BY <1>4, <2>2, <2>4, <2>5, <2>6, <2>7, SigmaRenamed
  <2> QED
    BY <2>8
<1>10. TotalOf(z, col) = Sigma(f, A \cup B) /\ TotalOf(s, col) = Sigma(g, A) /\ TotalOf(e, col) = Sigma(h, C)
  BY <1>2, <1>3, <1>5 DEF TotalOf
<1> QED
  BY <1>1, <1>2, <1>7, <1>8, <1>9, <1>10

\* The function by whose recursion FlattenSeq is defined.
Flattened(g, ss) == g = [i \in 1 .. Len(ss) |-> IF i = 1 THEN ss[i] ELSE g[i - 1] \o ss[i]]

\* FlattenSeq is its last value.
LEMMA FlattenIs ==
    ASSUME NEW ss
    PROVE  FlattenSeq(ss) = IF Len(ss) = 0 THEN ss ELSE (CHOOSE g : Flattened(g, ss))[Len(ss)]
  BY DEF FlattenSeq, Flattened

\* There is one.
LEMMA FlattenedExists ==
    ASSUME NEW L, NEW ss \in Seq(Seq(L)), Len(ss) > 0
    PROVE  \E g : Flattened(g, ss)
<1>1. PICK n, one, start : n = Len(ss) /\ one = 1 /\ start = ss[1]
  OBVIOUS
<1>2. one \in Nat /\ n \in Nat /\ one <= n /\ start \in Seq(L)
  BY <1>1, ElementIn
<1>3. PICK step : step = [q \in (1 .. n) \X Seq(L) |-> q[2] \o ss[q[1]]]
  OBVIOUS
<1>4. PICK g : Steps(g, start, step, one, n)
  BY <1>2, StepsExist
<1>5. DOMAIN g = 1 .. n
  <2>1. DOMAIN g = one .. n
    BY <1>2, <1>4, StepsAre
  <2> QED
    BY <1>1, <2>1
<1>6. g[1] = start /\ 1 \in 1 .. n
  <2>1. one \in one .. n
    BY <1>2
  <2>2. g[one] = start
    BY <1>4, <2>1 DEF Steps
  <2> QED
    BY <1>1, <2>1, <2>2
<1>7. \A k \in 2 .. n : g[k] = step[<<k, g[k - 1]>>]
  <2>1. \A k \in one + 1 .. n : g[k] = step[<<k, g[k - 1]>>]
    BY <1>2, <1>4, StepsAre
  <2>2. one + 1 = 2
    BY <1>1
  <2> QED
    BY <2>1, <2>2
<1>8. ASSUME NEW k \in 2 .. n, g[k - 1] \in Seq(L) PROVE g[k] = g[k - 1] \o ss[k] /\ g[k] \in Seq(L)
  <2>1. PICK b, q : b = g[k - 1] /\ q = <<k, b>>
    OBVIOUS
  <2>2. q \in (1 .. n) \X Seq(L) /\ q[1] = k /\ q[2] = b
    BY <1>8, <2>1
  <2>3. ss[k] \in Seq(L)
    BY <1>1, ElementIn
  <2>4. g[k] = b \o ss[k]
    BY <1>3, <1>7, <2>1, <2>2
  <2> QED
    BY <1>8, <2>1, <2>3, <2>4, Appended
<1>9. \A k \in 1 .. n : g[k] \in Seq(L)
  <2>1. PICK P : P = {k \in 1 .. n : g[k] \in Seq(L)}
    OBVIOUS
  <2>2. one \in P
    BY <1>1, <1>2, <1>6, <2>1
  <2>3. ASSUME NEW k \in one + 1 .. n, k - 1 \in P PROVE k \in P
    <3>1. k \in 2 .. n /\ k \in 1 .. n /\ g[k - 1] \in Seq(L)
      BY <1>1, <1>2, <2>1, <2>3
    <3> QED
      BY <1>8, <2>1, <3>1
  <2>4. \A k \in one .. n : k \in P
    BY <1>2, <2>2, <2>3, UpTo
  <2> QED
    BY <1>1, <2>1, <2>4
<1>10. \A i \in 1 .. n : g[i] = IF i = 1 THEN ss[i] ELSE g[i - 1] \o ss[i]
  <2> SUFFICES ASSUME NEW i \in 1 .. n PROVE g[i] = IF i = 1 THEN ss[i] ELSE g[i - 1] \o ss[i]
    OBVIOUS
  <2>1. CASE i = 1
    BY <1>1, <1>6, <2>1
  <2>2. CASE i # 1
    <3>1. i \in 2 .. n /\ i - 1 \in 1 .. n
      BY <1>2, <2>2
    <3> QED
      BY <1>8, <1>9, <2>2, <3>1
  <2> QED
    BY <2>1, <2>2
<1>11. g = [i \in 1 .. n |-> g[i]]
  BY <1>1, <1>4, <1>5 DEF Steps
<1>12. [i \in 1 .. n |-> g[i]] = [i \in 1 .. n |-> IF i = 1 THEN ss[i] ELSE g[i - 1] \o ss[i]]
  BY <1>10
<1>13. g = [i \in 1 .. n |-> IF i = 1 THEN ss[i] ELSE g[i - 1] \o ss[i]]
  BY <1>11, <1>12
<1> QED
  BY <1>1, <1>13 DEF Flattened

\* What the lines of all items add up to is what those of each add up to.
LEMMA FlattenAddsUp ==
    ASSUME NEW L, NEW ss \in Seq(Seq(L)), NEW col \in [L -> Int],
           NEW f, \A i \in DOMAIN ss : f[i] = TotalOf(ss[i], col)
    PROVE  FlattenSeq(ss) \in Seq(L) /\ TotalOf(FlattenSeq(ss), col) = Sigma(f, DOMAIN ss)
<1>1. PICK n, one : n = Len(ss) /\ one = 1
  OBVIOUS
<1>2. n \in Nat /\ DOMAIN ss = 1 .. n /\ one \in Nat /\ \A i \in 1 .. n : ss[i] \in Seq(L)
  BY <1>1, ElementIn
<1>3. \A i \in 1 .. n : f[i] \in Int /\ f[i] = TotalOf(ss[i], col)
  <2>1. \A i \in 1 .. n : f[i] = TotalOf(ss[i], col)
    BY <1>2
  <2>2. ASSUME NEW i \in 1 .. n PROVE TotalOf(ss[i], col) \in Int
    <3>1. PICK s : s = ss[i] /\ s \in Seq(L)
      BY <1>2
    <3>2. TotalOf(s, col) \in Int
      BY <3>1, TotalIsInt
    <3> QED
      BY <3>1, <3>2
  <2> QED
    BY <2>1, <2>2
<1>4. CASE n = 0
  <2>1. FlattenSeq(ss) = ss /\ ss = <<>> /\ DOMAIN ss = {}
    BY <1>1, <1>2, <1>4, FlattenIs
  <2>2. TotalOf(ss, col) = Sigma([i \in DOMAIN ss |-> col[ss[i]]], DOMAIN ss)
    BY DEF TotalOf
  <2> QED
    BY <2>1, <2>2, SigmaEmpty
<1>5. CASE n > 0
  <2>1. PICK g : g = CHOOSE x : Flattened(x, ss)
    OBVIOUS
  <2>2. Flattened(g, ss)
    BY <1>1, <1>5, <2>1, FlattenedExists
  <2>3. \A i \in 1 .. n : g[i] = IF i = 1 THEN ss[i] ELSE g[i - 1] \o ss[i]
    BY <1>1, <2>2 DEF Flattened
  <2>4. PICK P : P = {k \in 1 .. n : g[k] \in Seq(L) /\ TotalOf(g[k], col) = Sigma(f, 1 .. k)}
    OBVIOUS
  <2>5. one \in P
    <3>1. 1 \in 1 .. n /\ g[1] = ss[1]
      BY <1>2, <1>5, <2>3
    <3>2. Sigma(f, {one}) = f[one]
      BY <1>1, <1>3, <3>1, SigmaSingleton
    <3>3. 1 .. 1 = {one}
      BY <1>1
    <3> QED
      BY <1>1, <1>2, <1>3, <2>4, <3>1, <3>2, <3>3
  <2>6. ASSUME NEW k \in one + 1 .. n, k - 1 \in P PROVE k \in P
    <3>1. PICK j, s, e : j = k - 1 /\ s = g[k - 1] /\ e = ss[k]
      OBVIOUS
    <3>2. /\ k \in 1 .. n /\ k # 1 /\ j \in Nat /\ k \notin 1 .. j
          /\ 1 .. k = (1 .. j) \cup {k} /\ 1 .. k \subseteq 1 .. n
      BY <1>1, <1>2, <2>6, <3>1
    <3>3. s \in Seq(L) /\ TotalOf(s, col) = Sigma(f, 1 .. j)
      BY <2>4, <2>6, <3>1
    <3>4. e \in Seq(L) /\ g[k] = s \o e /\ f[k] = TotalOf(e, col)
      BY <1>2, <1>3, <2>3, <3>1, <3>2
    <3>5. s \o e \in Seq(L) /\ TotalOf(s \o e, col) = TotalOf(s, col) + TotalOf(e, col)
      BY <3>3, <3>4, TotalAppended
    <3>6. PICK D : D = 1 .. j
      OBVIOUS
    <3>7. IsFiniteSet(D)
      <4>1. one \in Int /\ j \in Int
        BY <1>1, <3>2
      <4> QED
        BY <1>1, <3>6, <4>1, FS_Interval
    <3>8. Sigma(f, D \cup {k}) = Sigma(f, D) + f[k]
      <4>1. k \notin D /\ \A y \in D \cup {k} : f[y] \in Int
        BY <1>3, <3>2, <3>6
      <4> QED
        BY <3>7, <4>1, SigmaAdd
    <3> QED
      BY <2>4, <3>2, <3>3, <3>4, <3>5, <3>6, <3>8
  <2>7. \A k \in one .. n : k \in P
    BY <1>2, <2>5, <2>6, UpTo
  <2>8. n \in P
    BY <1>1, <1>2, <1>5, <2>7
  <2>9. FlattenSeq(ss) = g[n]
    BY <1>1, <1>5, <2>1, FlattenIs
  <2> QED
    BY <1>2, <2>4, <2>8, <2>9
<1> QED
  BY <1>2, <1>4, <1>5

-----------------------------------------------------------------------------
\* An item becomes at most two lines, which share its units and its cost.

\* Lines of a receipt: a gift costs nothing, and what is taken off is some promotion's.
SoundLines ==
    {l \in ResolvedLine :
        /\ l.gift => LineTotal(l) = 0
        /\ l.promo > 0 => l.by # 0
        /\ l.qty = 0 => l.promo = 0}

\* The lines of an item are at most two, which share its units.
Split(lines, a, b, req) ==
    /\ a \in SoundLines /\ b \in SoundLines
    /\ a.product = req.product /\ b.product = req.product
    /\ a.qty + b.qty = req.qty
    /\ lines = IfAny(a) \o IfAny(b)

\* The fields of a line that is paid for.
LEMMA PaidLineIs ==
    ASSUME NEW p \in Products, NEW qty \in Nat, NEW manual \in Nat, NEW off \in Nat, NEW by \in Nat,
           off > 0 => by # 0, qty = 0 => off = 0,
           NEW l, l = PaidLine(p, qty, manual, off, by)
    PROVE  l \in SoundLines /\ l.product = p /\ l.qty = qty /\ l.promo = off
<1>1. l \in ResolvedLine /\ ~l.gift
  BY DEF PaidLine, ResolvedLine
<1>2. l.product = p /\ l.qty = qty /\ l.promo = off /\ l.by = by
  BY DEF PaidLine
<1> QED
  BY <1>1, <1>2 DEF SoundLines

\* And of a gift.
LEMMA GiftLineIs ==
    ASSUME NEW p \in Products, NEW qty \in Nat, NEW by \in Nat, by # 0, NEW l, l = GiftLine(p, qty, by),
           NEW off \in Nat, off = Price[p] * qty, qty = 0 => off = 0
    PROVE  l \in SoundLines /\ l.product = p /\ l.qty = qty /\ l.promo = off
<1>1. l \in ResolvedLine
  BY DEF GiftLine, ResolvedLine
<1>2. l.product = p /\ l.qty = qty /\ l.manual = 0 /\ l.promo = off /\ l.by = by
  BY DEF GiftLine
<1>3. LineTotal(l) = off - 0 - off
  BY <1>2 DEF LineTotal, Gross
<1>4. off - 0 - off = 0
  OBVIOUS
<1> QED
  BY <1>1, <1>2, <1>3, <1>4 DEF SoundLines

\* No more units are free than there are.
LEMMA FreeWithin ==
    ASSUME NEW buy \in Nat, NEW get \in Nat, buy > 0, NEW qty \in Nat
    PROVE  /\ (qty \div (buy + get)) * get \in Nat
           /\ (qty \div (buy + get)) * get <= qty
<1>1. PICK d \in Nat : d = buy + get /\ d > 0 /\ get <= d
  OBVIOUS
<1>2. PICK q \in Nat : q = qty \div d
  BY <1>1, QuotientIsNatural
<1>3. q * d <= qty
  BY <1>1, <1>2
<1>4. q * get <= q * d
  BY <1>1, <1>2
<1>5. q * get \in Nat /\ q * d \in Nat
  BY <1>1, <1>2, TimesIsNatural
<1>6. PICK f, u : f = q * get /\ u = q * d
  OBVIOUS
<1>7. f <= qty
  BY <1>3, <1>4, <1>5, <1>6
<1> QED
  BY <1>1, <1>2, <1>5, <1>6, <1>7

\* Groups and what is left over.
LEMMA GroupsAndRest ==
    ASSUME NEW buy \in Nat, buy > 0, NEW qty \in Nat
    PROVE  /\ qty \div buy \in Nat /\ qty % buy \in Nat
           /\ (qty \div buy) * buy \in Nat
           /\ (qty \div buy) * buy + (qty % buy) = qty
<1>1. PICK q, r : q = qty \div buy /\ r = qty % buy
  OBVIOUS
<1>2. q \in Nat /\ r \in Nat /\ q * buy + r = qty
  BY <1>1
<1>3. q * buy \in Nat
  BY <1>2, TimesIsNatural
<1> QED
  BY <1>1, <1>2, <1>3

\* What a bundle takes off so many groups.
BundleOff(price, g, buy, bundle) == Most(price * g * buy - g * bundle, 0)
GroupOff(price, buy, bundle) == Most(price * buy - bundle, 0)

\* On all groups it is that of one, as many times.
LEMMA BundleDiscount ==
    ASSUME NEW price \in Nat, NEW g \in Nat, NEW buy \in Nat, NEW bundle \in Nat
    PROVE  /\ BundleOff(price, g, buy, bundle) = g * GroupOff(price, buy, bundle)
           /\ BundleOff(price, g, buy, bundle) \in Nat
<1>1. PICK x, y : x = price * buy /\ y = g * bundle
  OBVIOUS
<1>2. x \in Nat /\ y \in Nat
  BY <1>1, TimesIsNatural
<1>3. price * g * buy = g * x
  BY <1>1
<1>4. g * x - y = g * (x - bundle)
  BY <1>1, <1>2
<1>5. PICK e : e = x - bundle /\ e \in Int
  BY <1>2
<1>6. PICK t : t = g * e /\ t \in Int
  BY <1>5
<1>7. Most(t, 0) = g * Most(e, 0)
  <2>1. CASE e > 0
    <3>1. t >= 0
      BY <1>5, <1>6, <2>1
    <3> QED
      BY <1>5, <1>6, <2>1, <3>1 DEF Most
  <2>2. CASE ~(e > 0)
    <3>1. t <= 0
      BY <1>5, <1>6, <2>2
    <3>2. Most(t, 0) = 0 /\ Most(e, 0) = 0
      BY <1>5, <1>6, <2>2, <3>1 DEF Most
    <3> QED
      BY <3>2
  <2> QED
    BY <2>1, <2>2
<1>8. Most(t, 0) \in Nat
  BY <1>6 DEF Most
<1> QED
  BY <1>1, <1>3, <1>4, <1>5, <1>6, <1>7, <1>8 DEF BundleOff, GroupOff

\* How an item is split, by the promotion that won it.
LEMMA BuiltSplit ==
    ASSUME NEW req \in Request, NEW best,
           best = NoPromo \/ (Sellable(best) /\ PromoValue(best, req) > 0)
    PROVE  \E a, b : /\ Split(BuildLines(best, req), a, b, req)
                     /\ a.promo + b.promo = PromoValue(best, req)
<1>1. PICK p, price, qty, manual, r, id :
        /\ p = req.product /\ price = Price[req.product] /\ qty = req.qty /\ manual = req.manual
        /\ r = best.rule /\ id = best.id
  OBVIOUS
<1>2. p \in Products /\ price \in Nat /\ qty \in Nat /\ qty > 0 /\ manual \in Nat
  BY <1>1, EngineAssumption DEF Request
<1>4. PICK zero : zero = 0 /\ zero \in Nat
  OBVIOUS
<1>5. PICK none : none = PaidLine(p, zero, zero, zero, zero)
  OBVIOUS
<1>6. none \in SoundLines /\ none.product = p /\ none.qty = 0 /\ none.promo = 0 /\ IfAny(none) = <<>>
  <2>1. none \in SoundLines /\ none.product = p /\ none.qty = zero /\ none.promo = zero
    <3>1. /\ p \in Products /\ zero \in Nat
          /\ zero > 0 => zero # 0
      BY <1>2, <1>4
    <3>2. (zero = 0 => zero = 0) /\ none = PaidLine(p, zero, zero, zero, zero)
      BY <1>5
    <3> QED
      BY <3>1, <3>2, PaidLineIs
  <2> QED
    BY <1>4, <2>1 DEF IfAny
<1>7. ASSUME NEW off \in Nat, NEW by \in Nat, off > 0 => by # 0,
             BuildLines(best, req) = <<PaidLine(p, qty, manual, off, by)>>,
             PromoValue(best, req) = off
      PROVE  \E a, b : Split(BuildLines(best, req), a, b, req) /\ a.promo + b.promo = PromoValue(best, req)
  <2>1. PICK a : a = PaidLine(p, qty, manual, off, by)
    OBVIOUS
  <2>2. a \in SoundLines /\ a.product = p /\ a.qty = qty /\ a.promo = off
    <3>1. /\ p \in Products /\ qty \in Nat /\ manual \in Nat /\ off \in Nat /\ by \in Nat
          /\ off > 0 => by # 0
          /\ ~(qty = 0)
      BY <1>2, <1>7
    <3>2. qty = 0 => off = 0
      BY <3>1
    <3> QED
      BY <2>1, <3>1, <3>2, PaidLineIs
  <2>4. IfAny(a) = <<a>> /\ <<a>> \o <<>> = <<a>>
    BY <1>2, <2>2 DEF IfAny
  <2>5. Split(BuildLines(best, req), a, none, req)
    BY <1>1, <1>2, <1>6, <1>7, <2>1, <2>2, <2>4 DEF Split
  <2> QED
    BY <1>6, <1>7, <2>2, <2>5
<1>8. CASE best = NoPromo
  <2>1. BuildLines(best, req) = <<PaidLine(p, qty, manual, 0, 0)>> /\ PromoValue(best, req) = 0
    BY <1>1, <1>8 DEF BuildLines, PromoValue
  <2> QED
    BY <1>7, <2>1
<1>9. CASE best # NoPromo
  <2>1. /\ Sellable(best) /\ PromoValue(best, req) > 0 /\ r \in Rule /\ id \in Nat /\ id # 0
        /\ r.buy \in Nat /\ r.get \in Nat /\ r.kind \in Kinds
    BY <1>1, <1>9 DEF Sellable, Rule
  <2>2. CASE IsFlat(r)
    <3>1. PICK off : off = PercentOrAmountDiscount(r, price * qty)
      OBVIOUS
    <3>2. off \in Nat
      BY <1>2, <2>1, <3>1, TimesIsNatural, FlatIsNatural
    <3>3. BuildLines(best, req) = <<PaidLine(p, qty, manual, off, id)>>
      BY <1>1, <1>9, <2>2, <3>1 DEF BuildLines, IsFlat
    <3>4. PromoValue(best, req) = off
      BY <1>1, <1>9, <2>2, <3>1 DEF PromoValue, IsFlat
    <3> QED
      BY <1>7, <2>1, <3>2, <3>3, <3>4
  <2>3. CASE r.kind = "buy_n_get_m"
    <3>1. r.buy > 0 /\ r.get > 0 /\ PromoValue(best, req) = price * FreeUnits(r, qty)
      BY <1>1, <1>9, <2>1, <2>3 DEF PromoValue, IsFlat
    <3>2. PICK free, paid, off : free = FreeUnits(r, qty) /\ paid = qty - free /\ off = price * free
      OBVIOUS
    <3>3. free \in Nat /\ paid \in Nat /\ off \in Nat /\ paid + free = qty
      <4>1. free \in Nat /\ free <= qty
        BY <1>2, <2>1, <3>1, <3>2, FreeWithin DEF FreeUnits
      <4> QED
        BY <1>2, <3>2, <4>1, TimesIsNatural
    <3>4. PICK a, b : a = PaidLine(p, paid, manual, zero, id) /\ b = GiftLine(p, free, id)
      OBVIOUS
    <3>5. BuildLines(best, req) = IfAny(a) \o IfAny(b)
      BY <1>1, <1>4, <1>9, <2>3, <3>2, <3>4 DEF BuildLines, IsFlat
    <3>6. a \in SoundLines /\ a.product = p /\ a.qty = paid /\ a.promo = zero
      <4>1. /\ p \in Products /\ paid \in Nat /\ manual \in Nat /\ zero \in Nat /\ id \in Nat
            /\ zero > 0 => id # 0
        BY <1>2, <1>4, <2>1, <3>3
      <4>2. paid = 0 => zero = 0
        BY <1>4
      <4> QED
        BY <3>4, <4>1, <4>2, PaidLineIs
    <3>7. free = 0 => off = 0
      BY <1>2, <3>2
    <3>8. b \in SoundLines /\ b.product = p /\ b.qty = free /\ b.promo = off
      <4>1. /\ p \in Products /\ free \in Nat /\ id \in Nat /\ id # 0 /\ off \in Nat
            /\ off = Price[p] * free
        BY <1>1, <1>2, <2>1, <3>2, <3>3
      <4> QED
        BY <3>4, <3>7, <4>1, GiftLineIs
    <3>10. Split(BuildLines(best, req), a, b, req)
      BY <1>1, <3>3, <3>5, <3>6, <3>8 DEF Split
    <3>11. a.promo + b.promo = PromoValue(best, req)
      BY <1>4, <3>1, <3>2, <3>3, <3>6, <3>8
    <3> QED
      BY <3>10, <3>11
  <2>4. CASE r.kind = "buy_n_for_price"
    <3>1. /\ r.buy > 0 /\ r.bundle # NoPrice
          /\ PromoValue(best, req) = (qty \div r.buy) * Most(price * r.buy - r.bundle, 0)
      BY <1>1, <1>9, <2>1, <2>4 DEF PromoValue, IsFlat
    <3>2. r.bundle \in Nat
      BY <2>1, <3>1 DEF Rule
    <3>3. PICK groups, rest, bundled, off, m, k :
            /\ groups = qty \div r.buy /\ rest = qty % r.buy /\ bundled = groups * r.buy
            /\ off = Most(price * groups * r.buy - groups * r.bundle, 0)
            /\ m = (IF rest = 0 THEN manual ELSE 0) /\ k = (IF groups = 0 THEN manual ELSE 0)
      OBVIOUS
    <3>4. groups \in Nat /\ rest \in Nat /\ bundled \in Nat /\ bundled + rest = qty
      BY <1>2, <2>1, <3>1, <3>3, GroupsAndRest
    <3>5. off = PromoValue(best, req) /\ off \in Nat
      <4>1. PICK buy, bundle : buy = r.buy /\ bundle = r.bundle /\ buy \in Nat /\ bundle \in Nat
        BY <2>1, <3>2
      <4>2. /\ BundleOff(price, groups, buy, bundle) = groups * GroupOff(price, buy, bundle)
            /\ BundleOff(price, groups, buy, bundle) \in Nat
        <5>1. price \in Nat /\ groups \in Nat /\ buy \in Nat /\ bundle \in Nat
          BY <1>2, <3>4, <4>1
        <5> QED
          BY <5>1, BundleDiscount
      <4> QED
        BY <3>1, <3>3, <4>1, <4>2 DEF BundleOff, GroupOff
    <3>6. m \in Nat /\ k \in Nat
      BY <1>2, <3>3
    <3>7. PICK a, b : a = PaidLine(p, bundled, m, off, id) /\ b = PaidLine(p, rest, k, zero, zero)
      BY Zenon
    <3>8. BuildLines(best, req) = IfAny(a) \o IfAny(b)
      BY <1>1, <1>4, <1>9, <2>4, <3>3, <3>7, ZenonT(30) DEF BuildLines, IsFlat
    <3>11. bundled = 0 => off = 0
      <4>1. ASSUME bundled = 0 PROVE groups = 0
        BY <2>1, <3>1, <3>3, <3>4, <4>1
      <4>2. groups = 0 => groups * Most(price * r.buy - r.bundle, 0) = 0
        <5>1. PICK x : x = price * r.buy /\ x \in Nat
          BY <1>2, <2>1, TimesIsNatural
        <5>2. Most(price * r.buy - r.bundle, 0) \in Int
          BY <3>2, <5>1 DEF Most
        <5> QED
          BY <5>2
      <4> QED
        BY <3>1, <3>3, <3>5, <4>1, <4>2
    <3>12. a \in SoundLines /\ a.product = p /\ a.qty = bundled /\ a.promo = off
      <4>1. /\ bundled \in Nat /\ m \in Nat /\ off \in Nat /\ id \in Nat
            /\ off > 0 => id # 0
        BY <2>1, <3>4, <3>5, <3>6
      <4>2. p \in Products /\ a = PaidLine(p, bundled, m, off, id)
        BY <1>2, <3>7
      <4> QED
        BY <3>11, <4>1, <4>2, PaidLineIs
    <3>13. b \in SoundLines /\ b.product = p /\ b.qty = rest /\ b.promo = zero
      <4>1. /\ p \in Products /\ rest \in Nat /\ k \in Nat /\ zero \in Nat
            /\ zero > 0 => zero # 0
        BY <1>2, <1>4, <3>4, <3>6
      <4>2. (rest = 0 => zero = 0) /\ b = PaidLine(p, rest, k, zero, zero)
        BY <1>4, <3>7
      <4> QED
        BY <4>1, <4>2, PaidLineIs
    <3>14. Split(BuildLines(best, req), a, b, req)
      BY <1>1, <3>4, <3>8, <3>12, <3>13 DEF Split
    <3>15. a.promo + b.promo = PromoValue(best, req)
      BY <1>4, <3>5, <3>12, <3>13
    <3> QED
      BY <3>14, <3>15
  <2> QED
    BY <2>1, <2>2, <2>3, <2>4 DEF Kinds, IsFlat
<1> QED
  BY <1>8, <1>9

\* A line is of so many units and costs so much before discounts.
LEMMA LineTerms ==
    ASSUME NEW l \in SoundLines
    PROVE  /\ l \in ResolvedLine /\ l.product \in Products
           /\ l.qty \in Nat /\ l.manual \in Nat /\ l.promo \in Nat /\ l.by \in Nat
           /\ Gross(l) \in Nat /\ LineTotal(l) \in Int
           /\ Gross(l) = LineTotal(l) + l.manual + l.promo
<1>1. l \in ResolvedLine /\ l.product \in Products /\ l.qty \in Nat /\ l.manual \in Nat /\ l.promo \in Nat /\ l.by \in Nat
  BY DEF SoundLines, ResolvedLine
<1>2. Price[l.product] \in Nat
  BY <1>1, EngineAssumption
<1>3. Gross(l) \in Nat
  BY <1>1, <1>2, TimesIsNatural DEF Gross
<1>4. PICK g, m, o : g = Gross(l) /\ m = l.manual /\ o = l.promo
  OBVIOUS
<1>5. LineTotal(l) = g - m - o
  BY <1>4 DEF LineTotal
<1> QED
  BY <1>1, <1>3, <1>4, <1>5

\* A line with a coupon on it that takes something more off.
IsLaid(laid, l, extra, coupon) ==
    laid = [l EXCEPT !.promo = @ + extra, !.by = IF @ = 0 THEN coupon.id ELSE @]

ExtraOff(extra, l, coupon) ==
    extra = Least(PercentOrAmountDiscount(coupon.rule, Gross(l)), Most(LineTotal(l), 0))

\* What a coupon lies on.
LEMMA LaidLine ==
    ASSUME NEW l \in SoundLines, ~l.gift, l.qty > 0, NEW coupon, Sellable(coupon),
           NEW extra, ExtraOff(extra, l, coupon), extra > 0,
           NEW laid, IsLaid(laid, l, extra, coupon)
    PROVE  laid \in SoundLines /\ laid.product = l.product /\ laid.qty = l.qty
<1>1. /\ l \in ResolvedLine /\ l.qty \in Nat /\ l.promo \in Nat /\ l.by \in Nat
      /\ Gross(l) \in Nat /\ LineTotal(l) \in Int
  BY LineTerms
<1>2. extra \in Nat
  <2>1. PercentOrAmountDiscount(coupon.rule, Gross(l)) \in Nat
    BY <1>1, FlatIsNatural DEF Sellable
  <2>2. Most(LineTotal(l), 0) \in Nat
    BY <1>1 DEF Most
  <2> QED
    BY <2>1, <2>2 DEF Least, ExtraOff
<1>3. PICK off, by : off = l.promo + extra /\ by = (IF l.by = 0 THEN coupon.id ELSE l.by)
  OBVIOUS
<1>4. off \in Nat /\ by \in Nat /\ by # 0
  BY <1>1, <1>2, <1>3 DEF Sellable
<1>5. laid = [l EXCEPT !.promo = off, !.by = by]
  BY <1>1, <1>3 DEF ResolvedLine, IsLaid
<1>6. laid \in ResolvedLine
  BY <1>1, <1>4, <1>5 DEF ResolvedLine
<1>7. laid.product = l.product /\ laid.qty = l.qty /\ laid.by = by
  BY <1>1, <1>5 DEF ResolvedLine
<1>8. ~laid.gift
  BY <1>1, <1>5 DEF ResolvedLine
<1>9. laid.by # 0 /\ ~(laid.qty = 0)
  BY <1>1, <1>4, <1>7
<1>10. /\ laid.gift => LineTotal(laid) = 0
       /\ laid.promo > 0 => laid.by # 0
       /\ laid.qty = 0 => laid.promo = 0
  BY <1>8, <1>9
<1>11. laid \in SoundLines
  BY <1>6, <1>10 DEF SoundLines
<1> QED
  BY <1>7, <1>11

\* A coupon leaves the split as it is.
LEMMA LaidSplit ==
    ASSUME NEW req \in Request, NEW lines, NEW a, NEW b, Split(lines, a, b, req),
           NEW coupon, coupon = NoPromo \/ Sellable(coupon), NEW best
    PROVE  \E c, d : /\ Split(LayCoupon(coupon, best, lines), c, d, req)
                     /\ coupon = NoPromo => c.promo + d.promo = a.promo + b.promo
<1>1. PICK line, extra, laid :
        /\ line = lines[1]
        /\ extra = Least(PercentOrAmountDiscount(coupon.rule, Gross(line)), Most(LineTotal(line), 0))
        /\ laid = [line EXCEPT !.promo = @ + extra, !.by = IF @ = 0 THEN coupon.id ELSE @]
  OBVIOUS
<1>2. CASE LayCoupon(coupon, best, lines) = lines
  BY <1>2
<1>3. CASE LayCoupon(coupon, best, lines) # lines
  <2>1. /\ coupon # NoPromo /\ Len(lines) = 1 /\ ~line.gift /\ extra > 0
        /\ LayCoupon(coupon, best, lines) = <<laid>>
    BY <1>1, <1>3 DEF LayCoupon
  <2>2. /\ a \in SoundLines /\ b \in SoundLines /\ a.product = req.product /\ b.product = req.product
        /\ a.qty + b.qty = req.qty /\ lines = IfAny(a) \o IfAny(b)
    BY DEF Split
  <2>3. a.qty \in Nat /\ b.qty \in Nat
    BY <2>2, LineTerms
  <2>4. CASE a.qty > 0
    <3>1. b.qty = 0
      <4>1. ASSUME b.qty > 0 PROVE FALSE
        <5>1. lines = <<a>> \o <<b>>
          BY <2>2, <2>4, <4>1 DEF IfAny
        <5>2. Len(<<a>> \o <<b>>) = 2
          OBVIOUS
        <5> QED
          BY <2>1, <5>1, <5>2
      <4> QED
        BY <2>3, <4>1
    <3>2. lines = <<a>> \o <<>>
      BY <2>2, <2>4, <3>1 DEF IfAny
    <3>3. line = a
      BY <1>1, <3>2
    <3>4. laid \in SoundLines /\ laid.product = a.product /\ laid.qty = a.qty
      <4>1. /\ a \in SoundLines /\ ~a.gift /\ a.qty > 0 /\ Sellable(coupon) /\ extra > 0
            /\ ExtraOff(extra, a, coupon)
        BY <1>1, <2>1, <2>2, <2>4, <3>3 DEF ExtraOff
      <4>2. IsLaid(laid, a, extra, coupon)
        BY <1>1, <3>3 DEF IsLaid
      <4> QED
        BY <4>1, <4>2, LaidLine
    <3>5. <<laid>> = <<laid>> \o <<>>
      OBVIOUS
    <3>6. IfAny(laid) = <<laid>> /\ IfAny(b) = <<>>
      BY <2>4, <3>1, <3>4 DEF IfAny
    <3>7. Split(<<laid>>, laid, b, req)
      BY <2>2, <3>4, <3>5, <3>6 DEF Split
    <3> QED
      BY <2>1, <3>7
  <2>5. CASE ~(a.qty > 0)
    <3>1. a.qty = 0
      BY <2>3, <2>5
    <3>2. b.qty > 0
      BY <2>2, <2>3, <3>1 DEF Request
    <3>3. lines = <<>> \o <<b>>
      BY <2>2, <3>1, <3>2 DEF IfAny
    <3>4. line = b
      BY <1>1, <3>3
    <3>5. laid \in SoundLines /\ laid.product = b.product /\ laid.qty = b.qty
      <4>1. /\ b \in SoundLines /\ ~b.gift /\ b.qty > 0 /\ Sellable(coupon) /\ extra > 0
            /\ ExtraOff(extra, b, coupon)
        BY <1>1, <2>1, <2>2, <3>2, <3>4 DEF ExtraOff
      <4>2. IsLaid(laid, b, extra, coupon)
        BY <1>1, <3>4 DEF IsLaid
      <4> QED
        BY <4>1, <4>2, LaidLine
    <3>6. <<laid>> = <<>> \o <<laid>>
      OBVIOUS
    <3>7. IfAny(laid) = <<laid>> /\ IfAny(a) = <<>>
      BY <3>1, <3>2, <3>5 DEF IfAny
    <3>8. Split(<<laid>>, a, laid, req)
      BY <2>2, <3>5, <3>6, <3>7 DEF Split
    <3> QED
      BY <2>1, <3>8
  <2> QED
    BY <2>4, <2>5
<1> QED
  BY <1>2, <1>3

\* The lines there are of a line add up to what it counts for, if it counts for nothing
\* without units.
LEMMA TotalIfAny ==
    ASSUME NEW l \in SoundLines, NEW col \in [SoundLines -> Int], l.qty = 0 => col[l] = 0
    PROVE  IfAny(l) \in Seq(SoundLines) /\ TotalOf(IfAny(l), col) = col[l]
<1>1. l.qty \in Nat
  BY LineTerms
<1>2. CASE l.qty > 0
  <2>1. PICK s, one : s = <<l>> /\ one = 1
    OBVIOUS
  <2>2. s \in Seq(SoundLines) /\ DOMAIN s = {one} /\ s[one] = l
    BY <2>1
  <2>3. PICK f : f = [i \in DOMAIN s |-> col[s[i]]]
    OBVIOUS
  <2>4. f[one] = col[l] /\ col[l] \in Int
    BY <2>2, <2>3
  <2>5. Sigma(f, {one}) = f[one]
    BY <2>4, SigmaSingleton
  <2>6. IfAny(l) = s
    BY <1>2, <2>1 DEF IfAny
  <2> QED
    BY <2>2, <2>3, <2>4, <2>5, <2>6 DEF TotalOf
<1>3. CASE l.qty = 0
  <2>1. IfAny(l) = <<>> /\ DOMAIN <<>> = {} /\ <<>> \in Seq(SoundLines)
    BY <1>3 DEF IfAny
  <2>2. TotalOf(IfAny(l), col) = Sigma([i \in DOMAIN IfAny(l) |-> col[IfAny(l)[i]]], DOMAIN IfAny(l))
    BY DEF TotalOf
  <2>3. TotalOf(IfAny(l), col) = 0
    BY <2>1, <2>2, SigmaEmpty
  <2> QED
    BY <1>3, <2>1, <2>3
<1> QED
  BY <1>1, <1>2, <1>3

\* So do those of an item.
LEMMA TotalOfSplit ==
    ASSUME NEW req, NEW lines, NEW a, NEW b, Split(lines, a, b, req), NEW col \in [SoundLines -> Int],
           a.qty = 0 => col[a] = 0, b.qty = 0 => col[b] = 0
    PROVE  lines \in Seq(SoundLines) /\ TotalOf(lines, col) = col[a] + col[b]
<1>1. a \in SoundLines /\ b \in SoundLines /\ lines = IfAny(a) \o IfAny(b)
  BY DEF Split
<1>2. /\ IfAny(a) \in Seq(SoundLines) /\ TotalOf(IfAny(a), col) = col[a]
      /\ IfAny(b) \in Seq(SoundLines) /\ TotalOf(IfAny(b), col) = col[b]
  BY <1>1, TotalIfAny
<1> QED
  BY <1>1, <1>2, TotalAppended

\* Columns of the lines.
UnitsOf(p) == [l \in SoundLines |-> IF l.product = p THEN l.qty ELSE 0]
GrossColumn == [l \in SoundLines |-> Gross(l)]
PromoColumn == [l \in SoundLines |-> l.promo]
ManualColumn == [l \in SoundLines |-> l.manual]
TotalColumn == [l \in SoundLines |-> LineTotal(l)]

\* Each is a number on each line.
LEMMA ColumnsAre ==
    /\ \A p : UnitsOf(p) \in [SoundLines -> Int]
    /\ GrossColumn \in [SoundLines -> Int] /\ PromoColumn \in [SoundLines -> Int]
    /\ ManualColumn \in [SoundLines -> Int] /\ TotalColumn \in [SoundLines -> Int]
<1>1. \A l \in SoundLines : l.qty \in Int /\ Gross(l) \in Int /\ l.promo \in Int /\ l.manual \in Int /\ LineTotal(l) \in Int
  BY LineTerms
<1> QED
  BY <1>1 DEF UnitsOf, GrossColumn, PromoColumn, ManualColumn, TotalColumn

\* The lines of an item keep its units and what they cost, and take off what the winner
\* is worth if there is no coupon.
LEMMA ItemKeeps ==
    ASSUME NEW S, Shown(S), NEW loaded, Listed(loaded, S), NEW at,
           NEW coupon, IsCoupon(coupon, S, at), NEW req \in Request,
           NEW lines, lines = ResolveLine(req, loaded, at, coupon)
    PROVE  /\ lines \in Seq(SoundLines)
           /\ \A p : TotalOf(lines, UnitsOf(p)) = IF req.product = p THEN req.qty ELSE 0
           /\ TotalOf(lines, GrossColumn) = Gross(req)
           /\ coupon = NoPromo =>
                TotalOf(lines, PromoColumn) = PromoValue(BestOf(loaded, at, coupon, req), req)
<1>1. PICK best : best = BestOf(loaded, at, coupon, req)
  OBVIOUS
<1>2. IsBest(best, Fit(S, at, coupon, req.product), req)
  BY <1>1, BestOfAll
<1>3. best = NoPromo \/ (Sellable(best) /\ PromoValue(best, req) > 0)
  BY <1>2 DEF IsBest, Fit, Shown
<1>4. PICK x, y : /\ Split(BuildLines(best, req), x, y, req)
                  /\ x.promo + y.promo = PromoValue(best, req)
  BY <1>3, BuiltSplit
<1>5. coupon = NoPromo \/ Sellable(coupon)
  BY DEF IsCoupon, Shown
<1>6. PICK a, b : /\ Split(LayCoupon(coupon, best, BuildLines(best, req)), a, b, req)
                  /\ coupon = NoPromo => a.promo + b.promo = x.promo + y.promo
  BY <1>4, <1>5, LaidSplit
<1>7. Split(lines, a, b, req)
  BY <1>1, <1>6 DEF ResolveLine
<1>8. a \in SoundLines /\ b \in SoundLines /\ a.product = req.product /\ b.product = req.product /\ a.qty + b.qty = req.qty
  BY <1>7 DEF Split
<1>9. a.qty \in Nat /\ b.qty \in Nat /\ (a.qty = 0 => a.promo = 0) /\ (b.qty = 0 => b.promo = 0)
  BY <1>8, LineTerms DEF SoundLines
<1>10. ASSUME NEW p PROVE TotalOf(lines, UnitsOf(p)) = (IF req.product = p THEN req.qty ELSE 0) /\ lines \in Seq(SoundLines)
  <2>1. PICK col : col = UnitsOf(p)
    OBVIOUS
  <2>2. /\ col \in [SoundLines -> Int]
        /\ col[a] = (IF req.product = p THEN a.qty ELSE 0) /\ col[b] = (IF req.product = p THEN b.qty ELSE 0)
    BY <1>8, <2>1, ColumnsAre DEF UnitsOf
  <2>3. lines \in Seq(SoundLines) /\ TotalOf(lines, col) = col[a] + col[b]
    BY <1>7, <2>2, TotalOfSplit
  <2> QED
    BY <1>8, <1>9, <2>1, <2>2, <2>3
<1>11. TotalOf(lines, GrossColumn) = Gross(req)
  <2>1. PICK col, price, n, m : col = GrossColumn /\ price = Price[req.product] /\ n = a.qty /\ m = b.qty
    OBVIOUS
  <2>2. col \in [SoundLines -> Int] /\ col[a] = price * n /\ col[b] = price * m
    BY <1>8, <2>1, ColumnsAre DEF GrossColumn, Gross
  <2>3. price \in Nat /\ n \in Nat /\ m \in Nat
    BY <1>9, <2>1, EngineAssumption DEF Request
  <2>4. (n = 0 => price * n = 0) /\ (m = 0 => price * m = 0)
    BY <2>3
  <2>5. TotalOf(lines, col) = col[a] + col[b]
    BY <1>7, <2>1, <2>2, <2>4, TotalOfSplit
  <2>6. price * n + price * m = price * (n + m)
    BY <2>3
  <2> QED
    BY <1>8, <2>1, <2>2, <2>5, <2>6 DEF Gross
<1>12. TotalOf(lines, PromoColumn) = a.promo + b.promo
  <2>1. PICK col : col = PromoColumn
    OBVIOUS
  <2>2. col \in [SoundLines -> Int] /\ col[a] = a.promo /\ col[b] = b.promo
    BY <1>8, <2>1, ColumnsAre DEF PromoColumn
  <2>3. TotalOf(lines, col) = col[a] + col[b]
    BY <1>7, <1>9, <2>2, TotalOfSplit
  <2> QED
    BY <2>1, <2>2, <2>3
<1> QED
  BY <1>1, <1>4, <1>6, <1>10, <1>11, <1>12

-----------------------------------------------------------------------------
\* A cart and what is answered.

\* The lines of a cart.
CartLines(items, loaded, at, coupon) ==
    FlattenSeq([i \in DOMAIN items |-> ResolveLine(items[i], loaded, at, coupon)])

\* What the lines of a cart add up to is what those of its items do.
LEMMA CartAddsUp ==
    ASSUME NEW S, Shown(S), NEW loaded, Listed(loaded, S), NEW at,
           NEW coupon, IsCoupon(coupon, S, at), NEW items \in Seq(Request),
           NEW lines, lines = CartLines(items, loaded, at, coupon)
    PROVE  /\ lines \in Seq(SoundLines)
           /\ \A col \in [SoundLines -> Int] : \A f :
                (\A i \in DOMAIN items : f[i] = TotalOf(ResolveLine(items[i], loaded, at, coupon), col))
                => TotalOf(lines, col) = Sigma(f, DOMAIN items)
<1>1. PICK D, ss : D = DOMAIN items /\ ss = [i \in D |-> ResolveLine(items[i], loaded, at, coupon)]
  OBVIOUS
<1>2. D = 1 .. Len(items) /\ Len(items) \in Nat /\ \A i \in D : items[i] \in Request
  BY <1>1, ElementIn
<1>3. \A i \in D : ss[i] \in Seq(SoundLines)
  BY <1>1, <1>2, ItemKeeps
<1>4. ss \in Seq(Seq(SoundLines)) /\ DOMAIN ss = D
  BY <1>1, <1>2, <1>3
<1>5. ASSUME NEW col \in [SoundLines -> Int]
      PROVE  /\ lines \in Seq(SoundLines)
             /\ \A f : (\A i \in D : f[i] = TotalOf(ss[i], col)) => TotalOf(lines, col) = Sigma(f, D)
  <2>1. PICK L : L = SoundLines
    OBVIOUS
  <2>2. ss \in Seq(Seq(L)) /\ col \in [L -> Int]
    BY <1>4, <1>5, <2>1
  <2>3. PICK z : z = FlattenSeq(ss)
    OBVIOUS
  <2>4. ASSUME NEW f, \A i \in D : f[i] = TotalOf(ss[i], col)
        PROVE  lines \in Seq(SoundLines) /\ TotalOf(lines, col) = Sigma(f, D)
    <3>1. \A i \in DOMAIN ss : f[i] = TotalOf(ss[i], col)
      BY <1>4, <2>4
    <3>2. z \in Seq(L) /\ TotalOf(z, col) = Sigma(f, DOMAIN ss)
      BY <2>2, <2>3, <3>1, FlattenAddsUp
    <3> QED
      BY <1>1, <1>4, <2>1, <2>3, <3>2 DEF CartLines
  <2>5. \E f : \A i \in D : f[i] = TotalOf(ss[i], col)
    <3>1. PICK f : f = [i \in D |-> TotalOf(ss[i], col)]
      OBVIOUS
    <3> QED
      BY <3>1
  <2> QED
    BY <2>4, <2>5
<1>6. PromoColumn \in [SoundLines -> Int]
  BY ColumnsAre
<1>7. lines \in Seq(SoundLines)
  BY <1>5, <1>6
<1>8. \A i \in DOMAIN items : ss[i] = ResolveLine(items[i], loaded, at, coupon)
  BY <1>1
<1> QED
  BY <1>1, <1>5, <1>7, <1>8

\* The units of one product.
UnitsSum(s, p) == Sigma([i \in DOMAIN s |-> s[i].qty], {i \in DOMAIN s : s[i].product = p})

IsUnits(g, s, p) == \A i \in DOMAIN s : g[i] = IF s[i].product = p THEN s[i].qty ELSE 0

\* They are the sum of a column that is nothing on the lines of others.
LEMMA UnitsAre ==
    ASSUME NEW L, NEW s \in Seq(L), NEW p, \A l \in L : l.qty \in Int,
           NEW g, IsUnits(g, s, p)
    PROVE  UnitsSum(s, p) = Sigma(g, DOMAIN s)
<1>1. PICK f, D, T : f = [i \in DOMAIN s |-> s[i].qty] /\ D = DOMAIN s /\ T = {i \in DOMAIN s : s[i].product = p}
  OBVIOUS
<1>2. IsFiniteSet(D) /\ \A i \in D : s[i] \in L
  <2>1. PICK one, n : one = 1 /\ n = Len(s) /\ one \in Int /\ n \in Int /\ D = one .. n
    BY <1>1
  <2> QED
    BY <1>1, <2>1, ElementIn, FS_Interval
<1>3. T \in SUBSET D /\ Terms(f, D)
  BY <1>1, <1>2 DEF Terms
<1>4. (\A i \in T : g[i] = f[i]) /\ \A i \in D \ T : g[i] = 0
  BY <1>1 DEF IsUnits
<1>5. Sigma(g, D) = Sigma(f, T)
  BY <1>2, <1>3, <1>4, SigmaFilter
<1> QED
  BY <1>1, <1>5 DEF UnitsSum

\* What applied_promotions reports is what is taken off the lines.
LEMMA ReportedIs ==
    ASSUME NEW lines \in Seq(SoundLines), NEW a, a.applied = Applied(lines)
    PROVE  Reported(a) = TotalOf(lines, PromoColumn)
<1>1. PICK D, f, S : /\ D = DOMAIN lines /\ f = [i \in D |-> lines[i].promo]
                     /\ S = {j \in DOMAIN lines : lines[j].promo > 0}
  OBVIOUS
<1>2. IsFiniteSet(D) /\ \A i \in D : lines[i] \in SoundLines
  <2>1. PICK one, n : one = 1 /\ n = Len(lines) /\ one \in Int /\ n \in Int /\ D = one .. n
    BY <1>1
  <2> QED
    BY <1>1, <2>1, ElementIn, FS_Interval
<1>3. \A i \in D : f[i] \in Nat /\ f[i] = lines[i].promo /\ (f[i] > 0 => lines[i].by # 0)
  <2>1. \A i \in D : lines[i].promo \in Nat /\ (lines[i].promo > 0 => lines[i].by # 0)
    BY <1>2, LineTerms DEF SoundLines
  <2> QED
    BY <1>1, <2>1
<1>4. PICK by : by = [i \in S |-> lines[i].by]
  OBVIOUS
<1>5. PICK ids : ids = {by[i] : i \in S}
  OBVIOUS
<1>6. S \in SUBSET D /\ IsFiniteSet(S) /\ IsFiniteSet(ids)
  <2>1. S \in SUBSET D
    BY <1>1
  <2>2. IsFiniteSet(S)
    BY <1>2, <2>1, FS_Subset
  <2> QED
    BY <1>5, <2>1, <2>2, ImageFinite
<1>7. ids = {lines[i].by : i \in {j \in DOMAIN lines : lines[j].promo > 0}} \ {0}
  <2>1. \A i \in S : by[i] # 0 /\ by[i] = lines[i].by
    BY <1>1, <1>3, <1>4
  <2> QED
    BY <1>1, <1>5, <2>1
<1>8. PICK Of : Of = [id \in ids |-> {i \in DOMAIN lines : lines[i].by = id /\ lines[i].promo > 0}]
  OBVIOUS
<1>9. PICK row : row = [id \in ids |-> [id |-> id, amount |-> Sigma(f, Of[id])]]
  OBVIOUS
<1>10. PICK T : T = {row[id] : id \in ids}
  OBVIOUS
<1>11. a.applied = T
  <2>1. Applied(lines) = {[id |-> id, amount |->
          Sigma([i \in DOMAIN lines |-> lines[i].promo],
                {i \in DOMAIN lines : lines[i].by = id /\ lines[i].promo > 0})] : id \in ids}
    BY <1>7 DEF Applied, SumOver
  <2> QED
    BY <1>1, <1>8, <1>9, <1>10, <2>1
<1>12. PICK h, G : h = [x \in T |-> x.amount] /\ G = [x \in T |-> Of[x.id]]
  OBVIOUS
<1>13. IsFiniteSet(T)
  BY <1>6, <1>10, ImageFinite
<1>14. \A id \in ids : row[id].id = id /\ row[id].amount = Sigma(f, Of[id]) /\ row[id] \in T
  BY <1>9, <1>10
<1>15. \A x \in T : x.id \in ids /\ x = row[x.id] /\ G[x] = Of[x.id] /\ h[x] = x.amount
  BY <1>10, <1>12, <1>14
<1>16. Totals(h, f, G, T)
  BY <1>14, <1>15 DEF Totals
<1>17. Partition(G, T, S)
  <2>1. \A x \in T : G[x] \in SUBSET S
    BY <1>1, <1>8, <1>15
  <2>2. ASSUME NEW i \in S PROVE \E x \in T : i \in G[x]
    <3>1. by[i] \in ids /\ by[i] = lines[i].by
      BY <1>4, <1>5
    <3>2. i \in Of[by[i]]
      BY <1>1, <1>8, <3>1
    <3> QED
      BY <1>14, <1>15, <3>1, <3>2
  <2>3. ASSUME NEW x \in T, NEW y \in T, x # y PROVE G[x] \cap G[y] = {}
    <3>1. x.id # y.id
      BY <1>15, <2>3
    <3>2. PICK j, k : j = x.id /\ k = y.id /\ j \in ids /\ k \in ids
      BY <1>15
    <3>3. Of[j] \cap Of[k] = {}
      BY <1>8, <3>1, <3>2
    <3> QED
      BY <1>15, <3>2, <3>3
  <2> QED
    BY <2>1, <2>2, <2>3 DEF Partition
<1>18. Terms(f, S) /\ Terms(f, D)
  BY <1>3, <1>6 DEF Terms
<1>19. Sigma(h, T) = Sigma(f, S)
  BY <1>6, <1>13, <1>16, <1>17, <1>18, SigmaByGroups
<1>20. Sigma(f, D) = Sigma(f, S)
  <2>1. (\A i \in S : f[i] = f[i]) /\ \A i \in D \ S : f[i] = 0
    BY <1>1, <1>3
  <2> QED
    BY <1>2, <1>6, <1>18, <2>1, SigmaFilter
<1>21. TotalOf(lines, PromoColumn) = Sigma(f, D)
  <2>1. \A i \in D : PromoColumn[lines[i]] = lines[i].promo
    BY <1>2 DEF PromoColumn
  <2>2. [i \in DOMAIN lines |-> PromoColumn[lines[i]]] = f
    BY <1>1, <2>1
  <2> QED
    BY <1>1, <2>2 DEF TotalOf
<1>22. Reported(a) = Sigma(h, T)
  BY <1>11, <1>12 DEF Reported
<1> QED
  BY <1>19, <1>20, <1>21, <1>22

\* What the lines cost is what is charged, and what is taken off.
LEMMA LinesBalance ==
    ASSUME NEW lines \in Seq(SoundLines)
    PROVE  /\ TotalOf(lines, TotalColumn) \in Int /\ TotalOf(lines, ManualColumn) \in Int
           /\ TotalOf(lines, PromoColumn) \in Int
           /\ TotalOf(lines, GrossColumn) =
                TotalOf(lines, TotalColumn) + TotalOf(lines, ManualColumn) + TotalOf(lines, PromoColumn)
<1>1. PICK D, f, g, h, e, k :
        /\ D = DOMAIN lines
        /\ f = [i \in DOMAIN lines |-> TotalColumn[lines[i]]]
        /\ g = [i \in DOMAIN lines |-> ManualColumn[lines[i]]]
        /\ h = [i \in DOMAIN lines |-> PromoColumn[lines[i]]]
        /\ e = [i \in DOMAIN lines |-> GrossColumn[lines[i]]]
        /\ k = [i \in DOMAIN lines |-> f[i] + g[i]]
  OBVIOUS
<1>2. IsFiniteSet(D) /\ \A i \in D : lines[i] \in SoundLines
  <2>1. PICK one, n : one = 1 /\ n = Len(lines) /\ one \in Int /\ n \in Int /\ D = one .. n
    BY <1>1
  <2> QED
    BY <1>1, <2>1, ElementIn, FS_Interval
<1>3. ASSUME NEW i \in D
      PROVE  f[i] \in Int /\ g[i] \in Int /\ h[i] \in Int /\ k[i] = f[i] + g[i] /\ e[i] = k[i] + h[i]
  <2>1. PICK l : l = lines[i] /\ l \in SoundLines
    BY <1>2
  <2>2. f[i] = LineTotal(l) /\ g[i] = l.manual /\ h[i] = l.promo /\ e[i] = Gross(l)
    BY <1>1, <2>1 DEF TotalColumn, ManualColumn, PromoColumn, GrossColumn
  <2>3. LineTotal(l) \in Int /\ l.manual \in Nat /\ l.promo \in Nat /\ Gross(l) = LineTotal(l) + l.manual + l.promo
    BY <2>1, LineTerms
  <2>4. k[i] = f[i] + g[i]
    BY <1>1
  <2> QED
    BY <2>2, <2>3, <2>4
<1>4. Sigma(k, D) = Sigma(f, D) + Sigma(g, D)
  <2>1. \A i \in D : f[i] \in Int /\ g[i] \in Int /\ k[i] = f[i] + g[i]
    BY <1>3
  <2> QED
    BY <1>2, <2>1, SigmaPlus
<1>5. Sigma(e, D) = Sigma(k, D) + Sigma(h, D)
  <2>1. \A i \in D : k[i] \in Int /\ h[i] \in Int /\ e[i] = k[i] + h[i]
    BY <1>3
  <2> QED
    BY <1>2, <2>1, SigmaPlus
<1>6. /\ TotalOf(lines, TotalColumn) = Sigma(f, D) /\ TotalOf(lines, ManualColumn) = Sigma(g, D)
      /\ TotalOf(lines, PromoColumn) = Sigma(h, D) /\ TotalOf(lines, GrossColumn) = Sigma(e, D)
  BY <1>1 DEF TotalOf
<1>7. Sigma(f, D) \in Int /\ Sigma(g, D) \in Int /\ Sigma(h, D) \in Int
  BY <1>2, <1>3, SigmaType
<1> QED
  BY <1>4, <1>5, <1>6, <1>7

\* What an item is worth to the promotion that wins it, when no code was typed.
WorthOf(S, at, req) == PromoValue(WinnerOf(req, ValidOf(S, at), NoPromo), req)

\* Sums over the items and the lines of a cart.
GrossSum(items) == Sigma([i \in DOMAIN items |-> Gross(items[i])], DOMAIN items)
WorthSum(S, at, items) == Sigma([i \in DOMAIN items |-> WorthOf(S, at, items[i])], DOMAIN items)
ManualSum(lines) == Sigma([i \in DOMAIN lines |-> lines[i].manual], DOMAIN lines)

\* The sums of a cart and those of its lines.
LEMMA CartKeeps ==
    ASSUME NEW S, Shown(S), NEW loaded, Listed(loaded, S), NEW at,
           NEW coupon, IsCoupon(coupon, S, at), NEW items \in Seq(Request),
           NEW lines, lines = CartLines(items, loaded, at, coupon)
    PROVE  /\ lines \in Seq(SoundLines)
           /\ \A p : UnitsSum(items, p) = UnitsSum(lines, p)
           /\ GrossSum(items) = TotalOf(lines, GrossColumn)
           /\ coupon = NoPromo =>
                WorthSum(S, at, items) = TotalOf(lines, PromoColumn)
<1>1. PICK D : D = DOMAIN items
  OBVIOUS
<1>2. \A i \in D : items[i] \in Request
  <2>1. D = 1 .. Len(items)
    BY <1>1
  <2> QED
    BY <1>1, <2>1, ElementIn
<1>3. /\ lines \in Seq(SoundLines)
      /\ \A col \in [SoundLines -> Int] : \A f :
           (\A i \in DOMAIN items : f[i] = TotalOf(ResolveLine(items[i], loaded, at, coupon), col))
           => TotalOf(lines, col) = Sigma(f, DOMAIN items)
  BY CartAddsUp
<1>4. ASSUME NEW i \in D
      PROVE  /\ \A p : TotalOf(ResolveLine(items[i], loaded, at, coupon), UnitsOf(p)) =
                         IF items[i].product = p THEN items[i].qty ELSE 0
             /\ TotalOf(ResolveLine(items[i], loaded, at, coupon), GrossColumn) = Gross(items[i])
             /\ coupon = NoPromo =>
                  TotalOf(ResolveLine(items[i], loaded, at, coupon), PromoColumn) = WorthOf(S, at, items[i])
  <2>1. PICK req, best : req = items[i] /\ req \in Request /\ best = BestOf(loaded, at, coupon, req)
    BY <1>2
  <2>2. PICK ls : ls = ResolveLine(req, loaded, at, coupon)
    OBVIOUS
  <2>3. /\ \A p : TotalOf(ls, UnitsOf(p)) = IF req.product = p THEN req.qty ELSE 0
        /\ TotalOf(ls, GrossColumn) = Gross(req)
        /\ coupon = NoPromo => TotalOf(ls, PromoColumn) = PromoValue(BestOf(loaded, at, coupon, req), req)
    BY <2>1, <2>2, ItemKeeps
  <2>4. best = WinnerOf(req, ValidOf(S, at), coupon)
    <3>1. PICK x : x = BestOf(loaded, at, coupon, req) /\ x = best
      BY <2>1
    <3>2. IsBest(BestOf(loaded, at, coupon, req), Fit(S, at, coupon, req.product), req)
      BY <2>1, BestOfAll
    <3>3. IsBest(x, Fit(S, at, coupon, req.product), req)
      BY <3>1, <3>2
    <3>4. x = WinnerOf(req, ValidOf(S, at), coupon)
      BY <2>1, <3>3, WinnerIsBest
    <3> QED
      BY <3>1, <3>4
  <2>5. coupon = NoPromo => TotalOf(ls, PromoColumn) = WorthOf(S, at, req)
    BY <2>1, <2>3, <2>4 DEF WorthOf
  <2> QED
    BY <2>1, <2>2, <2>3, <2>5
<1>5. ASSUME NEW p
      PROVE  UnitsSum(items, p) = UnitsSum(lines, p)
  <2>1. PICK col, g, h : /\ col = UnitsOf(p)
                         /\ g = [i \in D |-> IF items[i].product = p THEN items[i].qty ELSE 0]
                         /\ h = [i \in DOMAIN lines |-> col[lines[i]]]
    OBVIOUS
  <2>2. col \in [SoundLines -> Int]
    BY <2>1, ColumnsAre
  <2>3. TotalOf(lines, col) = Sigma(g, D)
    <3>1. \A i \in D : g[i] = TotalOf(ResolveLine(items[i], loaded, at, coupon), col)
      BY <1>4, <2>1
    <3> QED
      BY <1>1, <1>3, <2>2, <3>1
  <2>4. UnitsSum(items, p) = Sigma(g, D)
    <3>1. \A l \in Request : l.qty \in Int
      BY DEF Request
    <3>2. IsUnits(g, items, p)
      BY <1>1, <2>1 DEF IsUnits
    <3>3. UnitsSum(items, p) = Sigma(g, DOMAIN items)
      BY <3>1, <3>2, UnitsAre
    <3> QED
      BY <1>1, <3>3
  <2>5. UnitsSum(lines, p) = Sigma(h, DOMAIN lines)
    <3>1. PICK L : L = SoundLines /\ lines \in Seq(L)
      BY <1>3
    <3>2. \A l \in L : l.qty \in Int
      BY <3>1, LineTerms
    <3>3. \A i \in DOMAIN lines : lines[i] \in SoundLines
      <4>1. DOMAIN lines = 1 .. Len(lines)
        BY <3>1
      <4> QED
        BY <3>1, <4>1, ElementIn
    <3>4. IsUnits(h, lines, p)
      BY <2>1, <3>3 DEF UnitsOf, IsUnits
    <3> QED
      BY <3>1, <3>2, <3>4, UnitsAre
  <2>6. TotalOf(lines, col) = Sigma(h, DOMAIN lines)
    BY <2>1 DEF TotalOf
  <2> QED
    BY <2>3, <2>4, <2>5, <2>6
<1>6. GrossSum(items) = TotalOf(lines, GrossColumn)
  <2>1. PICK f, col : f = [i \in DOMAIN items |-> Gross(items[i])] /\ col = GrossColumn
    OBVIOUS
  <2>2. \A i \in DOMAIN items : f[i] = TotalOf(ResolveLine(items[i], loaded, at, coupon), col)
    BY <1>1, <1>4, <2>1
  <2>3. TotalOf(lines, col) = Sigma(f, DOMAIN items)
    BY <1>3, <2>1, <2>2, ColumnsAre
  <2> QED
    BY <2>1, <2>3 DEF GrossSum
<1>7. ASSUME coupon = NoPromo
      PROVE  WorthSum(S, at, items) = TotalOf(lines, PromoColumn)
  <2>1. PICK f, col : f = [i \in DOMAIN items |-> WorthOf(S, at, items[i])] /\ col = PromoColumn
    OBVIOUS
  <2>2. \A i \in DOMAIN items : f[i] = TotalOf(ResolveLine(items[i], loaded, at, coupon), col)
    BY <1>1, <1>4, <1>7, <2>1
  <2>3. TotalOf(lines, col) = Sigma(f, DOMAIN items)
    BY <1>3, <2>1, <2>2, ColumnsAre
  <2> QED
    BY <2>1, <2>3 DEF WorthSum
<1> QED
  BY <1>3, <1>5, <1>6, <1>7

\* What is charged is what the totals of the lines add up to.
LEMMA ChargedIs ==
    ASSUME NEW lines \in Seq(SoundLines)
    PROVE  /\ Subtotal(lines) = TotalOf(lines, TotalColumn)
           /\ ManualSum(lines) = TotalOf(lines, ManualColumn)
           /\ \A i \in DOMAIN lines : lines[i].gift => LineTotal(lines[i]) = 0
<1>1. \A i \in DOMAIN lines : lines[i] \in SoundLines
  <2>1. DOMAIN lines = 1 .. Len(lines)
    OBVIOUS
  <2> QED
    BY <2>1, ElementIn
<1>2. [i \in DOMAIN lines |-> LineTotal(lines[i])] = [i \in DOMAIN lines |-> TotalColumn[lines[i]]]
  <2>1. \A i \in DOMAIN lines : TotalColumn[lines[i]] = LineTotal(lines[i])
    BY <1>1 DEF TotalColumn
  <2> QED
    BY <2>1
<1>3. [i \in DOMAIN lines |-> lines[i].manual] = [i \in DOMAIN lines |-> ManualColumn[lines[i]]]
  <2>1. \A i \in DOMAIN lines : ManualColumn[lines[i]] = lines[i].manual
    BY <1>1 DEF ManualColumn
  <2> QED
    BY <2>1
<1>4. Subtotal(lines) = Sigma([i \in DOMAIN lines |-> LineTotal(lines[i])], DOMAIN lines)
  BY DEF Subtotal, SumOver
<1> QED
  BY <1>1, <1>2, <1>3, <1>4 DEF TotalOf, SoundLines, ManualSum

\* What an answer to a cart accounts for.
Lossless(items, a, code, S, at) ==
    LET Units(s, p) == SumOver(s, {i \in DOMAIN s : s[i].product = p}, LAMBDA l : l.qty)
    IN  /\ \A p \in Products : Units(items, p) = Units(a.lines, p)
        /\ SumOver(items, DOMAIN items, Gross) =
             a.totals.subtotal + Reported(a) + SumOver(a.lines, DOMAIN a.lines, LAMBDA l : l.manual)
        /\ \A i \in DOMAIN a.lines : a.lines[i].gift => LineTotal(a.lines[i]) = 0
        /\ code = NoCode =>
             Reported(a) =
               SumOver(items, DOMAIN items, LAMBDA req :
                 PromoValue(WinnerOf(req, ValidOf(S, at), NoPromo), req))

\* In sums of its items and lines.
LEMMA LosslessIs ==
    ASSUME NEW items, NEW a, NEW code, NEW S, NEW at,
           \A p \in Products : UnitsSum(items, p) = UnitsSum(a.lines, p),
           GrossSum(items) = a.totals.subtotal + Reported(a) + ManualSum(a.lines),
           \A i \in DOMAIN a.lines : a.lines[i].gift => LineTotal(a.lines[i]) = 0,
           code = NoCode => Reported(a) = WorthSum(S, at, items)
    PROVE  Lossless(items, a, code, S, at)
<1>1. /\ \A p \in Products :
           Sigma([i \in DOMAIN items |-> items[i].qty], {i \in DOMAIN items : items[i].product = p}) =
             Sigma([i \in DOMAIN a.lines |-> a.lines[i].qty], {i \in DOMAIN a.lines : a.lines[i].product = p})
      /\ Sigma([i \in DOMAIN items |-> Gross(items[i])], DOMAIN items) =
           a.totals.subtotal + Reported(a) + Sigma([i \in DOMAIN a.lines |-> a.lines[i].manual], DOMAIN a.lines)
  BY DEF UnitsSum, GrossSum, ManualSum
<1>2. code = NoCode =>
        Reported(a) = Sigma([i \in DOMAIN items |->
                               PromoValue(WinnerOf(items[i], ValidOf(S, at), NoPromo), items[i])], DOMAIN items)
  BY DEF WorthSum, WorthOf
<1> QED
  BY <1>1, <1>2 DEF Lossless, SumOver

\* An answer accounts for every unit and every satang.
LEMMA LostFromInv == TillsInv => NothingLostInTheSplit
<1> SUFFICES ASSUME TillsInv, NEW w \in Answered
             PROVE  Lossless(session[w].cart.items, session[w].answer, session[w].cart.code,
                             session[w].seen, session[w].cart.at)
  BY DEF NothingLostInTheSplit, Lossless
<1>0. PICK cart, S, a, items, lines, at, code :
        /\ cart = session[w].cart /\ S = session[w].seen /\ a = session[w].answer
        /\ items = cart.items /\ lines = a.lines /\ at = cart.at /\ code = cart.code
  OBVIOUS
<1>1. w \in Workers /\ session[w].step = "answered" /\ a # NoAnswer
  BY <1>0 DEF Answered, AtStep
<1>2. cart \in Carts /\ Shown(S)
  BY <1>0, <1>1 DEF TillsInv, TillOK
<1>3. PICK loaded : a = PriceCart(cart, loaded) /\ Listed(loaded, S)
  BY <1>0, <1>1 DEF TillsInv, TillOK
<1>4. PICK c : c = CouponPromo(loaded, code, at)
  OBVIOUS
<1>5. /\ lines = CartLines(items, loaded, at, c)
      /\ a.applied = Applied(lines) /\ a.totals.subtotal = Subtotal(lines)
  BY <1>0, <1>1, <1>3, <1>4, PriceIs DEF CartLines
<1>6. IsCoupon(c, S, at) /\ (code = NoCode => c = NoPromo)
  <2>1. /\ IsCoupon(c, S, at)
        /\ IF NamedBy(S, code, at) = {} THEN c = NoPromo ELSE c \in NamedBy(S, code, at)
    BY <1>2, <1>3, <1>4, CouponIs
  <2>2. code = NoCode => NamedBy(S, code, at) = {}
    BY DEF NamedBy
  <2> QED
    BY <2>1, <2>2
<1>7. items \in Seq(Request)
  BY <1>0, <1>2, PromotionsAssumption DEF Cart
<1>8. /\ lines \in Seq(SoundLines)
      /\ \A p : UnitsSum(items, p) = UnitsSum(lines, p)
      /\ GrossSum(items) = TotalOf(lines, GrossColumn)
      /\ c = NoPromo => WorthSum(S, at, items) = TotalOf(lines, PromoColumn)
  BY <1>2, <1>3, <1>5, <1>6, <1>7, CartKeeps
<1>9. Reported(a) = TotalOf(lines, PromoColumn)
  BY <1>5, <1>8, ReportedIs
<1>10. /\ Subtotal(lines) = TotalOf(lines, TotalColumn)
       /\ ManualSum(lines) = TotalOf(lines, ManualColumn)
       /\ \A i \in DOMAIN lines : lines[i].gift => LineTotal(lines[i]) = 0
  BY <1>8, ChargedIs
<1>11. GrossSum(items) = a.totals.subtotal + Reported(a) + ManualSum(lines)
  <2>1. PICK t, m, o : t = TotalOf(lines, TotalColumn) /\ m = TotalOf(lines, ManualColumn)
                       /\ o = TotalOf(lines, PromoColumn)
    OBVIOUS
  <2>2. t \in Int /\ m \in Int /\ o \in Int /\ GrossSum(items) = t + m + o
    BY <1>8, <2>1, LinesBalance
  <2>3. a.totals.subtotal = t /\ Reported(a) = o /\ ManualSum(lines) = m
    BY <1>5, <1>9, <1>10, <2>1
  <2> QED
    BY <2>2, <2>3
<1>12. code = NoCode => Reported(a) = WorthSum(S, at, items)
  BY <1>6, <1>8, <1>9
<1>13. Lossless(items, a, code, S, at)
  <2>1. /\ \A p \in Products : UnitsSum(items, p) = UnitsSum(a.lines, p)
        /\ GrossSum(items) = a.totals.subtotal + Reported(a) + ManualSum(a.lines)
        /\ \A i \in DOMAIN a.lines : a.lines[i].gift => LineTotal(a.lines[i]) = 0
    BY <1>0, <1>8, <1>10, <1>11
  <2> QED
    BY <1>12, <2>1, LosslessIs
<1> QED
  BY <1>0, <1>13

\* Splitting a line loses no unit and no satang: what the items would cost is what is
\* charged before tax plus the discounts reported and the manual ones, a gift costs
\* nothing, and without a code the discounts are what the winners were ranked by.
THEOREM NothingIsLost == PromoSpec => []NothingLostInTheSplit
<1>1. PromoInit => TillsInv
  BY TillsStay
<1>2. TillsInv /\ [PromoNext]_promoVars => TillsInv'
  BY TillsStay
<1>3. TillsInv => NothingLostInTheSplit
  BY LostFromInv
<1> QED
  BY <1>1, <1>2, <1>3, PTL DEF PromoSpec
=============================================================================

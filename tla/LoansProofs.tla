---------------------------- MODULE LoansProofs ----------------------------
(***************************************************************************)
(* Theorems about Loans for any number of handlers, tenants, applications, *)
(* installments and any waiting times.                                     *)
(***************************************************************************)
EXTENDS Loans, DataTheorems

Steps == {"idle", "apply", "clock", "review", "number", "disburse", "pay", "settle"}
Requests ==
    [step : Steps, on : SUBSET Applications, seen : [Applications -> ApplicationRow],
     at : Nat, count : Nat, seq : 0 .. Term]

TypeOK ==
    /\ now \in Nat
    /\ app \in [Applications -> ApplicationRow]
    /\ log \in [Applications -> Seq(Event)]
    /\ account \in [Applications -> {"none", "active", "closed"}]
    /\ number \in [Applications -> Nat]
    /\ paid \in [Applications -> SUBSET (1 .. Term)]
    /\ lock \in [Rows -> Workers \cup {NoWorker}]
    /\ tx \in [Workers -> Requests]

\* The log is empty before apply, and tells of no move to no status.
LogOK ==
    \A a \in Applications :
        /\ app[a].status = "none" => log[a] = <<>>
        /\ \A k \in DOMAIN log[a] : log[a][k].to # "none"

\* A disbursal is logged once, if there is an account.
DisbursalsOK ==
    \A a \in Applications :
        IF account[a] = "none" THEN Logged(a, "disbursed") = {}
                               ELSE \E k \in DOMAIN log[a] : Logged(a, "disbursed") = {k}

Alone(a) == \A k \in 2 .. Len(log[a]) : log[a][k].by = "system"

\* Row r of application a has been in each stage for that stage's time.
OnTime(r, a) ==
    /\ r.created = app[a].created
    /\ r.started = r.created + WaitFor("submitted", Place(r.status) - 1)

\* Only one request is about to insert an application.
ApplyOK(w) ==
    At(w, "apply") => \A a \in tx[w].on :
        /\ app[a].status = "none"
        /\ \A v \in Workers \ {w} : At(v, "apply") => a \notin tx[v].on

\* The clock has read a row in review that a stage is over for.  If nobody but the
\* clock moves the application, that row was on time, however old it is by now.
ClockOK(w) ==
    At(w, "clock") => \A a \in tx[w].on :
        /\ app[a].status # "none"
        /\ tx[w].seen[a].status \in ReviewStages
        /\ Crossed(tx[w].seen[a], tx[w].at) > 0
        /\ ~tx[w].seen[a].hurried /\ Alone(a) => OnTime(tx[w].seen[a], a)

\* A champion and a disbursal hold the row, which is as they read it; a disbursal's
\* count of accounts may be too small by now, never too large.
PersonOK(w) ==
    tx[w].step \in {"review", "number", "disburse"} => \A a \in tx[w].on :
        /\ tx[w].on = {a}
        /\ lock[a] = w
        /\ app[a].status # "none"
        /\ tx[w].seen[a] = app[a]
        /\ tx[w].step \in {"number", "disburse"} => app[a].status = "approved"
        /\ At(w, "disburse") => tx[w].count <= Cardinality(Opened)

\* A payment that found nothing else unpaid is the last.
PayOK(w) ==
    tx[w].step \in {"pay", "settle"} => \A a \in tx[w].on :
        /\ tx[w].on = {a}
        /\ account[a] # "none"
        /\ tx[w].seq \in 1 .. Term
        /\ At(w, "settle") /\ tx[w].count = 0 => 1 .. Term \subseteq paid[a] \cup {tx[w].seq}

RequestOK(w) == ApplyOK(w) /\ ClockOK(w) /\ PersonOK(w) /\ PayOK(w)

\* The inductive invariant.
IInv ==
    /\ TypeOK
    /\ IsFiniteSet(Opened)
    /\ OneActiveAccount
    /\ ClosedMeansPaid
    /\ LogOK
    /\ DisbursalsOK
    /\ AccountsAreApproved
    /\ PeopleActOnTheLatest
    /\ ClockKeepsTime
    /\ \A w \in Workers : RequestOK(w)
-----------------------------------------------------------------------------
\* The stages and the time they take.

\* The five stages differ; the last one is no review stage.
LEMMA StageNames ==
    /\ ReviewStages = {"submitted", "doc_review", "collateral_check", "under_review"}
    /\ \A j, k \in 1 .. 5 : Stages[j] = Stages[k] => j = k
    /\ Stages[1] = "submitted" /\ Stages[5] = "approved"
  BY DEF ReviewStages, Stages

\* A stage's place is its index.
LEMMA PlaceOf == \A k \in 1 .. 5 : Place(Stages[k]) = k
  BY StageNames DEF Place

\* A stage under review leads to the next one or to rejection.
LEMMA InReview ==
    \A s \in ReviewStages :
        /\ Place(s) \in 1 .. 4 /\ Stages[Place(s)] = s
        /\ s \in Status \ {"none", "rejected", "disbursed", "approved"}
        /\ Allowed(s) = {Stages[Place(s) + 1], "rejected"}
<1> SUFFICES ASSUME NEW s \in ReviewStages
             PROVE  /\ Place(s) \in 1 .. 4 /\ Stages[Place(s)] = s
                    /\ s \in Status \ {"none", "rejected", "disbursed", "approved"}
                    /\ Allowed(s) = {Stages[Place(s) + 1], "rejected"}
  OBVIOUS
<1>1. PICK k \in 1 .. 4 : s = Stages[k]
  BY DEF ReviewStages
<1>2. Place(s) = k
  BY <1>1, PlaceOf
<1>3. s \in Status \ {"none", "rejected", "disbursed", "approved"}
  BY StageNames DEF Status, InFlight
<1> QED
  BY <1>1, <1>2, <1>3 DEF Allowed

\* A stage is a status.
LEMMA StageStatus ==
    \A k \in 1 .. 5 : /\ Stages[k] \in Status \ {"none", "rejected", "disbursed"}
                      /\ k < 5 => Stages[k] \in ReviewStages
<1> SUFFICES ASSUME NEW k \in 1 .. 5
             PROVE  /\ Stages[k] \in Status \ {"none", "rejected", "disbursed"}
                    /\ k < 5 => Stages[k] \in ReviewStages
  OBVIOUS
<1>1. CASE k < 5
  BY <1>1, InReview DEF ReviewStages
<1>2. CASE k = 5
  BY <1>2, StageNames DEF Status, InFlight
<1> QED
  BY <1>1, <1>2

\* The loop never leaves the last stage.
LEMMA CrossedType ==
    ASSUME NEW row, row.status \in ReviewStages, NEW t
    PROVE  Crossed(row, t) \in 0 .. 5 - Place(row.status)
<1> DEFINE last == IF AutoApprove THEN 4 ELSE 3
           n == last + 1 - Place(row.status)
           K == {k \in 1 .. n : row.started + WaitFor(row.status, k) <= t}
<1>1. Place(row.status) \in 1 .. 4
  BY InReview
<1>2. n \in 0 .. 5 - Place(row.status)
  BY <1>1
<1>3. Crossed(row, t) = Cardinality(K)
  BY DEF Crossed
<1> HIDE DEF n
<1>4. IsFiniteSet(1 .. n) /\ Cardinality(1 .. n) = n
  BY <1>1, <1>2, FS_Interval
<1>5. Cardinality(K) \in Nat /\ Cardinality(K) <= n
  <2>1. K \in SUBSET (1 .. n)
    OBVIOUS
  <2> HIDE DEF K
  <2> QED
    BY <1>4, <2>1, FS_Subset, FS_CardinalityType
<1> QED
  BY <1>1, <1>2, <1>3, <1>5

\* The time from the first stage on is the time to a stage and the time from there.
LEMMA WaitForAdds ==
    ASSUME NEW s \in ReviewStages, NEW n \in 0 .. 5 - Place(s)
    PROVE  /\ WaitFor(s, n) \in Int
           /\ WaitFor("submitted", Place(s) - 1) \in Int
           /\ WaitFor("submitted", Place(s) + n - 1)
                = WaitFor("submitted", Place(s) - 1) + WaitFor(s, n)
<1> DEFINE f == [i \in 1 .. 4 |-> Wait[Stages[i]]]
           p == Place(s)
           A == 1 .. 1 + (p - 1) - 1
           B == p .. p + n - 1
<1>1. p \in 1 .. 4 /\ Place("submitted") = 1 /\ n \in Nat /\ p + n <= 5
  BY InReview, PlaceOf, StageNames
<1>2. \A i \in 1 .. 4 : f[i] \in Int
  <2>1. \A i \in 1 .. 4 : Stages[i] \in ReviewStages
    BY StageStatus
  <2> QED
    BY <2>1, LoansAssumption
<1>3. /\ WaitFor(s, n) = Sigma(f, B)
      /\ WaitFor("submitted", p - 1) = Sigma(f, A)
      /\ WaitFor("submitted", p + n - 1) = Sigma(f, 1 .. 1 + (p + n - 1) - 1)
  BY <1>1 DEF WaitFor
<1> HIDE DEF f, p
<1>4. A \cap B = {} /\ A \cup B = 1 .. 1 + (p + n - 1) - 1 /\ A \cup B \subseteq 1 .. 4
  BY <1>1
<1>5. IsFiniteSet(A) /\ IsFiniteSet(B)
  <2>1. 1 + (p - 1) - 1 \in Int /\ p \in Int /\ p + n - 1 \in Int
    BY <1>1
  <2>2. \A i, j \in Int : IsFiniteSet(i .. j)
    BY FS_Interval
  <2> QED
    BY <2>1, <2>2
<1> HIDE DEF A, B
<1>6. \A x \in A \cup B : f[x] \in Int
  BY <1>2, <1>4
<1>7. Sigma(f, A) \in Int /\ Sigma(f, B) \in Int
  BY <1>5, <1>6, SigmaType
<1>8. Sigma(f, A \cup B) = Sigma(f, A) + Sigma(f, B)
  BY <1>4, <1>5, <1>6, SigmaUnion
<1> QED
  BY <1>3, <1>4, <1>7, <1>8 DEF p

\* The first stage starts at once.
LEMMA WaitForNothing == WaitFor("submitted", 0) = 0
<1>1. Place("submitted") .. Place("submitted") + 0 - 1 = {}
  BY PlaceOf, StageNames
<1> QED
  BY <1>1, SigmaEmpty DEF WaitFor
-----------------------------------------------------------------------------
\* What a request is, before and after.

\* A handler without a request.
LEMMA IdleRequest ==
    /\ Idle \in Requests
    /\ Idle.step = "idle" /\ Idle.on = {} /\ Idle.at = 0 /\ Idle.count = 0 /\ Idle.seq = 0
    /\ NoApplication \in ApplicationRow
    /\ NoApplication.status = "none" /\ NoApplication.hurried = FALSE
  BY LoansAssumption DEF Idle, Requests, Steps, ApplicationRow, NoApplication, Status

\* Only worker w's request changes.
LEMMA BecomesOne ==
    ASSUME tx \in [Workers -> Requests], NEW w \in Workers, NEW r \in Requests,
           Becomes(w, r)
    PROVE  /\ tx' \in [Workers -> Requests]
           /\ tx'[w] = r
           /\ \A v \in Workers \ {w} : tx'[v] = tx[v]
  BY DEF Becomes

\* The invariant holds at first.
LEMMA InitInv == Init => IInv
<1> SUFFICES ASSUME Init PROVE IInv
  OBVIOUS
<1> USE DEF Init
<1>1. TypeOK
  BY IdleRequest, LoansAssumption DEF TypeOK, Event
<1>2. Opened = {} /\ IsFiniteSet(Opened) /\ Cardinality(Opened) = 0
  BY FS_EmptySet DEF Opened
<1>3. OneActiveAccount
  <2>1. \A t : Active(t) = {}
    BY DEF Active
  <2>2. {number[a] : a \in Opened} = 1 .. Cardinality(Opened)
    BY <1>2
  <2>3. Cardinality({}) <= 1
    BY FS_EmptySet
  <2> QED
    BY <1>2, <2>1, <2>2, <2>3 DEF OneActiveAccount
<1>4. ClosedMeansPaid /\ LogOK
  BY DEF ClosedMeansPaid, LogOK
<1>5. DisbursalsOK /\ AccountsAreApproved
  <2>1. \A a \in Applications : Logged(a, "disbursed") = {}
    BY DEF Logged
  <2> QED
    BY <2>1, FS_EmptySet DEF DisbursalsOK, AccountsAreApproved
<1>6. PeopleActOnTheLatest /\ ClockKeepsTime
  BY IdleRequest DEF PeopleActOnTheLatest, ClockKeepsTime, InFlight, ReviewStages, Stages
<1>7. \A w \in Workers : RequestOK(w)
  BY IdleRequest DEF RequestOK, ApplyOK, ClockOK, PersonOK, PayOK, At
<1> QED
  BY <1>1, <1>2, <1>3, <1>4, <1>5, <1>6, <1>7 DEF IInv

\* The invariants of the tables rest on the tables.
LEMMA TablesOnly ==
    ASSUME UNCHANGED dbVars
    PROVE  /\ IsFiniteSet(Opened)' = IsFiniteSet(Opened)
           /\ OneActiveAccount' = OneActiveAccount
           /\ ClosedMeansPaid' = ClosedMeansPaid
           /\ LogOK' = LogOK
           /\ DisbursalsOK' = DisbursalsOK
           /\ AccountsAreApproved' = AccountsAreApproved
           /\ PeopleActOnTheLatest' = PeopleActOnTheLatest
           /\ ClockKeepsTime' = ClockKeepsTime
<1>0. UNCHANGED <<app, log, account, number, paid>>
  BY DEF dbVars
<1>1. Opened' = Opened /\ \A t : Active(t)' = Active(t)
  BY <1>0 DEF Opened, Active
<1>2. \A a, s : Logged(a, s)' = Logged(a, s)
  BY <1>0 DEF Logged
<1>3. IsFiniteSet(Opened)' = IsFiniteSet(Opened)
  BY <1>1
<1>4. OneActiveAccount' = OneActiveAccount
  BY <1>0, <1>1 DEF OneActiveAccount
<1>5. ClosedMeansPaid' = ClosedMeansPaid
  BY <1>0 DEF ClosedMeansPaid
<1>6. LogOK' = LogOK
  BY <1>0 DEF LogOK
<1>7. DisbursalsOK' = DisbursalsOK
  BY <1>0, <1>2 DEF DisbursalsOK
<1>8. AccountsAreApproved' = AccountsAreApproved
  BY <1>0, <1>2 DEF AccountsAreApproved
<1>9. PeopleActOnTheLatest' = PeopleActOnTheLatest
  BY <1>0 DEF PeopleActOnTheLatest
<1>10. ClockKeepsTime' = ClockKeepsTime
  BY <1>0 DEF ClockKeepsTime
<1> QED
  BY <1>3, <1>4, <1>5, <1>6, <1>7, <1>8, <1>9, <1>10

\* A request stays in order while others move: rows are never deleted, the log and
\* the payments only grow, and a row that is locked stays as it is.
LEMMA OtherRequest ==
    ASSUME NEW v \in Workers, RequestOK(v), tx[v] \in Requests, tx'[v] = tx[v],
           \A a \in Applications :
             lock[a] = v /\ app[a].status # "none" => lock'[a] = v /\ app'[a] = app[a],
           Cardinality(Opened) \in Nat, Cardinality(Opened)' \in Nat,
           Cardinality(Opened) <= Cardinality(Opened)',
           \A a \in tx[v].on :
             /\ At(v, "apply") => /\ app'[a].status = "none"
                                  /\ \A u \in Workers \ {v} : At(u, "apply")' => a \notin tx'[u].on
             /\ app[a].status # "none" => app'[a].status # "none"
                                          /\ app'[a].created = app[a].created
             /\ account[a] # "none" => account'[a] # "none"
             /\ paid[a] \subseteq paid'[a]
             /\ Alone(a)' => Alone(a)
    PROVE  RequestOK(v)'
<1>0. tx[v].on \subseteq Applications /\ tx[v].count \in Nat
  BY DEF Requests
<1>1. ApplyOK(v)'
  BY DEF RequestOK, ApplyOK, At
<1>2. ClockOK(v)'
  <2> SUFFICES ASSUME At(v, "clock"), NEW a \in tx[v].on
               PROVE  /\ app'[a].status # "none"
                      /\ tx[v].seen[a].status \in ReviewStages
                      /\ Crossed(tx[v].seen[a], tx[v].at) > 0
                      /\ ~tx[v].seen[a].hurried /\ Alone(a)' => OnTime(tx[v].seen[a], a)'
    BY DEF ClockOK, At, OnTime
  <2> QED
    BY DEF RequestOK, ClockOK, OnTime
<1>3. PersonOK(v)'
  BY <1>0 DEF RequestOK, PersonOK, At
<1>4. PayOK(v)'
  BY DEF RequestOK, PayOK, At
<1> QED
  BY <1>1, <1>2, <1>3, <1>4 DEF RequestOK

\* A step that leaves the tables alone.
LEMMA PrivateStep ==
    ASSUME IInv, NEW w \in Workers, NEW r \in Requests, Becomes(w, r),
           UNCHANGED dbVars, now' \in Nat,
           \/ lock' = lock
           \/ \E row \in Rows : TakeRow(w, row)
           \/ ReleaseRows(w),
           \A v \in Workers \ {w} : \A a \in tx[v].on :
               At(v, "apply") /\ r.step = "apply" => a \notin r.on,
           RequestOK(w)'
    PROVE  IInv'
<1> USE DEF IInv
<1>1. /\ tx' \in [Workers -> Requests]
      /\ tx'[w] = r
      /\ \A v \in Workers \ {w} : tx'[v] = tx[v]
  BY BecomesOne DEF TypeOK
<1>2. /\ lock' \in [Rows -> Workers \cup {NoWorker}]
      /\ \A v \in Workers \ {w} : \A row \in Rows : lock[row] = v => lock'[row] = v
  BY LoansAssumption DEF TypeOK, TakeRow, ReleaseRows
<1>3. TypeOK'
  BY <1>1, <1>2 DEF TypeOK, dbVars
<1>4. ASSUME NEW v \in Workers \ {w} PROVE RequestOK(v)'
  <2>1. RequestOK(v) /\ tx[v] \in Requests
    BY DEF TypeOK
  <2>2. Opened' = Opened /\ Cardinality(Opened) \in Nat
    BY FS_CardinalityType DEF dbVars, Opened
  <2>3. \A a \in tx[v].on : At(v, "apply") =>
             /\ app'[a].status = "none"
             /\ \A u \in Workers \ {v} : At(u, "apply")' => a \notin tx'[u].on
    BY <1>1, <2>1 DEF RequestOK, ApplyOK, At, dbVars
  <2>4. \A a : Alone(a)' => Alone(a)
    BY DEF Alone, dbVars
  <2>5. \A a \in Applications : lock[a] = v => lock'[a] = v
    BY <1>2 DEF Rows
  <2> QED
    BY <1>1, <2>1, <2>2, <2>3, <2>4, <2>5, OtherRequest DEF dbVars
<1> QED
  BY <1>3, <1>4, TablesOnly

\* A request that ends: nothing is in hand.
LEMMA FinishedRequest ==
    ASSUME IInv, NEW w \in Workers, Becomes(w, Idle)
    PROVE  /\ tx' \in [Workers -> Requests]
           /\ tx'[w] = Idle
           /\ \A v \in Workers \ {w} : tx'[v] = tx[v]
           /\ RequestOK(w)'
<1>1. /\ tx' \in [Workers -> Requests]
      /\ tx'[w] = Idle
      /\ \A v \in Workers \ {w} : tx'[v] = tx[v]
  BY BecomesOne, IdleRequest DEF IInv, TypeOK
<1> QED
  BY <1>1, IdleRequest DEF RequestOK, ApplyOK, ClockOK, PersonOK, PayOK, At

\* A request that ends without a commit.
LEMMA EndStep ==
    ASSUME IInv, NEW w \in Workers, Finish(w), UNCHANGED dbVars, now' \in Nat
    PROVE  IInv'
  BY IdleRequest, FinishedRequest, PrivateStep DEF Finish
-----------------------------------------------------------------------------
\* One lemma per action: first those that leave the tables alone.

\* Tick keeps the invariant.
LEMMA TickInv ==
    ASSUME IInv, Tick
    PROVE  IInv'
<1> USE DEF IInv
<1>1. now' \in Nat
  <2> DEFINE T == {t \in Moments : t > now}
  <2>1. T \in SUBSET Nat /\ T # {} /\ now' = Min(T)
    BY LoansAssumption DEF Tick
  <2> HIDE DEF T
  <2> QED
    BY <2>1, MinOfNat
<1>2. UNCHANGED <<dbVars, lock, tx>>
  BY DEF Tick
<1>3. TypeOK'
  BY <1>1, <1>2 DEF TypeOK, dbVars
<1>4. ASSUME NEW v \in Workers PROVE RequestOK(v)'
  <2>1. RequestOK(v) /\ tx[v] \in Requests
    BY DEF TypeOK
  <2>2. Opened' = Opened /\ Cardinality(Opened) \in Nat
    BY <1>2, FS_CardinalityType DEF dbVars, Opened
  <2>3. \A a \in tx[v].on : At(v, "apply") =>
             /\ app'[a].status = "none"
             /\ \A u \in Workers \ {v} : At(u, "apply")' => a \notin tx'[u].on
    BY <1>2, <2>1 DEF RequestOK, ApplyOK, At, dbVars
  <2>4. \A a : Alone(a)' => Alone(a)
    BY <1>2 DEF Alone, dbVars
  <2> QED
    BY <1>2, <2>1, <2>2, <2>3, <2>4, OtherRequest DEF dbVars
<1> QED
  BY <1>2, <1>3, <1>4, TablesOnly

\* Apply keeps the invariant.
LEMMA ApplyInv ==
    ASSUME IInv, NEW w \in Workers, NEW a \in Applications, Apply(w, a)
    PROVE  IInv'
<1> DEFINE r == [Idle EXCEPT !.step = "apply", !.on = {a}, !.at = now]
<1>1. now \in Nat
  BY DEF IInv, TypeOK
<1>2. r \in Requests /\ r.step = "apply" /\ r.on = {a}
  BY <1>1, IdleRequest DEF Requests, Steps
<1>3. Becomes(w, r) /\ UNCHANGED <<now, dbVars, lock>>
  BY DEF Apply
<1> HIDE DEF r
<1>4. tx'[w] = r /\ \A v \in Workers \ {w} : tx'[v] = tx[v]
  BY <1>2, <1>3, BecomesOne DEF IInv, TypeOK
<1>5. RequestOK(w)'
  BY <1>2, <1>3, <1>4 DEF Apply, RequestOK, ApplyOK, ClockOK, PersonOK, PayOK, At, dbVars
<1>6. \A v \in Workers \ {w} : \A b \in tx[v].on : At(v, "apply") => b \notin r.on
  BY <1>2 DEF Apply
<1> QED
  BY <1>1, <1>2, <1>3, <1>5, <1>6, PrivateStep

\* The clock has read rows of S, each of which it will move on.
LEMMA ClockStep ==
    ASSUME IInv, NEW w \in Workers, NEW S \in SUBSET Applications,
           NEW seen \in [Applications -> ApplicationRow],
           Becomes(w, [Idle EXCEPT !.step = "clock", !.on = S, !.seen = seen, !.at = now]),
           UNCHANGED <<now, dbVars, lock>>,
           \A a \in S : /\ app[a].status # "none"
                        /\ seen[a].status \in ReviewStages
                        /\ Crossed(seen[a], now) > 0
                        /\ seen[a].hurried \/ seen[a] = app[a]
    PROVE  IInv'
<1> USE DEF IInv
<1> DEFINE r == [Idle EXCEPT !.step = "clock", !.on = S, !.seen = seen, !.at = now]
<1>1. now \in Nat
  BY DEF TypeOK
<1>2. r \in Requests /\ r.step = "clock" /\ r.on = S /\ r.seen = seen /\ r.at = now
  BY <1>1, IdleRequest DEF Requests, Steps
<1>3. Becomes(w, r)
  OBVIOUS
<1> HIDE DEF r
<1>4. tx'[w] = r
  BY <1>2, <1>3, BecomesOne DEF TypeOK
<1>5. ASSUME NEW a \in S, ~seen[a].hurried, Alone(a) PROVE OnTime(seen[a], a)
  <2>1. seen[a] = app[a] /\ app[a].status \in InFlight
    BY <1>5 DEF InFlight
  <2>2. app[a].started = app[a].created + WaitFor("submitted", Place(app[a].status) - 1)
    BY <1>5, <2>1 DEF ClockKeepsTime, Alone
  <2> QED
    BY <2>1, <2>2 DEF OnTime
<1>6. ClockOK(w)'
  <2> SUFFICES ASSUME NEW a \in S
               PROVE  /\ app[a].status # "none"
                      /\ seen[a].status \in ReviewStages
                      /\ Crossed(seen[a], now) > 0
                      /\ ~seen[a].hurried /\ Alone(a)' => OnTime(seen[a], a)'
    BY <1>2, <1>4 DEF ClockOK, At, OnTime, dbVars
  <2>1. (Alone(a)' => Alone(a)) /\ (OnTime(seen[a], a) => OnTime(seen[a], a)')
    BY DEF Alone, OnTime, dbVars
  <2> QED
    BY <1>5, <2>1
<1>7. RequestOK(w)'
  BY <1>2, <1>4, <1>6 DEF RequestOK, ApplyOK, PersonOK, PayOK, At
<1> QED
  BY <1>1, <1>2, <1>3, <1>7, PrivateStep

\* View keeps the invariant.
LEMMA ViewInv ==
    ASSUME IInv, NEW w \in Workers, NEW S \in Views, View(w, S)
    PROVE  IInv'
<1> DEFINE due == {a \in S : Crossed(app[a], now) > 0}
<1>1. S \subseteq Applications
  BY DEF Views, Of
<1>2. Seen(due) \in [Applications -> ApplicationRow]
  BY IdleRequest DEF Seen, IInv, TypeOK
<1>3. ASSUME NEW a \in due
      PROVE  /\ app[a].status # "none" /\ Seen(due)[a] = app[a]
             /\ app[a].status \in ReviewStages /\ Crossed(app[a], now) > 0
  <2>1. app[a].status \in ReviewStages
    BY DEF Crossed
  <2> QED
    BY <1>1, <2>1, InReview DEF Seen
<1> QED
  BY <1>1, <1>2, <1>3, ClockStep DEF View

\* FastForward keeps the invariant.
LEMMA FastForwardInv ==
    ASSUME IInv, NEW w \in Workers, NEW a \in Applications, FastForward(w, a)
    PROVE  IInv'
<1> DEFINE h == Hurried(Seen({a})[a])
           seen == [Seen({a}) EXCEPT ![a] = h]
<1>1. app[a] \in ApplicationRow /\ app[a].status \in ReviewStages /\ now \in Nat
  BY DEF FastForward, IInv, TypeOK
<1>2. Seen({a}) \in [Applications -> ApplicationRow] /\ Seen({a})[a] = app[a]
  BY IdleRequest DEF Seen, IInv, TypeOK
<1>3. h \in ApplicationRow /\ h.status = app[a].status /\ h.hurried
  <2> DEFINE n == now - Wait[app[a].status]
  <2>1. n \in Int
    BY <1>1, LoansAssumption
  <2>2. h = [app[a] EXCEPT !.started = n, !.hurried = TRUE]
    BY <1>2 DEF Hurried
  <2> HIDE DEF n, h
  <2> QED
    BY <1>1, <2>1, <2>2 DEF ApplicationRow
<1>4. /\ Crossed(seen[a], now) > 0
      /\ Becomes(w, [Idle EXCEPT !.step = "clock", !.on = {a}, !.seen = seen, !.at = now])
      /\ UNCHANGED <<now, dbVars, lock>>
  BY DEF FastForward
<1> HIDE DEF h
<1>5. seen \in [Applications -> ApplicationRow] /\ seen[a] = h
  BY <1>2, <1>3
<1> HIDE DEF seen
<1>6. app[a].status # "none"
  BY <1>1, InReview
<1>7. \A b \in {a} : /\ app[b].status # "none"
                     /\ seen[b].status \in ReviewStages
                     /\ Crossed(seen[b], now) > 0
                     /\ seen[b].hurried \/ seen[b] = app[b]
  BY <1>1, <1>3, <1>4, <1>5, <1>6
<1>8. {a} \in SUBSET Applications
  OBVIOUS
<1> QED
  BY <1>4, <1>5, <1>7, <1>8, ClockStep

\* A champion or a disbursal has the row of a, and nobody else has.
LEMMA PersonStep ==
    ASSUME IInv, NEW w \in Workers, NEW a \in Applications, NEW r \in Requests, Becomes(w, r),
           UNCHANGED <<now, dbVars>>, TakeRow(w, a),
           r.step \in {"review", "number"}, r.on = {a}, r.seen = Seen({a}),
           app[a].status # "none", r.step = "number" => app[a].status = "approved"
    PROVE  IInv'
<1>1. tx'[w] = r /\ now \in Nat
  BY BecomesOne DEF IInv, TypeOK
<1>2. lock'[a] = w
  BY DEF TakeRow, IInv, TypeOK, Rows
<1>4. PersonOK(w)'
  BY <1>1, <1>2 DEF PersonOK, At, Seen, dbVars
<1>5. RequestOK(w)'
  BY <1>1, <1>4 DEF RequestOK, ApplyOK, ClockOK, PayOK, At
<1> QED
  BY <1>1, <1>5, PrivateStep DEF Rows

\* LoadForUpdate keeps the invariant.
LEMMA LoadForUpdateInv ==
    ASSUME IInv, NEW w \in Workers, NEW a \in Applications, LoadForUpdate(w, a)
    PROVE  IInv'
<1> DEFINE r == [Idle EXCEPT !.step = "review", !.on = {a}, !.seen = Seen({a}), !.at = now]
<1>1. Seen({a}) \in [Applications -> ApplicationRow] /\ now \in Nat
  BY IdleRequest DEF Seen, IInv, TypeOK
<1>2. r \in Requests /\ r.step = "review" /\ r.on = {a} /\ r.seen = Seen({a})
  BY <1>1, IdleRequest DEF Requests, Steps
<1>3. Becomes(w, r) /\ TakeRow(w, a) /\ app[a].status # "none" /\ UNCHANGED <<now, dbVars>>
  BY DEF LoadForUpdate
<1> HIDE DEF r
<1> QED
  BY <1>2, <1>3, PersonStep

\* Disburse keeps the invariant.
LEMMA DisburseInv ==
    ASSUME IInv, NEW w \in Workers, NEW a \in Applications, Disburse(w, a)
    PROVE  IInv'
<1> DEFINE r == [Idle EXCEPT !.step = "number", !.on = {a}, !.seen = Seen({a}), !.at = now]
<1>1. Seen({a}) \in [Applications -> ApplicationRow] /\ now \in Nat
  BY IdleRequest DEF Seen, IInv, TypeOK
<1>2. r \in Requests /\ r.step = "number" /\ r.on = {a} /\ r.seen = Seen({a})
  BY <1>1, IdleRequest DEF Requests, Steps
<1>3. Becomes(w, r) /\ TakeRow(w, a) /\ app[a].status = "approved" /\ UNCHANGED <<now, dbVars>>
  BY DEF Disburse
<1> HIDE DEF r
<1> QED
  BY <1>1, <1>2, <1>3, PersonStep

\* CountAccounts keeps the invariant.
LEMMA CountAccountsInv ==
    ASSUME IInv, NEW w \in Workers, CountAccounts(w)
    PROVE  IInv'
<1>1. PICK n, r : n = Cardinality(Opened) /\ r = [tx[w] EXCEPT !.step = "disburse", !.count = n]
  OBVIOUS
<1>2. /\ tx[w] \in Requests /\ tx[w].step = "number" /\ UNCHANGED <<now, dbVars, lock>>
      /\ Becomes(w, r) /\ now \in Nat
  BY <1>1 DEF CountAccounts, At, IInv, TypeOK
<1>3. n \in Nat /\ Opened' = Opened
  BY <1>1, <1>2, FS_CardinalityType DEF IInv, Opened, dbVars
<1>4. /\ r \in Requests /\ r.step = "disburse" /\ r.on = tx[w].on /\ r.seen = tx[w].seen
      /\ r.count = n
  BY <1>1, <1>2, <1>3 DEF Requests, Steps
<1>5. tx'[w] = r
  BY <1>2, <1>4, BecomesOne DEF IInv, TypeOK
<1>6. PersonOK(w)
  BY DEF IInv, RequestOK
<1>7. n <= n
  BY <1>3
<1>8. PersonOK(w)'
  BY <1>1, <1>2, <1>3, <1>4, <1>5, <1>6, <1>7 DEF PersonOK, At, dbVars
<1>9. RequestOK(w)'
  BY <1>4, <1>5, <1>8 DEF RequestOK, ApplyOK, ClockOK, PayOK, At
<1> QED
  BY <1>2, <1>4, <1>9, PrivateStep

\* ReadInstallment keeps the invariant.
LEMMA ReadInstallmentInv ==
    ASSUME IInv, NEW w \in Workers, NEW a \in Applications, NEW k \in 1 .. Term,
           ReadInstallment(w, a, k)
    PROVE  IInv'
<1> DEFINE r == [Idle EXCEPT !.step = "pay", !.on = {a}, !.seq = k]
<1>1. k \in 0 .. Term /\ now \in Nat
  BY LoansAssumption DEF IInv, TypeOK
<1>2. r \in Requests /\ r.step = "pay" /\ r.on = {a} /\ r.seq = k
  BY <1>1, IdleRequest DEF Requests, Steps
<1>3. Becomes(w, r) /\ account[a] # "none" /\ UNCHANGED <<now, dbVars, lock>>
  BY DEF ReadInstallment
<1> HIDE DEF r
<1>4. tx'[w] = r
  BY <1>2, <1>3, BecomesOne DEF IInv, TypeOK
<1>5. RequestOK(w)'
  BY <1>2, <1>3, <1>4 DEF RequestOK, ApplyOK, ClockOK, PersonOK, PayOK, At, dbVars
<1> QED
  BY <1>1, <1>2, <1>3, <1>5, PrivateStep

\* CountUnpaid keeps the invariant.
LEMMA CountUnpaidInv ==
    ASSUME IInv, NEW w \in Workers, CountUnpaid(w)
    PROVE  IInv'
<1>1. PICK a \in tx[w].on :
        /\ TakeRow(w, <<a, tx[w].seq>>)
        /\ Becomes(w, [tx[w] EXCEPT !.step = "settle", !.count = Cardinality(Unpaid(w, a))])
  BY DEF CountUnpaid
<1> DEFINE n == Cardinality(Unpaid(w, a))
           r == [tx[w] EXCEPT !.step = "settle", !.count = n]
<1>2. /\ tx[w] \in Requests /\ tx[w].step = "pay" /\ a \in Applications
      /\ tx[w].on = {a} /\ account[a] # "none" /\ tx[w].seq \in 1 .. Term
      /\ UNCHANGED <<now, dbVars>> /\ now \in Nat
  BY <1>1 DEF CountUnpaid, At, IInv, TypeOK, RequestOK, PayOK, Requests
<1>3. IsFiniteSet(Unpaid(w, a))
  <2>1. IsFiniteSet(1 .. Term)
    BY LoansAssumption, FS_Interval
  <2> QED
    BY <2>1, FS_Subset DEF Unpaid
<1>4. n \in Nat /\ (n = 0 => Unpaid(w, a) = {})
  BY <1>3, FS_CardinalityType, FS_EmptySet
<1> HIDE DEF n
<1>5. /\ r \in Requests /\ r.step = "settle" /\ r.on = {a} /\ r.seq = tx[w].seq
      /\ r.count = n
  BY <1>2, <1>4 DEF Requests, Steps
<1> HIDE DEF r
<1>6. tx'[w] = r
  BY <1>1, <1>5, BecomesOne DEF IInv, TypeOK, r, n
<1>7. n = 0 => 1 .. Term \subseteq paid[a] \cup {tx[w].seq}
  BY <1>4 DEF Unpaid
<1>8. PayOK(w)'
  BY <1>2, <1>5, <1>6, <1>7 DEF PayOK, At, dbVars
<1>9. RequestOK(w)'
  BY <1>5, <1>6, <1>8 DEF RequestOK, ApplyOK, ClockOK, PersonOK, At
<1>10. <<a, tx[w].seq>> \in Rows
  BY <1>2 DEF Rows, Installments
<1> QED
  BY <1>1, <1>2, <1>5, <1>9, <1>10, PrivateStep DEF r, n
-----------------------------------------------------------------------------
\* What a move does to the log, and to the requests of others.

\* The move from f to s is allowed.
MayMove(f, s) == s \in Allowed(f) \/ <<f, s>> = <<"approved", "disbursed">>

\* A row moves on, with events that each tell of an allowed move, the first of them
\* from where the application is unless it is the clock's.
LEMMA Moved ==
    ASSUME IInv, NEW a \in Applications, NEW row \in ApplicationRow,
           NEW events \in Seq(Event), Len(events) > 0, Move(a, row, events),
           row.status = events[Len(events)].to,
           \A k \in 1 .. Len(events) :
             /\ events[k].to # "none"
             /\ k > 1 \/ app[a].status # "none" => MayMove(events[k].from, events[k].to)
             /\ events[k].by = "system" \/ (k = 1 /\ events[1].from = app[a].status),
           row.status \in InFlight /\ ~row.hurried /\ Alone(a)' =>
             row.started = row.created + WaitFor("submitted", Place(row.status) - 1)
    PROVE  /\ app' \in [Applications -> ApplicationRow] /\ app'[a] = row
           /\ log' \in [Applications -> Seq(Event)] /\ log'[a] = log[a] \o events
           /\ \A b \in Applications \ {a} : app'[b] = app[b] /\ log'[b] = log[b]
           /\ LogOK' /\ PeopleActOnTheLatest' /\ ClockKeepsTime'
           /\ \A b \in Applications : Alone(b)' => Alone(b)
<1> USE DEF IInv
<1> DEFINE e == log[a] \o events
           n == Len(log[a])
           m == Len(events)
<1>1. /\ app' \in [Applications -> ApplicationRow] /\ app'[a] = row
      /\ \A b \in Applications \ {a} : app'[b] = app[b] /\ log'[b] = log[b]
      /\ log' = [log EXCEPT ![a] = e]
  BY DEF Move, TypeOK
<1>2. /\ e \in Seq(Event)
      /\ n \in Nat /\ m \in Nat
      /\ Len(e) = n + m
      /\ DOMAIN e = 1 .. (n + m)
      /\ DOMAIN log[a] = 1 .. n
      /\ \A k \in 1 .. n : e[k] = log[a][k]
      /\ \A k \in 1 .. m : e[n + k] = events[k]
  <2>1. log[a] \in Seq(Event)
    BY DEF TypeOK
  <2> QED
    BY <2>1, Appended
<1>3. log' \in [Applications -> Seq(Event)] /\ log'[a] = e
  BY <1>1, <1>2 DEF TypeOK
<1> HIDE DEF e, n, m
<1>4. \A k \in 1 .. (n + m) : k <= n \/ (k - n \in 1 .. m /\ e[k] = events[k - n])
  <2> TAKE k \in 1 .. (n + m)
  <2>1. CASE k > n
    <3>1. k - n \in 1 .. m /\ k = n + (k - n)
      BY <1>2, <2>1
    <3> QED
      BY <1>2, <3>1
  <2> QED
    BY <1>2, <2>1
<1>5. /\ m > 0 /\ row.status = events[m].to
      /\ \A k \in 1 .. m :
           /\ events[k].to # "none"
           /\ k > 1 \/ app[a].status # "none" => MayMove(events[k].from, events[k].to)
           /\ events[k].by = "system" \/ (k = 1 /\ events[1].from = app[a].status)
  BY DEF m
<1>6. e # <<>> /\ Last(e) = events[m] /\ row.status # "none"
  <2>1. e[n + m] = events[m] /\ m \in 1 .. m
    BY <1>2, <1>5
  <2> QED
    BY <1>2, <1>5, <2>1 DEF Last
<1>7. LogOK'
  <2> SUFFICES ASSUME NEW b \in Applications
               PROVE  /\ app'[b].status = "none" => log'[b] = <<>>
                      /\ \A k \in DOMAIN log'[b] : log'[b][k].to # "none"
    BY DEF LogOK
  <2>1. CASE b = a
    <3>1. \A k \in 1 .. (n + m) : e[k].to # "none"
      <4> TAKE k \in 1 .. (n + m)
      <4>1. CASE k <= n
        <5>1. n \in Nat /\ m \in Nat
          BY <1>2
        <5>2. k \in 1 .. n
          BY <4>1, <5>1
        <5> QED
          BY <1>2, <5>2 DEF LogOK
      <4>2. CASE ~(k <= n)
        <5>1. k - n \in 1 .. m /\ e[k] = events[k - n]
          BY <1>4, <4>2
        <5> QED
          BY <1>5, <5>1
      <4> QED
        BY <4>1, <4>2
    <3> QED
      BY <1>1, <1>2, <1>3, <1>6, <2>1, <3>1
  <2>2. CASE b # a
    BY <1>1, <2>2 DEF LogOK
  <2> QED
    BY <2>1, <2>2
<1>8. \A b \in Applications : Alone(b)' => Alone(b)
  <2> SUFFICES ASSUME NEW b \in Applications, Alone(b)' PROVE Alone(b)
    OBVIOUS
  <2>1. CASE b = a
    <3>1. \A k \in 2 .. (n + m) : e[k].by = "system"
      BY <1>2, <1>3, <2>1 DEF Alone
    <3>2. \A k \in 2 .. n : log[a][k].by = "system"
      BY <1>2, <3>1
    <3> QED
      BY <2>1, <3>2 DEF Alone, n
  <2>2. CASE b # a
    BY <1>1, <2>2 DEF Alone
  <2> QED
    BY <2>1, <2>2
<1>9. PeopleActOnTheLatest'
  <2> DEFINE OK(s) == \A k \in 2 .. Len(s) :
                        /\ MayMove(s[k].from, s[k].to)
                        /\ s[k].from = s[k - 1].to \/ s[k].by = "system"
             Tells(r, s) == r.status = IF s = <<>> THEN "none" ELSE Last(s).to
  <2>1. \A b \in Applications : Tells(app[b], log[b]) /\ OK(log[b])
    BY DEF PeopleActOnTheLatest, MayMove
  <2>2. OK(e)
    <3> SUFFICES ASSUME NEW k \in 2 .. (n + m)
                 PROVE  /\ MayMove(e[k].from, e[k].to)
                        /\ e[k].from = e[k - 1].to \/ e[k].by = "system"
      BY <1>2
    <3>1. CASE k <= n
      <4>1. e[k] = log[a][k] /\ e[k - 1] = log[a][k - 1] /\ k \in 2 .. Len(log[a])
        BY <1>2, <3>1 DEF n
      <4> QED
        BY <2>1, <4>1
    <3>2. CASE k > n
      <4>1. k - n \in 1 .. m /\ e[k] = events[k - n]
        BY <1>2, <1>4, <3>2
      <4>2. CASE k - n > 1
        BY <1>5, <4>1, <4>2
      <4>3. CASE k - n = 1
        <5>0. k - 1 = n /\ n \in 1 .. n
          BY <1>2, <4>3
        <5>1. n >= 1 /\ e[k - 1] = log[a][n]
          BY <1>2, <5>0
        <5>2. log[a] # <<>>
          BY <5>1 DEF n
        <5>3. app[a].status = log[a][n].to /\ app[a].status # "none"
          BY <2>1, <5>2 DEF Last, LogOK, n
        <5> QED
          BY <1>5, <4>1, <4>3, <5>1, <5>3
      <4> QED
        BY <1>2, <4>1, <4>2, <4>3
    <3> QED
      BY <1>2, <3>1, <3>2
  <2>3. Tells(row, e)
    BY <1>5, <1>6
  <2>4. \A b \in Applications : Tells(app'[b], log'[b]) /\ OK(log'[b])
    <3> HIDE DEF OK, Tells
    <3> QED
      BY <1>1, <1>3, <2>1, <2>2, <2>3
  <2> QED
    BY <2>4 DEF PeopleActOnTheLatest, MayMove
<1>10. ClockKeepsTime'
  <2> DEFINE InTime(r) == r.started = r.created + WaitFor("submitted", Place(r.status) - 1)
  <2>1. \A b \in Applications : app[b].status \in InFlight /\ ~app[b].hurried /\ Alone(b)
                                => InTime(app[b])
    BY DEF ClockKeepsTime, Alone
  <2>2. \A b \in Applications : app'[b].status \in InFlight /\ ~app'[b].hurried /\ Alone(b)'
                                => InTime(app'[b])
    <3>1. row.status \in InFlight /\ ~row.hurried /\ Alone(a)' => InTime(row)
      OBVIOUS
    <3> HIDE DEF InTime
    <3> QED
      BY <1>1, <1>8, <2>1, <3>1
  <2> QED
    BY <2>2 DEF ClockKeepsTime, Alone
<1> QED
  BY <1>1, <1>3, <1>7, <1>8, <1>9, <1>10 DEF e

\* A move that is no disbursal leaves the accounts as approved as they were.
LEMMA NoDisbursal ==
    ASSUME IInv, NEW a \in Applications, NEW events \in Seq(Event),
           log'[a] = log[a] \o events, account' = account,
           \A b \in Applications \ {a} : log'[b] = log[b],
           \A k \in 1 .. Len(events) : events[k].to # "disbursed"
    PROVE  DisbursalsOK' /\ AccountsAreApproved'
<1> USE DEF IInv
<1>1. log[a] \in Seq(Event)
  BY DEF TypeOK
<1>2. /\ Len(log[a]) \in Nat /\ Len(events) \in Nat
      /\ DOMAIN log'[a] = 1 .. (Len(log[a]) + Len(events)) /\ DOMAIN log[a] = 1 .. Len(log[a])
      /\ \A k \in 1 .. Len(log[a]) : log'[a][k] = log[a][k]
      /\ \A k \in 1 .. Len(events) : log'[a][Len(log[a]) + k] = events[k]
  BY <1>1, Appended
<1>3. \A k \in DOMAIN log'[a] :
        k \in DOMAIN log[a] \/ log'[a][k].to # "disbursed"
  <2> SUFFICES ASSUME NEW k \in DOMAIN log'[a], k \notin DOMAIN log[a]
               PROVE  log'[a][k].to # "disbursed"
    OBVIOUS
  <2>1. k - Len(log[a]) \in 1 .. Len(events) /\ k = Len(log[a]) + (k - Len(log[a]))
    BY <1>2
  <2> QED
    BY <1>2, <2>1
<1>4. Logged(a, "disbursed")' = Logged(a, "disbursed")
  BY <1>2, <1>3 DEF Logged
<1>5. Logged(a, "approved") \subseteq Logged(a, "approved")'
  BY <1>2 DEF Logged
<1>6. \A b \in Applications \ {a} : \A s : Logged(b, s)' = Logged(b, s)
  BY DEF Logged
<1>7. \A b \in Applications : /\ Logged(b, "disbursed")' = Logged(b, "disbursed")
                              /\ Logged(b, "approved") \subseteq Logged(b, "approved")'
  BY <1>4, <1>5, <1>6
<1>8. \A b \in Applications : DOMAIN log[b] \subseteq DOMAIN log'[b]
  BY <1>2
<1>9. DisbursalsOK'
  <2> SUFFICES ASSUME NEW b \in Applications
               PROVE  IF account[b] = "none" THEN Logged(b, "disbursed")' = {}
                      ELSE \E k \in DOMAIN log'[b] : Logged(b, "disbursed")' = {k}
    BY DEF DisbursalsOK
  <2> QED
    BY <1>7, <1>8 DEF DisbursalsOK
<1>10. AccountsAreApproved'
  BY <1>7 DEF AccountsAreApproved
<1> QED
  BY <1>9, <1>10

\* The requests of the others go on, if a row that changes is one that nobody else
\* holds, and stays what it was for.
LEMMA OthersGoOn ==
    ASSUME IInv, NEW w \in Workers,
           \A v \in Workers \ {w} : tx'[v] = tx[v],
           ~At(w, "apply")',
           lock' = lock \/ ReleaseRows(w),
           IsFiniteSet(Opened'), Opened \subseteq Opened',
           \A b \in Applications :
             /\ app'[b] # app[b] =>
                  /\ lock[b] \in {NoWorker, w} \/ app[b].status = "none"
                  /\ app[b].status = "none" =>
                       \A v \in Workers \ {w} : At(v, "apply") => b \notin tx[v].on
                  /\ app[b].status # "none" =>
                       app'[b].status # "none" /\ app'[b].created = app[b].created
             /\ account[b] # "none" => account'[b] # "none"
             /\ paid[b] \subseteq paid'[b]
             /\ Alone(b)' => Alone(b)
    PROVE  \A v \in Workers \ {w} : RequestOK(v)'
<1> USE DEF IInv
<1> SUFFICES ASSUME NEW v \in Workers \ {w} PROVE RequestOK(v)'
  OBVIOUS
<1>1. RequestOK(v) /\ tx[v] \in Requests /\ tx[v].on \subseteq Applications
  BY DEF TypeOK, Requests
<1>2. /\ Cardinality(Opened) \in Nat /\ Cardinality(Opened)' \in Nat
      /\ Cardinality(Opened) <= Cardinality(Opened)'
  BY FS_CardinalityType, FS_Subset
<1>3. \A b \in Applications :
        lock[b] = v /\ app[b].status # "none" => lock'[b] = v /\ app'[b] = app[b]
  <2> SUFFICES ASSUME NEW b \in Applications, lock[b] = v, app[b].status # "none"
               PROVE  lock'[b] = v /\ app'[b] = app[b]
    OBVIOUS
  <2>1. lock'[b] = v
    BY DEF ReleaseRows, TypeOK, Rows
  <2>2. app'[b] = app[b]
    BY LoansAssumption
  <2> QED
    BY <2>1, <2>2
<1>4. ASSUME NEW b \in tx[v].on, At(v, "apply")
      PROVE  /\ app'[b].status = "none"
             /\ \A u \in Workers \ {v} : At(u, "apply")' => b \notin tx'[u].on
  <2>1. /\ b \in Applications /\ app[b].status = "none"
        /\ \A u \in Workers \ {v} : At(u, "apply") => b \notin tx[u].on
    BY <1>1, <1>4 DEF RequestOK, ApplyOK
  <2>2. app'[b] = app[b]
    BY <1>4, <2>1
  <2>3. ASSUME NEW u \in Workers \ {v}, At(u, "apply")' PROVE b \notin tx'[u].on
    BY <2>1, <2>3 DEF At
  <2> QED
    BY <2>1, <2>2, <2>3
<1>5. \A b \in tx[v].on :
        /\ app[b].status # "none" => app'[b].status # "none" /\ app'[b].created = app[b].created
        /\ account[b] # "none" => account'[b] # "none"
        /\ paid[b] \subseteq paid'[b]
        /\ Alone(b)' => Alone(b)
  BY <1>1
<1> QED
  BY <1>1, <1>2, <1>3, <1>4, <1>5, OtherRequest
-----------------------------------------------------------------------------
\* One lemma per action that commits.

\* InsertApplication keeps the invariant.
LEMMA InsertApplicationInv ==
    ASSUME IInv, NEW w \in Workers, InsertApplication(w)
    PROVE  IInv'
<1> USE DEF IInv
<1>1. PICK a \in tx[w].on :
        Move(a, [NoApplication EXCEPT !.status = "submitted", !.created = tx[w].at,
                                      !.started = tx[w].at],
             <<[from |-> "none", to |-> "submitted", by |-> "merchant"]>>)
  BY DEF InsertApplication
<1> DEFINE e == [from |-> "none", to |-> "submitted", by |-> "merchant"]
           row == [NoApplication EXCEPT !.status = "submitted", !.created = tx[w].at,
                                        !.started = tx[w].at]
<1>2. /\ tx[w] \in Requests /\ a \in Applications /\ app[a].status = "none"
      /\ \A v \in Workers \ {w} : At(v, "apply") => a \notin tx[v].on
      /\ log[a] = <<>>
  <2>1. tx[w] \in Requests /\ a \in Applications
    BY DEF TypeOK, Requests
  <2> QED
    BY <2>1 DEF InsertApplication, RequestOK, ApplyOK, LogOK
<1>3. "submitted" \in Status /\ "submitted" \in ReviewStages /\ Place("submitted") = 1
  BY StageNames, PlaceOf DEF Status, InFlight
<1>4. e \in Event /\ e.to = "submitted" /\ e.by = "merchant" /\ e.from = "none"
  BY <1>3 DEF Event, Status
<1>5. /\ row \in ApplicationRow /\ row.status = "submitted"
      /\ row.created = tx[w].at /\ row.started = tx[w].at
  <2>1. tx[w].at \in Nat /\ tx[w].at \in Int
    BY <1>2 DEF Requests
  <2> QED
    BY <1>3, <2>1 DEF ApplicationRow, NoApplication
<1> HIDE DEF e, row
<1>6. row.started = row.created + WaitFor("submitted", Place(row.status) - 1)
  <2>1. tx[w].at \in Int
    BY <1>2 DEF Requests
  <2> QED
    BY <1>3, <1>5, <2>1, WaitForNothing
<1>7. Move(a, row, <<e>>) /\ <<e>> \in Seq(Event) /\ Len(<<e>>) = 1 /\ <<e>>[1] = e
  BY <1>1, <1>4 DEF e, row
<1> DEFINE events == <<e>>
<1>8. /\ Move(a, row, events) /\ events \in Seq(Event) /\ Len(events) = 1 /\ events[1] = e
  BY <1>7
<1> HIDE DEF events
<1>9. /\ \A k \in 1 .. Len(events) :
           /\ events[k].to # "none"
           /\ k > 1 \/ app[a].status # "none" => MayMove(events[k].from, events[k].to)
           /\ events[k].by = "system" \/ (k = 1 /\ events[1].from = app[a].status)
      /\ Len(events) > 0
      /\ row.status = events[Len(events)].to
      /\ \A k \in 1 .. Len(events) : events[k].to # "disbursed"
  BY <1>2, <1>4, <1>5, <1>8
<1>10. /\ app' \in [Applications -> ApplicationRow] /\ app'[a] = row
       /\ log' \in [Applications -> Seq(Event)] /\ log'[a] = log[a] \o events
       /\ \A b \in Applications \ {a} : app'[b] = app[b] /\ log'[b] = log[b]
       /\ LogOK' /\ PeopleActOnTheLatest' /\ ClockKeepsTime'
       /\ \A b \in Applications : Alone(b)' => Alone(b)
  BY <1>2, <1>5, <1>6, <1>8, <1>9, Moved
<1>11. DisbursalsOK' /\ AccountsAreApproved'
  BY <1>2, <1>8, <1>9, <1>10, NoDisbursal DEF InsertApplication
<1>12. /\ tx' \in [Workers -> Requests] /\ tx'[w] = Idle /\ RequestOK(w)'
       /\ \A v \in Workers \ {w} : tx'[v] = tx[v]
  BY FinishedRequest DEF InsertApplication, Finish
<1>13. UNCHANGED <<now, account, number, paid>> /\ ReleaseRows(w)
  BY DEF InsertApplication, Finish
<1>14. Opened' = Opened /\ \A t : Active(t)' = Active(t)
  BY <1>13 DEF Opened, Active
<1>15. \A v \in Workers \ {w} : RequestOK(v)'
  BY <1>2, <1>10, <1>12, <1>13, <1>14, IdleRequest, OthersGoOn DEF At
<1>16. OneActiveAccount' /\ ClosedMeansPaid' /\ IsFiniteSet(Opened)'
  BY <1>13, <1>14 DEF OneActiveAccount, ClosedMeansPaid
<1>17. TypeOK'
  BY <1>10, <1>12, <1>13 DEF TypeOK, ReleaseRows
<1> QED
  BY <1>10, <1>11, <1>12, <1>15, <1>16, <1>17

\* AutoAdvance keeps the invariant.
LEMMA AutoAdvanceInv ==
    ASSUME IInv, NEW w \in Workers, NEW a \in Applications, AutoAdvance(w, a)
    PROVE  IInv'
<1> USE DEF IInv
<1> DEFINE seen == tx[w].seen[a]
           p == Place(seen.status)
           n == Crossed(seen, tx[w].at)
           next == Stages[p + n]
           started == seen.started + WaitFor(seen.status, n)
           decided == IF next = "approved" THEN tx[w].at ELSE app[a].decided
           hurried == app[a].hurried \/ seen.hurried
           row == [app[a] EXCEPT !.status = next, !.started = started,
                                 !.decided = decided, !.hurried = hurried]
           events == [k \in 1 .. n |-> [from |-> Stages[p + k - 1], to |-> Stages[p + k],
                                        by |-> "system"]]
<1>1. /\ At(w, "clock") /\ a \in tx[w].on /\ lock[a] = NoWorker
      /\ tx[w] \in Requests
      /\ UNCHANGED <<now, lock, account, number, paid>>
  BY DEF AutoAdvance, TypeOK
<1>2. /\ app[a].status # "none" /\ seen.status \in ReviewStages /\ n > 0
      /\ ~seen.hurried /\ Alone(a) => OnTime(seen, a)
  BY <1>1 DEF RequestOK, ClockOK
<1>3. /\ app[a] \in ApplicationRow /\ seen \in ApplicationRow /\ tx[w].at \in Nat
  BY <1>1 DEF TypeOK, Requests
<1>4. p \in 1 .. 4 /\ n \in 1 .. 5 - p
  <2>1. p \in 1 .. 4 /\ n \in 0 .. 5 - p
    BY <1>2, InReview, CrossedType
  <2> HIDE DEF p, n
  <2> QED
    BY <1>2, <2>1
<1>5. Move(a, row, events)
  BY DEF AutoAdvance, Advanced, SystemEvents
<1>6. /\ WaitFor(seen.status, n) \in Int
      /\ WaitFor("submitted", p - 1) \in Int
      /\ WaitFor("submitted", p + n - 1) = WaitFor("submitted", p - 1) + WaitFor(seen.status, n)
  <2>1. n \in 0 .. 5 - p
    BY <1>4
  <2> QED
    BY <1>2, <2>1, WaitForAdds
<1>7. started \in Int
  BY <1>3, <1>6 DEF ApplicationRow
<1>8. decided \in Nat /\ hurried \in BOOLEAN
  BY <1>3 DEF ApplicationRow
<1> HIDE DEF p, n
<1>9. next \in Status \ {"none", "rejected", "disbursed"} /\ Place(next) = p + n
  <2>1. p + n \in 1 .. 5
    BY <1>4
  <2> QED
    BY <2>1, StageStatus, PlaceOf
<1> HIDE DEF next, started, decided, hurried
<1>10. /\ row \in ApplicationRow
       /\ row.status = next /\ row.started = started /\ row.created = app[a].created
       /\ row.hurried = hurried
  BY <1>3, <1>7, <1>8, <1>9 DEF ApplicationRow
<1>11. ASSUME NEW k \in 1 .. n
       PROVE  /\ Stages[p + k - 1] \in Status /\ Stages[p + k] \in Status \ {"none", "disbursed"}
              /\ Stages[p + k] \in Allowed(Stages[p + k - 1])
  <2>1. p + k - 1 \in 1 .. 4 /\ p + k \in 1 .. 5 /\ (p + k - 1) + 1 = p + k
    BY <1>4
  <2>2. /\ Stages[p + k - 1] \in ReviewStages /\ Stages[p + k] \in Status \ {"none", "disbursed"}
        /\ Place(Stages[p + k - 1]) = p + k - 1
    BY <2>1, StageStatus, PlaceOf
  <2> QED
    BY <2>1, <2>2, InReview
<1>12. /\ events \in Seq(Event) /\ Len(events) = n
       /\ \A k \in 1 .. n : events[k].from = Stages[p + k - 1] /\ events[k].to = Stages[p + k]
                            /\ events[k].by = "system"
  <2>1. events \in [1 .. n -> Event]
    BY <1>11 DEF Event
  <2>2. n \in Nat
    BY <1>4
  <2> QED
    BY <2>1, <2>2
<1> HIDE DEF row, events
<1>13. row.status = events[Len(events)].to /\ Len(events) > 0
  BY <1>4, <1>10, <1>12 DEF next
<1>14. ASSUME ~row.hurried, Alone(a)'
       PROVE  row.started = row.created + WaitFor("submitted", Place(row.status) - 1)
  <2>1. Alone(a)
    <3>1. log[a] \in Seq(Event) /\ log'[a] = log[a] \o events
      BY <1>5 DEF Move, TypeOK
    <3>2. /\ Len(log[a]) \in Nat /\ Len(events) \in Nat
          /\ Len(log'[a]) = Len(log[a]) + Len(events)
          /\ \A k \in 1 .. Len(log[a]) : log'[a][k] = log[a][k]
      <4>1. /\ Len(log[a]) \in Nat /\ Len(events) \in Nat
            /\ Len(log[a] \o events) = Len(log[a]) + Len(events)
            /\ \A k \in 1 .. Len(log[a]) : (log[a] \o events)[k] = log[a][k]
        <5>1. log[a] \in Seq(Event)
          BY <3>1
        <5>2. events \in Seq(Event)
          BY <1>12
        <5> QED
          BY <5>1, <5>2, Appended
      <4> QED
        BY <3>1, <4>1
    <3>3. \A k \in 2 .. Len(log[a]) : k \in 2 .. Len(log'[a]) /\ k \in 1 .. Len(log[a])
      BY <3>2
    <3> QED
      BY <1>14, <3>2, <3>3 DEF Alone
  <2>2. ~seen.hurried
    BY <1>10, <1>14 DEF hurried
  <2>3. OnTime(seen, a)
    BY <1>2, <2>1, <2>2
  <2>4. seen.created = app[a].created
        /\ seen.started = seen.created + WaitFor("submitted", p - 1)
    BY <2>3 DEF OnTime, p
  <2>5. app[a].created \in Int
    BY <1>3 DEF ApplicationRow
  <2>6. started = app[a].created + WaitFor("submitted", p + n - 1)
    BY <1>6, <2>4, <2>5 DEF started
  <2> QED
    BY <1>4, <1>9, <1>10, <2>6
<1>15. /\ \A k \in 1 .. Len(events) :
            /\ events[k].to # "none"
            /\ k > 1 \/ app[a].status # "none" => MayMove(events[k].from, events[k].to)
            /\ events[k].by = "system" \/ (k = 1 /\ events[1].from = app[a].status)
       /\ \A k \in 1 .. Len(events) : events[k].to # "disbursed"
       /\ events \in Seq(Event)
       /\ row \in ApplicationRow
  BY <1>10, <1>11, <1>12 DEF MayMove
<1>16. /\ app' \in [Applications -> ApplicationRow] /\ app'[a] = row
       /\ log' \in [Applications -> Seq(Event)] /\ log'[a] = log[a] \o events
       /\ \A b \in Applications \ {a} : app'[b] = app[b] /\ log'[b] = log[b]
       /\ LogOK' /\ PeopleActOnTheLatest' /\ ClockKeepsTime'
       /\ \A b \in Applications : Alone(b)' => Alone(b)
  BY <1>5, <1>13, <1>14, <1>15, Moved
<1>17. DisbursalsOK' /\ AccountsAreApproved'
  BY <1>1, <1>15, <1>16, NoDisbursal
<1> DEFINE others == tx[w].on \ {a}
           rest == [tx[w] EXCEPT !.on = others, !.seen[a] = NoApplication]
           r == IF tx[w].on = {a} THEN Idle ELSE rest
<1>18. /\ rest \in Requests /\ rest.on = tx[w].on \ {a} /\ rest.step = "clock"
       /\ rest.at = tx[w].at /\ \A b \in Applications \ {a} : rest.seen[b] = tx[w].seen[b]
  BY <1>1, IdleRequest DEF Requests, Steps, At
<1>19. Becomes(w, r)
  BY DEF AutoAdvance
<1> HIDE DEF rest
<1>20. r \in Requests /\ (r = Idle \/ r = rest)
  BY <1>18, IdleRequest
<1> HIDE DEF r
<1>21. /\ tx' \in [Workers -> Requests] /\ tx'[w] = r
       /\ \A v \in Workers \ {w} : tx'[v] = tx[v]
  BY <1>19, <1>20, BecomesOne DEF TypeOK
<1>22. Opened' = Opened /\ \A t : Active(t)' = Active(t)
  BY <1>1 DEF Opened, Active
<1>23. RequestOK(w)'
  <2>1. CASE r = Idle
    BY <1>21, <2>1, IdleRequest DEF RequestOK, ApplyOK, ClockOK, PersonOK, PayOK, At
  <2>2. CASE r = rest
    <3>1. ASSUME NEW b \in rest.on
          PROVE  /\ app'[b].status # "none"
                 /\ rest.seen[b].status \in ReviewStages
                 /\ Crossed(rest.seen[b], rest.at) > 0
                 /\ ~rest.seen[b].hurried /\ Alone(b)' =>
                      /\ rest.seen[b].created = app'[b].created
                      /\ rest.seen[b].started = rest.seen[b].created
                           + WaitFor("submitted", Place(rest.seen[b].status) - 1)
      <4>1. b \in Applications \ {a} /\ b \in tx[w].on
        BY <1>1, <1>18 DEF Requests
      <4>2. /\ app[b].status # "none"
            /\ tx[w].seen[b].status \in ReviewStages
            /\ Crossed(tx[w].seen[b], tx[w].at) > 0
            /\ ~tx[w].seen[b].hurried /\ Alone(b) => OnTime(tx[w].seen[b], b)
        BY <1>1, <4>1 DEF RequestOK, ClockOK
      <4>3. app'[b] = app[b] /\ (Alone(b)' => Alone(b)) /\ rest.seen[b] = tx[w].seen[b]
        BY <1>16, <1>18, <4>1
      <4> QED
        BY <1>18, <4>2, <4>3 DEF OnTime
    <3>2. ClockOK(w)'
      BY <1>21, <2>2, <3>1 DEF ClockOK, OnTime
    <3> QED
      BY <1>18, <1>21, <2>2, <3>2 DEF RequestOK, ApplyOK, PersonOK, PayOK, At
  <2> QED
    BY <1>20, <2>1, <2>2
<1>24. \A v \in Workers \ {w} : RequestOK(v)'
  <2>1. ~At(w, "apply")'
    BY <1>18, <1>20, <1>21, IdleRequest DEF At
  <2>2. row.status # "none"
    BY <1>9, <1>10
  <2> QED
    BY <1>1, <1>2, <1>10, <1>16, <1>21, <1>22, <2>1, <2>2, OthersGoOn
<1>25. OneActiveAccount' /\ ClosedMeansPaid' /\ IsFiniteSet(Opened)'
  BY <1>1, <1>22 DEF OneActiveAccount, ClosedMeansPaid
<1>26. TypeOK'
  BY <1>1, <1>16, <1>21 DEF TypeOK
<1> QED
  BY <1>16, <1>17, <1>23, <1>24, <1>25, <1>26

\* Review keeps the invariant.
LEMMA ReviewInv ==
    ASSUME IInv, NEW w \in Workers, NEW target \in Status, Review(w, target)
    PROVE  IInv'
<1> USE DEF IInv
<1>1. PICK a \in tx[w].on :
        /\ target \in Allowed(tx[w].seen[a].status)
        /\ Move(a, [app[a] EXCEPT !.status = target, !.started = tx[w].at,
                       !.decided = IF target \in {"approved", "rejected"}
                                   THEN tx[w].at ELSE @],
                <<[from |-> tx[w].seen[a].status, to |-> target, by |-> "champion"]>>)
  BY DEF Review
<1>2. /\ tx[w] \in Requests /\ a \in Applications /\ tx[w].at \in Nat
      /\ app[a] \in ApplicationRow
  BY DEF TypeOK, Requests
<1>3. lock[a] = w /\ app[a].status # "none" /\ tx[w].seen[a] = app[a]
  BY DEF Review, At, RequestOK, PersonOK
<1>4. app[a].status \in ReviewStages /\ target \in Allowed(app[a].status)
  BY <1>1, <1>3 DEF Allowed
<1>5. target \in Status \ {"none", "disbursed"}
  <2>1. Place(app[a].status) + 1 \in 1 .. 5
    BY <1>4, InReview
  <2> QED
    BY <1>4, <2>1, InReview, StageStatus
<1> DEFINE decided == IF target \in {"approved", "rejected"} THEN tx[w].at ELSE app[a].decided
           row == [app[a] EXCEPT !.status = target, !.started = tx[w].at, !.decided = decided]
           e == [from |-> app[a].status, to |-> target, by |-> "champion"]
           events == <<e>>
<1>6. decided \in Nat /\ tx[w].at \in Int
  BY <1>2 DEF ApplicationRow
<1>7. Move(a, row, events)
  BY <1>1, <1>3
<1> HIDE DEF decided
<1>8. row \in ApplicationRow /\ row.status = target /\ row.created = app[a].created
  BY <1>2, <1>6 DEF ApplicationRow
<1>9. e \in Event /\ e.from = app[a].status /\ e.to = target /\ e.by = "champion"
  BY <1>2 DEF Event, ApplicationRow
<1> HIDE DEF row, e
<1>10. events \in Seq(Event) /\ Len(events) = 1 /\ events[1] = e
  BY <1>9
<1> HIDE DEF events
<1>11. /\ \A k \in 1 .. Len(events) :
            /\ events[k].to # "none"
            /\ k > 1 \/ app[a].status # "none" => MayMove(events[k].from, events[k].to)
            /\ events[k].by = "system" \/ (k = 1 /\ events[1].from = app[a].status)
       /\ \A k \in 1 .. Len(events) : events[k].to # "disbursed"
       /\ Len(events) > 0 /\ row.status = events[Len(events)].to
  BY <1>4, <1>5, <1>8, <1>9, <1>10 DEF MayMove
<1>12. ~Alone(a)'
  <2>1. log[a] \in Seq(Event) /\ log'[a] = log[a] \o events
    BY <1>2, <1>7 DEF Move, TypeOK
  <2>2. log[a] # <<>>
    BY <1>2, <1>3 DEF PeopleActOnTheLatest
  <2>3. Len(log[a]) \in Nat /\ Len(log[a]) >= 1
    BY <2>1, <2>2
  <2>4. Len(log'[a]) = Len(log[a]) + 1 /\ log'[a][Len(log[a]) + 1] = e
    <3>1. /\ Len(log[a] \o events) = Len(log[a]) + Len(events)
          /\ \A k \in 1 .. Len(events) : (log[a] \o events)[Len(log[a]) + k] = events[k]
      <4>1. log[a] \in Seq(Event)
        BY <2>1
      <4>2. events \in Seq(Event)
        BY <1>10
      <4> QED
        BY <4>1, <4>2, Appended
    <3> QED
      BY <1>10, <2>1, <3>1
  <2> QED
    BY <1>9, <2>3, <2>4 DEF Alone
<1>13. /\ app' \in [Applications -> ApplicationRow] /\ app'[a] = row
       /\ log' \in [Applications -> Seq(Event)] /\ log'[a] = log[a] \o events
       /\ \A b \in Applications \ {a} : app'[b] = app[b] /\ log'[b] = log[b]
       /\ LogOK' /\ PeopleActOnTheLatest' /\ ClockKeepsTime'
       /\ \A b \in Applications : Alone(b)' => Alone(b)
  BY <1>2, <1>7, <1>8, <1>10, <1>11, <1>12, Moved
<1>14. UNCHANGED <<now, account, number, paid>> /\ ReleaseRows(w)
  BY DEF Review, Finish
<1>15. DisbursalsOK' /\ AccountsAreApproved'
  BY <1>2, <1>10, <1>11, <1>13, <1>14, NoDisbursal
<1>16. /\ tx' \in [Workers -> Requests] /\ tx'[w] = Idle /\ RequestOK(w)'
       /\ \A v \in Workers \ {w} : tx'[v] = tx[v]
  BY FinishedRequest DEF Review, Finish
<1>17. Opened' = Opened /\ \A t : Active(t)' = Active(t)
  BY <1>14 DEF Opened, Active
<1>18. \A v \in Workers \ {w} : RequestOK(v)'
  <2>1. ~At(w, "apply")'
    BY <1>16, IdleRequest DEF At
  <2> QED
    BY <1>3, <1>5, <1>8, <1>13, <1>14, <1>16, <1>17, <2>1, OthersGoOn
<1>19. OneActiveAccount' /\ ClosedMeansPaid' /\ IsFiniteSet(Opened)'
  BY <1>14, <1>17 DEF OneActiveAccount, ClosedMeansPaid
<1>20. TypeOK'
  BY <1>13, <1>14, <1>16 DEF TypeOK, ReleaseRows
<1> QED
  BY <1>13, <1>15, <1>16, <1>18, <1>19, <1>20

\* OpenAccount keeps the invariant.
LEMMA OpenAccountInv ==
    ASSUME IInv, NEW w \in Workers, OpenAccount(w)
    PROVE  IInv'
<1> USE DEF IInv
<1>1. PICK a \in tx[w].on :
        /\ KeysFree(a, tx[w].count + 1)
        /\ account' = [account EXCEPT ![a] = "active"]
        /\ number' = [number EXCEPT ![a] = tx[w].count + 1]
        /\ Move(a, [app[a] EXCEPT !.status = "disbursed", !.decided = tx[w].at],
                <<[from |-> tx[w].seen[a].status, to |-> "disbursed", by |-> "merchant"]>>)
  BY DEF OpenAccount
<1>2. /\ tx[w] \in Requests /\ a \in Applications /\ tx[w].at \in Nat /\ tx[w].count \in Nat
      /\ app[a] \in ApplicationRow
  BY DEF TypeOK, Requests
<1>3. /\ lock[a] = w /\ tx[w].seen[a] = app[a]
      /\ app[a].status = "approved" /\ tx[w].count <= Cardinality(Opened)
  BY DEF OpenAccount, At, RequestOK, PersonOK
<1> DEFINE row == [app[a] EXCEPT !.status = "disbursed", !.decided = tx[w].at]
           e == [from |-> app[a].status, to |-> "disbursed", by |-> "merchant"]
           events == <<e>>
<1>4. Move(a, row, events)
  BY <1>1, <1>3
<1>5. "disbursed" \in Status /\ "approved" \in Status /\ "disbursed" \notin InFlight
  BY StageNames DEF Status, InFlight
<1>6. row \in ApplicationRow /\ row.status = "disbursed" /\ row.created = app[a].created
  BY <1>2, <1>5 DEF ApplicationRow
<1>7. e \in Event /\ e.from = app[a].status /\ e.to = "disbursed" /\ e.by = "merchant"
  BY <1>3, <1>5 DEF Event
<1> HIDE DEF row, e
<1>8. events \in Seq(Event) /\ Len(events) = 1 /\ events[1] = e
  BY <1>7
<1> HIDE DEF events
<1>9. /\ \A k \in 1 .. Len(events) :
           /\ events[k].to # "none"
           /\ k > 1 \/ app[a].status # "none" => MayMove(events[k].from, events[k].to)
           /\ events[k].by = "system" \/ (k = 1 /\ events[1].from = app[a].status)
      /\ Len(events) > 0 /\ row.status = events[Len(events)].to /\ row.status \notin InFlight
  BY <1>3, <1>5, <1>6, <1>7, <1>8 DEF MayMove
<1>10. /\ app' \in [Applications -> ApplicationRow] /\ app'[a] = row
       /\ log' \in [Applications -> Seq(Event)] /\ log'[a] = log[a] \o events
       /\ \A b \in Applications \ {a} : app'[b] = app[b] /\ log'[b] = log[b]
       /\ LogOK' /\ PeopleActOnTheLatest' /\ ClockKeepsTime'
       /\ \A b \in Applications : Alone(b)' => Alone(b)
  BY <1>2, <1>4, <1>6, <1>8, <1>9, Moved
<1>11. UNCHANGED <<now, paid>> /\ ReleaseRows(w)
  BY DEF OpenAccount, Finish
<1>12. /\ account' \in [Applications -> {"none", "active", "closed"}]
       /\ number' \in [Applications -> Nat]
       /\ account'[a] = "active" /\ number'[a] = tx[w].count + 1
       /\ \A b \in Applications \ {a} : account'[b] = account[b] /\ number'[b] = number[b]
  BY <1>1, <1>2 DEF TypeOK
<1>13. /\ account[a] = "none" /\ Active(TenantOf[a]) = {}
       /\ \A b \in Opened : number[b] # tx[w].count + 1
  BY <1>1 DEF KeysFree
<1>14. Opened' = Opened \cup {a} /\ a \notin Opened
  BY <1>2, <1>12, <1>13 DEF Opened
<1> DEFINE n == Cardinality(Opened)
<1>15. /\ IsFiniteSet(Opened') /\ n \in Nat /\ Cardinality(Opened)' = n + 1
  BY <1>14, FS_AddElement, FS_CardinalityType
<1>16. tx[w].count + 1 = n + 1
  <2>1. tx[w].count + 1 \notin 1 .. n
    BY <1>13 DEF OneActiveAccount
  <2> QED
    BY <1>2, <1>3, <1>15, <2>1
<1>17. OneActiveAccount'
  <2>1. ASSUME NEW t \in Tenants PROVE Cardinality(Active(t)') <= 1
    <3>1. CASE t = TenantOf[a]
      <4>1. Active(t)' = {a}
        BY <1>2, <1>12, <1>13, <3>1 DEF Active
      <4>2. Cardinality({a}) = 1
        BY FS_Singleton
      <4> QED
        BY <4>1, <4>2
    <3>2. CASE t # TenantOf[a]
      <4>1. Active(t)' = Active(t)
        BY <1>12, <3>2 DEF Active
      <4> QED
        BY <4>1 DEF OneActiveAccount
    <3> QED
      BY <3>1, <3>2
  <2>2. \A b \in Opened : number'[b] = number[b] /\ number[b] \in 1 .. n
    BY <1>12, <1>14 DEF OneActiveAccount, Opened
  <2>3. number'[a] = n + 1
    BY <1>12, <1>16
  <2>4. \A b, c \in Opened' : number'[b] = number'[c] => b = c
    <3>1. \A b \in Opened : number'[b] # number'[a]
      BY <1>15, <2>2, <2>3
    <3>2. \A b, c \in Opened : number'[b] = number'[c] => b = c
      BY <2>2 DEF OneActiveAccount
    <3> QED
      BY <1>14, <3>1, <3>2
  <2>5. {number'[b] : b \in Opened'} = {number[b] : b \in Opened} \cup {n + 1}
    BY <1>14, <2>2, <2>3
  <2>6. {number[b] : b \in Opened} \cup {n + 1} = 1 .. (n + 1)
    <3>1. {number[b] : b \in Opened} = 1 .. n
      BY DEF OneActiveAccount
    <3> HIDE DEF n
    <3>2. (1 .. n) \cup {n + 1} = 1 .. (n + 1)
      BY <1>15
    <3> QED
      BY <3>1, <3>2
  <2> QED
    BY <1>15, <2>1, <2>4, <2>5, <2>6 DEF OneActiveAccount
<1>18. ClosedMeansPaid'
  BY <1>11, <1>12 DEF ClosedMeansPaid
<1>19. DisbursalsOK' /\ AccountsAreApproved'
  <2> DEFINE m == Len(log[a])
  <2>1. log[a] \in Seq(Event) /\ log[a] # <<>> /\ Last(log[a]).to = "approved"
    BY <1>2, <1>3 DEF PeopleActOnTheLatest, TypeOK
  <2>2. m \in Nat /\ m >= 1 /\ m \in DOMAIN log[a] /\ log[a][m].to = "approved"
    BY <2>1 DEF Last
  <2>3. /\ DOMAIN log'[a] = 1 .. (m + 1) /\ DOMAIN log[a] = 1 .. m
        /\ \A k \in 1 .. m : log'[a][k] = log[a][k]
        /\ log'[a][m + 1] = e
    <3>1. /\ DOMAIN (log[a] \o events) = 1 .. (Len(log[a]) + Len(events))
          /\ DOMAIN log[a] = 1 .. Len(log[a])
          /\ \A k \in 1 .. Len(log[a]) : (log[a] \o events)[k] = log[a][k]
          /\ \A k \in 1 .. Len(events) : (log[a] \o events)[Len(log[a]) + k] = events[k]
      <4>1. log[a] \in Seq(Event)
        BY <2>1
      <4>2. events \in Seq(Event)
        BY <1>8
      <4> QED
        BY <4>1, <4>2, Appended
    <3> QED
      BY <1>8, <1>10, <3>1
  <2>4. Logged(a, "disbursed") = {}
    BY <1>2, <1>13 DEF DisbursalsOK
  <2> HIDE DEF m
  <2>5. Logged(a, "disbursed")' = {m + 1}
    <3>1. \A k \in 1 .. m : log[a][k].to # "disbursed"
      BY <2>3, <2>4 DEF Logged
    <3>2. \A k \in 1 .. (m + 1) : log'[a][k].to = "disbursed" <=> k = m + 1
      BY <1>7, <2>2, <2>3, <3>1
    <3> QED
      BY <2>2, <2>3, <3>2 DEF Logged
  <2>6. m \in Logged(a, "approved")' /\ m < m + 1 /\ m + 1 \in DOMAIN log'[a]
    BY <2>2, <2>3 DEF Logged
  <2>7. \A b \in Applications \ {a} : \A s : Logged(b, s)' = Logged(b, s)
    BY <1>10 DEF Logged
  <2>8. DisbursalsOK'
    <3> SUFFICES ASSUME NEW b \in Applications
                 PROVE  IF account'[b] = "none" THEN Logged(b, "disbursed")' = {}
                        ELSE \E k \in DOMAIN log'[b] : Logged(b, "disbursed")' = {k}
      BY DEF DisbursalsOK
    <3>1. CASE b = a
      BY <1>12, <2>5, <2>6, <3>1
    <3>2. CASE b # a
      <4>1. IF account[b] = "none" THEN Logged(b, "disbursed") = {}
            ELSE \E k \in DOMAIN log[b] : Logged(b, "disbursed") = {k}
        BY DEF DisbursalsOK
      <4>2. account'[b] = account[b] /\ log'[b] = log[b]
            /\ Logged(b, "disbursed")' = Logged(b, "disbursed")
        BY <1>10, <1>12, <2>7, <3>2
      <4> QED
        BY <4>1, <4>2
    <3> QED
      BY <3>1, <3>2
  <2>9. AccountsAreApproved'
    <3> SUFFICES ASSUME NEW b \in Applications
                 PROVE  /\ Cardinality(Logged(b, "disbursed")')
                             = IF account'[b] = "none" THEN 0 ELSE 1
                        /\ \A k \in Logged(b, "disbursed")' :
                             \E j \in Logged(b, "approved")' : j < k
      BY DEF AccountsAreApproved
    <3>1. CASE b = a
      BY <1>12, <2>5, <2>6, <3>1, FS_Singleton
    <3>2. CASE b # a
      BY <1>12, <2>7, <3>2 DEF AccountsAreApproved
    <3> QED
      BY <3>1, <3>2
  <2> QED
    BY <2>8, <2>9
<1>20. /\ tx' \in [Workers -> Requests] /\ tx'[w] = Idle /\ RequestOK(w)'
       /\ \A v \in Workers \ {w} : tx'[v] = tx[v]
  BY FinishedRequest DEF OpenAccount, Finish
<1>21. \A v \in Workers \ {w} : RequestOK(v)'
  <2>1. ~At(w, "apply")'
    BY <1>20, IdleRequest DEF At
  <2>2. row.status # "none" /\ app[a].status # "none"
    BY <1>3, <1>6
  <2> QED
    BY <1>3, <1>6, <1>10, <1>11, <1>12, <1>14, <1>15, <1>20, <2>1, <2>2, OthersGoOn
<1>22. TypeOK'
  BY <1>10, <1>11, <1>12, <1>20 DEF TypeOK, ReleaseRows
<1> QED
  BY <1>10, <1>15, <1>17, <1>18, <1>19, <1>20, <1>21, <1>22

\* Settle keeps the invariant.
LEMMA SettleInv ==
    ASSUME IInv, NEW w \in Workers, Settle(w)
    PROVE  IInv'
<1> USE DEF IInv
<1>1. PICK a \in tx[w].on :
        /\ paid' = [paid EXCEPT ![a] = @ \cup {tx[w].seq}]
        /\ account' = [account EXCEPT ![a] = IF tx[w].count = 0 THEN "closed" ELSE @]
  BY DEF Settle
<1>2. /\ tx[w] \in Requests /\ a \in Applications
      /\ account[a] # "none" /\ tx[w].seq \in 1 .. Term
      /\ tx[w].count = 0 => 1 .. Term \subseteq paid[a] \cup {tx[w].seq}
  BY DEF Settle, At, TypeOK, Requests, RequestOK, PayOK
<1>3. /\ paid' \in [Applications -> SUBSET (1 .. Term)]
      /\ account' \in [Applications -> {"none", "active", "closed"}]
      /\ \A b \in Applications \ {a} : paid'[b] = paid[b] /\ account'[b] = account[b]
      /\ paid'[a] = paid[a] \cup {tx[w].seq}
      /\ account'[a] = IF tx[w].count = 0 THEN "closed" ELSE account[a]
  BY <1>1, <1>2 DEF TypeOK
<1>4. UNCHANGED <<now, app, log, number>> /\ ReleaseRows(w)
  BY DEF Settle, Finish
<1>5. \A b \in Applications : account'[b] = "none" <=> account[b] = "none"
  BY <1>2, <1>3
<1>6. Opened' = Opened
  BY <1>5 DEF Opened
<1>7. OneActiveAccount'
  <2>1. ASSUME NEW t \in Tenants PROVE Cardinality(Active(t)') <= 1
    <3>1. Active(t)' \subseteq Active(t)
      BY <1>2, <1>3 DEF Active
    <3>2. Active(t) \subseteq Opened
      BY DEF Active, Opened
    <3>3. IsFiniteSet(Active(t))
      BY <3>2, FS_Subset
    <3>4. /\ Cardinality(Active(t)') \in Nat /\ Cardinality(Active(t)) \in Nat
          /\ Cardinality(Active(t)') <= Cardinality(Active(t))
      BY <3>1, <3>3, FS_Subset, FS_CardinalityType
    <3>5. Cardinality(Active(t)) <= 1
      BY DEF OneActiveAccount
    <3> QED
      BY <3>4, <3>5
  <2> QED
    BY <1>4, <1>6, <2>1 DEF OneActiveAccount
<1>8. ClosedMeansPaid'
  <2> SUFFICES ASSUME NEW b \in Applications, account'[b] = "closed"
               PROVE  paid'[b] = 1 .. Term
    BY DEF ClosedMeansPaid
  <2>1. CASE b = a /\ tx[w].count = 0
    BY <1>2, <1>3, <2>1
  <2>2. CASE b = a /\ tx[w].count # 0
    BY <1>2, <1>3, <2>2 DEF ClosedMeansPaid
  <2>3. CASE b # a
    BY <1>3, <2>3 DEF ClosedMeansPaid
  <2> QED
    BY <2>1, <2>2, <2>3
<1>9. \A b, s : Logged(b, s)' = Logged(b, s)
  BY <1>4 DEF Logged
<1>10. LogOK' /\ PeopleActOnTheLatest' /\ ClockKeepsTime'
  BY <1>4 DEF LogOK, PeopleActOnTheLatest, ClockKeepsTime
<1>11. DisbursalsOK'
  <2> SUFFICES ASSUME NEW b \in Applications
               PROVE  IF account'[b] = "none" THEN Logged(b, "disbursed")' = {}
                      ELSE \E k \in DOMAIN log'[b] : Logged(b, "disbursed")' = {k}
    BY DEF DisbursalsOK
  <2>1. IF account[b] = "none" THEN Logged(b, "disbursed") = {}
        ELSE \E k \in DOMAIN log[b] : Logged(b, "disbursed") = {k}
    BY DEF DisbursalsOK
  <2> QED
    BY <1>4, <1>5, <1>9, <2>1
<1>12. AccountsAreApproved'
  <2> SUFFICES ASSUME NEW b \in Applications
               PROVE  /\ Cardinality(Logged(b, "disbursed")')
                           = IF account'[b] = "none" THEN 0 ELSE 1
                      /\ \A k \in Logged(b, "disbursed")' :
                           \E j \in Logged(b, "approved")' : j < k
    BY DEF AccountsAreApproved
  <2> QED
    BY <1>5, <1>9 DEF AccountsAreApproved
<1>13. /\ tx' \in [Workers -> Requests] /\ tx'[w] = Idle /\ RequestOK(w)'
       /\ \A v \in Workers \ {w} : tx'[v] = tx[v]
  BY FinishedRequest DEF Settle, Finish
<1>14. \A v \in Workers \ {w} : RequestOK(v)'
  <2>1. ~At(w, "apply")'
    BY <1>13, IdleRequest DEF At
  <2>2. \A b \in Applications : Alone(b)' => Alone(b)
    BY <1>4 DEF Alone
  <2>3. \A b \in Applications : paid[b] \subseteq paid'[b]
    BY <1>3
  <2> QED
    BY <1>4, <1>5, <1>6, <1>13, <2>1, <2>2, <2>3, OthersGoOn
<1>15. TypeOK'
  BY <1>3, <1>4, <1>13 DEF TypeOK, ReleaseRows
<1> QED
  BY <1>6, <1>7, <1>8, <1>10, <1>11, <1>12, <1>13, <1>14, <1>15
-----------------------------------------------------------------------------

\* Every step keeps the invariant.
LEMMA StepInv == IInv /\ [Next]_vars => IInv'
<1> SUFFICES ASSUME IInv, [Next]_vars PROVE IInv'
  OBVIOUS
<1>1. CASE Tick
  BY <1>1, TickInv
<1>2. ASSUME NEW w \in Workers, Serve(w) PROVE IInv'
  <2>1. CASE InsertApplication(w)
    BY <2>1, InsertApplicationInv
  <2>2. CASE \E a \in Applications : AutoAdvance(w, a)
    BY <2>2, AutoAdvanceInv
  <2>3. CASE \E target \in Status : Review(w, target)
    BY <2>3, ReviewInv
  <2>4. CASE RefuseReview(w) \/ RefuseAccount(w)
    <3>1. Finish(w) /\ UNCHANGED dbVars /\ now' \in Nat
      BY <2>4 DEF RefuseReview, RefuseAccount, Refuse, IInv, TypeOK
    <3> QED
      BY <3>1, EndStep
  <2>8. CASE CountAccounts(w)
    BY <2>8, CountAccountsInv
  <2>5. CASE OpenAccount(w)
    BY <2>5, OpenAccountInv
  <2>6. CASE CountUnpaid(w)
    BY <2>6, CountUnpaidInv
  <2>7. CASE Settle(w)
    BY <2>7, SettleInv
  <2> QED
    BY <1>2, <2>1, <2>2, <2>3, <2>4, <2>5, <2>6, <2>7, <2>8 DEF Serve
<1>3. ASSUME NEW w \in Workers, Ask(w) PROVE IInv'
  <2>1. CASE \E S \in Views : View(w, S)
    BY <2>1, ViewInv
  <2>2. ASSUME NEW a \in Applications, Apply(w, a) PROVE IInv'
    BY <2>2, ApplyInv
  <2>3. ASSUME NEW a \in Applications, FastForward(w, a) PROVE IInv'
    BY <2>3, FastForwardInv
  <2>4. ASSUME NEW a \in Applications, LoadForUpdate(w, a) PROVE IInv'
    BY <2>4, LoadForUpdateInv
  <2>5. ASSUME NEW a \in Applications, Disburse(w, a) PROVE IInv'
    BY <2>5, DisburseInv
  <2>6. ASSUME NEW a \in Applications, NEW k \in 1 .. Term, ReadInstallment(w, a, k)
        PROVE  IInv'
    BY <2>6, ReadInstallmentInv
  <2> QED
    BY <1>3, <2>1, <2>2, <2>3, <2>4, <2>5, <2>6 DEF Ask
<1>4. ASSUME NEW w \in Workers, Crash(w) PROVE IInv'
  <2>1. Finish(w) /\ UNCHANGED dbVars /\ now' \in Nat
    BY <1>4 DEF Crash, IInv, TypeOK
  <2> QED
    BY <2>1, EndStep
<1>5. CASE UNCHANGED vars
  <2>1. UNCHANGED <<dbVars, lock, tx, now>>
    BY <1>5 DEF vars, dbVars
  <2>2. TypeOK'
    BY <2>1 DEF IInv, TypeOK, dbVars
  <2>3. ASSUME NEW v \in Workers PROVE RequestOK(v)'
    <3>1. \A a : (Alone(a)' = Alone(a)) /\ (\A r : OnTime(r, a) => r.created = app'[a].created
                      /\ r.started = r.created + WaitFor("submitted", Place(r.status) - 1))
      BY <2>1 DEF Alone, OnTime, dbVars
    <3>2. RequestOK(v) /\ Opened' = Opened
      BY <2>1 DEF IInv, dbVars, Opened
    <3>3. ApplyOK(v)' /\ PersonOK(v)' /\ PayOK(v)'
      BY <2>1, <3>2 DEF RequestOK, ApplyOK, PersonOK, PayOK, At, dbVars
    <3>4. ClockOK(v)'
      BY <2>1, <3>1, <3>2 DEF RequestOK, ClockOK, OnTime, At, dbVars
    <3> QED
      BY <3>3, <3>4 DEF RequestOK
  <2> QED
    BY <2>1, <2>2, <2>3, TablesOnly DEF IInv
<1> QED
  BY <1>1, <1>2, <1>3, <1>4, <1>5 DEF Next

\* Whatever the handlers, the clock and the crashes do, every reachable state
\* satisfies the inductive invariant.
THEOREM Inductive == Spec => []IInv
<1>1. Init => IInv
  BY InitInv
<1>2. IInv /\ [Next]_vars => IInv'
  BY StepInv
<1> QED
  BY <1>1, <1>2, PTL DEF Spec

\* Rows, logs, accounts and requests keep their types.
THEOREM TypeCorrect == Spec => []TypeOK
<1>1. IInv => TypeOK
  BY DEF IInv
<1> QED
  BY <1>1, Inductive, PTL

\* No tenant ever owes on two accounts (the partial unique index and the answer that
\* disburse gives to its IntegrityError), and account numbers have no gap and no
\* repeat however many disbursals read the same count.
THEOREM OneAccountAtATime == Spec => []OneActiveAccount
<1>1. IInv => OneActiveAccount
  BY DEF IInv
<1> QED
  BY <1>1, Inductive, PTL

\* pay_installment closes an account only when every installment is paid, though it
\* counts the unpaid ones before its own payment has committed.
THEOREM ClosedAccountsArePaid == Spec => []ClosedMeansPaid
<1>1. IInv => ClosedMeansPaid
  BY DEF IInv
<1> QED
  BY <1>1, Inductive, PTL

\* disburse pays out once per application and after an approval, although the clock
\* writes the status without a lock.
THEOREM MoneyFollowsApproval == Spec => []AccountsAreApproved
<1>1. IInv => AccountsAreApproved
  BY DEF IInv
<1> QED
  BY <1>1, Inductive, PTL

\* The log makes only allowed moves, and a champion or a tenant acts on its last
\* entry: SELECT ... FOR UPDATE is what makes it so, for any number of handlers.
THEOREM PeopleSeeTheLatest == Spec => []PeopleActOnTheLatest
<1>1. IInv => PeopleActOnTheLatest
  BY DEF IInv
<1> QED
  BY <1>1, Inductive, PTL

\* _auto_advance does not drift: it starts a stage when the last one was over,
\* however late it runs and whatever it read.
THEOREM TheClockDoesNotDrift == Spec => []ClockKeepsTime
<1>1. IInv => ClockKeepsTime
  BY DEF IInv
<1> QED
  BY <1>1, Inductive, PTL
=============================================================================

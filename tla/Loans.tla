-------------------------------- MODULE Loans --------------------------------
(***************************************************************************)
(* Loan applications and accounts.  An application goes through four       *)
(* review stages, moved on by a branch champion or by a clock that only    *)
(* runs when somebody reads the application; the tenant turns an approved  *)
(* one into an account and pays its installments.  Champions and disburse  *)
(* load the row FOR UPDATE; the clock reads it without a lock and the ORM  *)
(* writes back the status it reckoned from that read.                      *)
(*                                                                         *)
(* A transaction that waits for nothing between its first UPDATE and its   *)
(* COMMIT is one step, at its commit.                                      *)
(***************************************************************************)
EXTENDS Sums, Sequences, SequencesExt, RowLocks

CONSTANTS
    Tenants,
    Applications,    \* the ids that apply can give, and
    TenantOf,        \* the tenant that each is for
    Wait,            \* LOAN_STAGE_AUTO_ADVANCE_SECONDS, in ticks
    Cooldown,        \* LOAN_REJECT_COOLDOWN_DAYS, in ticks
    AutoApprove,     \* LOAN_AUTO_APPROVE_ENABLED
    Term,            \* installments of an account
    Moments,         \* bounds: the ticks at which anything happens,
    LastPress,       \* the last of them at which people press a button,
    MaxPresses, MaxCrashes  \* fast-forwards and reviews, crashes

Stages == <<"submitted", "doc_review", "collateral_check", "under_review", "approved">>
ReviewStages == {Stages[k] : k \in 1 .. 4}
InFlight == ReviewStages \cup {"approved"}
Status == InFlight \cup {"none", "rejected", "disbursed"}

ASSUME LoansAssumption ==
    /\ NoWorker \notin Workers
    /\ TenantOf \in [Applications -> Tenants]
    /\ Wait \in [ReviewStages -> Nat \ {0}]
    /\ Cooldown \in Nat
    /\ AutoApprove \in BOOLEAN
    /\ Term \in Nat \ {0}
    /\ Moments \subseteq Nat /\ 0 \in Moments

VARIABLES
    now,
    app,       \* per application, its row; status none before apply
    log,       \* per application, its LoanApplicationEvents in commit order
    account,   \* per application, none or the status of its account
    number,    \* per application, its account_number, 0 for none
    paid,      \* per application, the installments whose status is paid
    tx,        \* per worker, the request it serves
    presses, crashes

dbVars == <<app, log, account, number, paid>>
vars == <<now, app, log, account, number, paid, lock, tx, presses, crashes>>

Installments == Applications \X (1 .. Term)
Rows == Applications \cup Installments

\* hurried is no column: somebody has used fast-forward on the application.
ApplicationRow ==
    [status : Status, created : Nat, started : Int, decided : Nat, hurried : BOOLEAN]
Event == [from : Status, to : Status, by : {"merchant", "champion", "system"}]

NoApplication ==
    [status |-> "none", created |-> 0, started |-> 0, decided |-> 0, hurried |-> FALSE]

Idle ==
    [step |-> "idle", on |-> {},  \* the applications still to deal with, and
     seen |-> [a \in Applications |-> NoApplication],  \* their rows as read
     at |-> 0,                    \* at this time
     count |-> 0,                 \* what a SELECT count returned
     seq |-> 0]                   \* the installment being paid

Init ==
    /\ now = 0
    /\ app = [a \in Applications |-> NoApplication]
    /\ log = [a \in Applications |-> <<>>]
    /\ account = [a \in Applications |-> "none"]
    /\ number = [a \in Applications |-> 0]
    /\ paid = [a \in Applications |-> {}]
    /\ lock = [r \in Rows |-> NoWorker]
    /\ tx = [w \in Workers |-> Idle]
    /\ presses = 0
    /\ crashes = 0

At(w, step) == tx[w].step = step
Seen(S) == [a \in Applications |-> IF a \in S THEN app[a] ELSE NoApplication]
Becomes(w, r) == tx' = [tx EXCEPT ![w] = r]
Of(t) == {a \in Applications : TenantOf[a] = t /\ app[a].status # "none"}
Opened == {a \in Applications : account[a] # "none"}
Active(t) == {a \in Applications : TenantOf[a] = t /\ account[a] = "active"}

Place(s) == CHOOSE k \in 1 .. 5 : Stages[k] = s

\* _ALLOWED_TRANSITIONS.
Allowed(s) == IF s \in ReviewStages THEN {Stages[Place(s) + 1], "rejected"} ELSE {}

\* An application's new row and the events that tell of it, in one commit.
Move(a, row, events) ==
    /\ app' = [app EXCEPT ![a] = row]
    /\ log' = [log EXCEPT ![a] = @ \o events]

Finish(w) == Becomes(w, Idle) /\ ReleaseRows(w)
Refuse(w) == Finish(w) /\ UNCHANGED <<now, dbVars, presses, crashes>>

\* Ticks the clock lets pass in stage s and the k - 1 stages after it.
WaitFor(s, k) == Sigma([i \in 1 .. 4 |-> Wait[Stages[i]]], Place(s) .. Place(s) + k - 1)

\* A variant of Crossed with a bug that a property must refute:
\* a clock that never approves, whatever LOAN_AUTO_APPROVE_ENABLED says.
CrossedInReview(row, t) ==
    IF row.status \in ReviewStages
    THEN Cardinality({k \in 1 .. 4 - Place(row.status) : row.started + WaitFor(row.status, k) <= t})
    ELSE 0

\* How many stages the loop of _auto_advance takes row over at time t.
Crossed(row, t) ==
    LET last == IF AutoApprove THEN 4 ELSE 3
    IN  IF row.status \in ReviewStages
        THEN Cardinality({k \in 1 .. last + 1 - Place(row.status) :
                            row.started + WaitFor(row.status, k) <= t})
        ELSE 0

-----------------------------------------------------------------------------
\* Variants of definitions below, each with a bug that a property must refute.

\* A clock that starts each stage when it runs, not when the last one was over.
AdvancedFromNow(w, a) ==
    LET seen == tx[w].seen[a]
        next == Stages[Place(seen.status) + Crossed(seen, tx[w].at)]
    IN  [app[a] EXCEPT !.status = next, !.started = tx[w].at,
                       !.decided = IF next = "approved" THEN tx[w].at ELSE @,
                       !.hurried = @ \/ seen.hurried]

\* A champion's request that reads the application like every other.
LoadUnlocked(w, a) ==
    /\ At(w, "idle")
    /\ now <= LastPress /\ presses < MaxPresses
    /\ app[a].status # "none"
    /\ Becomes(w, [Idle EXCEPT !.step = "review", !.on = {a}, !.seen = Seen({a}), !.at = now])
    /\ presses' = presses + 1
    /\ UNCHANGED <<now, dbVars, lock, crashes>>

\* disburse that only asks whether the application has been disbursed.
DisburseUnapproved(w, a) ==
    /\ At(w, "idle")
    /\ lock[a] = NoWorker
    /\ app[a].status \in InFlight
    /\ Active(TenantOf[a]) = {}
    /\ TakeRow(w, a)
    /\ Becomes(w, [Idle EXCEPT !.step = "number", !.on = {a}, !.seen = Seen({a}), !.at = now])
    /\ UNCHANGED <<now, dbVars, presses, crashes>>

\* turbo_loan_accounts without the unique index on account_number.
KeysFreeNoNumber(a, n) == account[a] = "none" /\ Active(TenantOf[a]) = {}

\* The installments after the one being paid, not all that are unpaid.
UnpaidLater(w, a) == tx[w].seq + 1 .. Term

-----------------------------------------------------------------------------
\* Applying.

\* apply lets a tenant through that has no application in flight and whose last
\* rejection is Cooldown ago.  The quote that follows only reads.
Apply(w, a) ==
    LET t == TenantOf[a] IN
    /\ At(w, "idle")
    /\ now <= LastPress
    /\ app[a].status = "none" /\ \A v \in Workers : At(v, "apply") => a \notin tx[v].on
    /\ \A b \in Of(t) : app[b].status \notin InFlight
    /\ \A b \in Of(t) : app[b].status = "rejected" => app[b].decided + Cooldown <= now
    /\ Becomes(w, [Idle EXCEPT !.step = "apply", !.on = {a}, !.at = now])
    /\ UNCHANGED <<now, dbVars, lock, presses, crashes>>

InsertApplication(w) ==
    /\ At(w, "apply")
    /\ \E a \in tx[w].on :
         Move(a, [NoApplication EXCEPT !.status = "submitted", !.created = tx[w].at,
                                       !.started = tx[w].at],
              <<[from |-> "none", to |-> "submitted", by |-> "merchant"]>>)
    /\ Finish(w)
    /\ UNCHANGED <<now, account, number, paid, presses, crashes>>

-----------------------------------------------------------------------------
\* The clock.

Tick ==
    /\ \E t \in Moments : t > now
    /\ now' = Min({t \in Moments : t > now})
    /\ UNCHANGED <<dbVars, lock, tx, presses, crashes>>

\* A list or a detail view, of the tenant or the branch, reads the rows S with no
\* lock.  Rows for which no stage is over it leaves alone.
View(w, S) ==
    LET due == {a \in S : Crossed(app[a], now) > 0} IN
    /\ At(w, "idle")
    /\ due # {}
    /\ Becomes(w, [Idle EXCEPT !.step = "clock", !.on = due, !.seen = Seen(due), !.at = now])
    /\ UNCHANGED <<now, dbVars, lock, presses, crashes>>

\* fast_forward_application makes the stage it read look over.
Hurried(row) == [row EXCEPT !.started = now - Wait[row.status], !.hurried = TRUE]

FastForward(w, a) ==
    LET seen == [Seen({a}) EXCEPT ![a] = Hurried(@)] IN
    /\ At(w, "idle")
    /\ now <= LastPress /\ presses < MaxPresses
    /\ app[a].status \in ReviewStages
    /\ Crossed(seen[a], now) > 0
    /\ Becomes(w, [Idle EXCEPT !.step = "clock", !.on = {a}, !.seen = seen, !.at = now])
    /\ presses' = presses + 1
    /\ UNCHANGED <<now, dbVars, lock, crashes>>

\* The row of a once the clock has moved it on: the ORM sends the columns that
\* differ from what was read, with their new values.
Advanced(w, a) ==
    LET seen == tx[w].seen[a]
        n == Crossed(seen, tx[w].at)
        next == Stages[Place(seen.status) + n]
    IN  [app[a] EXCEPT !.status = next,
                       !.started = seen.started + WaitFor(seen.status, n),
                       !.decided = IF next = "approved" THEN tx[w].at ELSE @,
                       !.hurried = @ \/ seen.hurried]

SystemEvents(w, a) ==
    LET seen == tx[w].seen[a]
    IN  [k \in 1 .. Crossed(seen, tx[w].at) |->
            [from |-> Stages[Place(seen.status) + k - 1],
             to |-> Stages[Place(seen.status) + k], by |-> "system"]]

\* _auto_advance commits the rows of a list one by one.
AutoAdvance(w, a) ==
    /\ At(w, "clock") /\ a \in tx[w].on
    /\ lock[a] = NoWorker
    /\ Move(a, Advanced(w, a), SystemEvents(w, a))
    /\ Becomes(w, IF tx[w].on = {a} THEN Idle ELSE [tx[w] EXCEPT !.on = @ \ {a}, !.seen[a] = NoApplication])
    /\ UNCHANGED <<now, lock, account, number, paid, presses, crashes>>

-----------------------------------------------------------------------------
\* The champion of the branch.

LoadForUpdate(w, a) ==
    /\ At(w, "idle")
    /\ now <= LastPress /\ presses < MaxPresses
    /\ app[a].status # "none"
    /\ lock[a] = NoWorker
    /\ TakeRow(w, a)
    /\ Becomes(w, [Idle EXCEPT !.step = "review", !.on = {a}, !.seen = Seen({a}), !.at = now])
    /\ presses' = presses + 1
    /\ UNCHANGED <<now, dbVars, crashes>>

\* advance and reject.  With target the next stage it is advance that was asked
\* for, with rejected it is reject.
Review(w, target) ==
    /\ At(w, "review")
    /\ \E a \in tx[w].on :
         /\ target \in Allowed(tx[w].seen[a].status)
         /\ Move(a, [app[a] EXCEPT !.status = target, !.started = tx[w].at,
                        !.decided = IF target \in {"approved", "rejected"}
                                    THEN tx[w].at ELSE @],
                 <<[from |-> tx[w].seen[a].status, to |-> target, by |-> "champion"]>>)
    /\ Finish(w)
    /\ UNCHANGED <<now, account, number, paid, presses, crashes>>

\* Every other target, and every target once the review is over, gets a 400.
RefuseReview(w) == At(w, "review") /\ Refuse(w)

-----------------------------------------------------------------------------
\* The account.

\* disburse: SELECT ... FOR UPDATE, and no active account of the tenant.
Disburse(w, a) ==
    /\ At(w, "idle")
    /\ lock[a] = NoWorker
    /\ app[a].status = "approved"
    /\ Active(TenantOf[a]) = {}
    /\ TakeRow(w, a)
    /\ Becomes(w, [Idle EXCEPT !.step = "number", !.on = {a}, !.seen = Seen({a}), !.at = now])
    /\ UNCHANGED <<now, dbVars, presses, crashes>>

\* _next_account_number: the count of all accounts that the account number is made of.
CountAccounts(w) ==
    /\ At(w, "number")
    /\ Becomes(w, [tx[w] EXCEPT !.step = "disburse", !.count = Cardinality(Opened)])
    /\ UNCHANGED <<now, dbVars, lock, presses, crashes>>

\* The unique indexes of turbo_loan_accounts on application_id, on tenant_id where
\* the status is active, and on account_number.
KeysFree(a, n) ==
    /\ account[a] = "none"
    /\ Active(TenantOf[a]) = {}
    /\ \A b \in Opened : number[b] # n

\* INSERT of the account and its installments, and the commit.
OpenAccount(w) ==
    /\ At(w, "disburse")
    /\ \E a \in tx[w].on :
         /\ KeysFree(a, tx[w].count + 1)
         /\ account' = [account EXCEPT ![a] = "active"]
         /\ number' = [number EXCEPT ![a] = tx[w].count + 1]
         /\ Move(a, [app[a] EXCEPT !.status = "disbursed", !.decided = tx[w].at],
                 <<[from |-> tx[w].seen[a].status, to |-> "disbursed", by |-> "merchant"]>>)
    /\ Finish(w)
    /\ UNCHANGED <<now, paid, presses, crashes>>

\* An IntegrityError of any of the indexes is a rollback and a 400.
RefuseAccount(w) ==
    /\ At(w, "disburse")
    /\ \E a \in tx[w].on : ~KeysFree(a, tx[w].count + 1)
    /\ Refuse(w)

\* pay_installment reads an unpaid installment with no lock; the amount is enough.
ReadInstallment(w, a, k) ==
    /\ At(w, "idle")
    /\ account[a] # "none" /\ k \notin paid[a]
    /\ Becomes(w, [Idle EXCEPT !.step = "pay", !.on = {a}, !.seq = k])
    /\ UNCHANGED <<now, dbVars, lock, presses, crashes>>

\* What the count of unpaid installments finds: its own payment and those committed.
Unpaid(w, a) == (1 .. Term) \ (paid[a] \cup {tx[w].seq})

\* The count flushes the UPDATE of the installment, then looks.
CountUnpaid(w) ==
    /\ At(w, "pay")
    /\ \E a \in tx[w].on :
         /\ TakeRow(w, <<a, tx[w].seq>>)
         /\ Becomes(w, [tx[w] EXCEPT !.step = "settle", !.count = Cardinality(Unpaid(w, a))])
    /\ UNCHANGED <<now, dbVars, presses, crashes>>

Settle(w) ==
    /\ At(w, "settle")
    /\ \E a \in tx[w].on :
         /\ paid' = [paid EXCEPT ![a] = @ \cup {tx[w].seq}]
         /\ account' = [account EXCEPT ![a] = IF tx[w].count = 0 THEN "closed" ELSE @]
    /\ Finish(w)
    /\ UNCHANGED <<now, app, log, number, presses, crashes>>

-----------------------------------------------------------------------------
Crash(w) ==
    /\ ~At(w, "idle")
    /\ crashes < MaxCrashes
    /\ Finish(w)
    /\ crashes' = crashes + 1
    /\ UNCHANGED <<now, dbVars, presses>>

Views == {{a} : a \in Applications} \cup {Of(t) : t \in Tenants}

Serve(w) ==
    \/ InsertApplication(w)
    \/ \E a \in Applications : AutoAdvance(w, a)
    \/ \E target \in Status : Review(w, target)
    \/ RefuseReview(w) \/ CountAccounts(w) \/ OpenAccount(w) \/ RefuseAccount(w)
    \/ CountUnpaid(w) \/ Settle(w)

Ask(w) ==
    \/ \E S \in Views : View(w, S)
    \/ \E a \in Applications :
         \/ Apply(w, a) \/ FastForward(w, a) \/ LoadForUpdate(w, a) \/ Disburse(w, a)
         \/ \E k \in 1 .. Term : ReadInstallment(w, a, k)

Next == Tick \/ \E w \in Workers : Serve(w) \/ Ask(w) \/ Crash(w)

Spec == Init /\ [][Next]_vars

\* The event loop and the lock queues serve every request, time goes on, and
\* the application is looked at again and again.
Fairness ==
    /\ WF_vars(Tick)
    /\ \A w \in Workers : SF_vars(Serve(w))
    /\ \A a \in Applications : SF_vars(\E w \in Workers : View(w, {a}))

FairSpec == Spec /\ Fairness

-----------------------------------------------------------------------------
\* Properties.

\* A tenant never owes on two accounts, though two of its applications may be
\* disbursed at the same moment; and accounts are numbered without gap or repeat,
\* though the number is a count that another disbursal may have made stale.
OneActiveAccount ==
    /\ \A t \in Tenants : Cardinality(Active(t)) <= 1
    /\ \A a, b \in Opened : number[a] = number[b] => a = b
    /\ {number[a] : a \in Opened} = 1 .. Cardinality(Opened)

Logged(a, s) == {k \in DOMAIN log[a] : log[a][k].to = s}

\* Money leaves once per application, after an approval, and exactly when the log
\* says so, whatever the clock writes over the status.
AccountsAreApproved ==
    \A a \in Applications :
        /\ Cardinality(Logged(a, "disbursed")) = IF account[a] = "none" THEN 0 ELSE 1
        /\ \A k \in Logged(a, "disbursed") : \E j \in Logged(a, "approved") : j < k

\* The log makes only allowed moves and ends at the application's status; a person
\* acts on the state the log has reached, and only the clock may not.
PeopleActOnTheLatest ==
    \A a \in Applications :
        /\ app[a].status = IF log[a] = <<>> THEN "none" ELSE Last(log[a]).to
        /\ \A k \in 2 .. Len(log[a]) :
             LET e == log[a][k] IN
             /\ e.to \in Allowed(e.from) \/ <<e.from, e.to>> = <<"approved", "disbursed">>
             /\ e.from = log[a][k - 1].to \/ e.by = "system"

\* An application left to the clock is in each stage for that stage's own time:
\* however late and from however many views the clock runs, it does not drift.
ClockKeepsTime ==
    \A a \in Applications :
        LET alone == ~app[a].hurried /\ \A k \in 2 .. Len(log[a]) : log[a][k].by = "system"
        IN  alone /\ app[a].status \in InFlight =>
              app[a].started =
                app[a].created + WaitFor("submitted", Place(app[a].status) - 1)

\* An account is closed only when every installment is paid.
ClosedMeansPaid ==
    \A a \in Applications : account[a] = "closed" => paid[a] = 1 .. Term

\* Under fairness no application stays in review: the clock and stale writes
\* included, it comes to a decision.
ReviewEnds ==
    \A a \in Applications :
        app[a].status \in ReviewStages ~> app[a].status \notin ReviewStages

\* The comments on _ALLOWED_TRANSITIONS and _auto_advance: rejected is terminal, and
\* a champion's button press always wins a race against the clock.
RejectedIsTerminal ==
    \A a \in Applications : \A k \in Logged(a, "rejected") : k = Len(log[a])
=============================================================================

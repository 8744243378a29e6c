--------------------------- MODULE Notifications ---------------------------
(***************************************************************************)
(* The notices a shop gets and the jobs that make them.  Sweeps for low    *)
(* stock and for the day's summary poll every quarter of an hour, started  *)
(* by the scheduler or by an owner's button; a notice is inserted under a  *)
(* key, fanned out to the channels, and each delivery is tried until it is *)
(* sent or has failed MaxAttempts times.  A job that dies is rolled back   *)
(* and leaves what it sent.  One shop; instants count hours of its clock.  *)
(* Statements of a job that nothing can come between with a difference are *)
(* one step: a job's reads up to the stock, a flush and the count after    *)
(* it, an INSERT and the COMMIT that nothing waits for.                    *)
(***************************************************************************)
EXTENDS Integers, FiniteSets, RowLocks

CONSTANTS
    Products,
    Channels,       \* CHANNELS
    Pushed,         \* those with requires_dispatch
    MaxAttempts,    \* _MAX_ATTEMPTS
    Repeat,         \* low_stock_repeat_days
    DayLength,
    NoQuiet, NoRow,
    Scenes,         \* what a behaviour may start with; field presses is a bound
    Edits,          \* bodies of update_settings: the columns they set
    LastHour, MaxCrashes  \* bounds: hours, crashes

Jobs == {"low_stock", "daily_summary", "dispatch"}

\* A row of low_stock_alert_state: its id, last_alerted_on and, no column, whether the
\* sweep that wrote it overlapped no other.
AlertRows == [id : Nat, on : Nat, alone : BOOLEAN]

ASSUME NotificationsAssumption ==
    /\ NoWorker \notin Workers
    /\ Pushed \subseteq Channels
    /\ MaxAttempts \in Nat \ {0} /\ Repeat \in Nat \ {0} /\ DayLength \in Nat \ {0}
    /\ NoRow \notin AlertRows

\* No notice yet, so none that a row of an alert would be due to.
ASSUME ScenesAssumption ==
    \A s \in Scenes :
        /\ s.now \in Nat /\ s.low \subseteq Products
        /\ DOMAIN s.notes = {} /\ DOMAIN s.deliveries = {}
        /\ s.alert \in [Products -> AlertRows \cup {NoRow}]
        /\ \A p \in Products : s.alert[p] # NoRow => ~s.alert[p].alone

VARIABLES
    now,
    low,        \* products at or below their threshold
    spell,      \* per product, how often it went low; no column
    owned,      \* the shop has an owner (module Accounts)
    settings,   \* the row of notification_settings, or NoRow
    alert,      \* per product, its row of low_stock_alert_state, or NoRow
    notes,      \* per dedupe_key, its notification; a key is the job, the day and,
                \* for low_stock, a count
    deliveries, \* per <<key, channel>>, its delivery
    tx,         \* per worker, the job it runs
    scheduled,  \* scheduler_enabled
    presses,    \* what people may still do
    crashes

dbVars == <<settings, alert, notes, deliveries>>
worldVars == <<now, low, spell, owned, scheduled>>
vars == <<worldVars, dbVars, lock, tx, presses, crashes>>

Defaults == [lowStock |-> TRUE, lowTime |-> 1, summary |-> TRUE, summaryTime |-> 2, quiet |-> NoQuiet]

Idle ==
    [step |-> "idle", job |-> "", byClock |-> FALSE, day |-> 0,
     alone |-> TRUE,      \* no other sweep for low stock overlapped this one; no column
     low |-> {}, spells |-> <<>>, rows |-> <<>>, newly |-> {}, key |-> <<>>,
     seen |-> <<>>,       \* per delivery to be tried, the attempts that were read
     result |-> <<>>]     \* per delivery tried, what became of it

\* A delivery with what no column holds: how often it was handed to its channel, how
\* often that succeeded, both up to one more than may be, and whether every try was
\* recorded before the next reader.
Delivery(notBefore) ==
    [status |-> "pending", attempts |-> 0, notBefore |-> notBefore,
     tries |-> 0, out |-> 0, clean |-> TRUE]

Init ==
    /\ crashes = 0
    /\ \E s \in Scenes :
         /\ now = s.now /\ low = s.low /\ owned = s.owned /\ settings = s.settings /\ alert = s.alert
         /\ notes = s.notes /\ deliveries = s.deliveries
         /\ scheduled = s.scheduled /\ presses = s.presses
    /\ spell = [p \in Products |-> 0]
    /\ lock = [p \in Products |-> NoWorker]
    /\ tx = [w \in Workers |-> Idle]

Up(n, most) == IF n < most THEN n + 1 ELSE n

\* g, with what f says instead.
Over(f, g) == [x \in DOMAIN f \cup DOMAIN g |-> IF x \in DOMAIN f THEN f[x] ELSE g[x]]

At(w, step) == tx[w].step = step
Becomes(w, r) == tx' = [tx EXCEPT ![w] = r]
Finish(w) == Becomes(w, Idle)
Hour == now % DayLength
Sweeping(w) == tx[w].job = "low_stock" /\ tx[w].step \notin {"dispatch", "send"}

-----------------------------------------------------------------------------
\* Variants of definitions below, each with a bug that a property must refute.

\* A product is alerted again while its row is of today.
NewlyLowAlways(rows, lowNow, day) == lowNow

\* Failed deliveries are retried without end.
DueEvenExhausted(d) ==
    deliveries[d].status \in {"pending", "failed"} /\ deliveries[d].notBefore <= now

\* Failed deliveries are not retried, though attempts are left.
DuePendingOnly(d) == deliveries[d].status = "pending" /\ deliveries[d].notBefore <= now

-----------------------------------------------------------------------------
\* The world: sales and deliveries move stock (Checkout, Purchasing), time passes.
StockMoves ==
    \E p \in Products :
        /\ presses > 0
        /\ presses' = presses - 1
        /\ IF p \in low
           THEN low' = low \ {p} /\ UNCHANGED spell
           ELSE low' = low \cup {p} /\ spell' = [spell EXCEPT ![p] = @ + 1]
        /\ UNCHANGED <<now, owned, scheduled, dbVars, lock, tx, crashes>>

Tick ==
    /\ now < LastHour
    /\ now' = now + 1
    /\ UNCHANGED <<low, spell, owned, scheduled, dbVars, lock, tx, presses, crashes>>

\* update_settings, on a row that exists.
UpdateSettings ==
    \E edit \in Edits :
        /\ presses > 0 /\ settings # NoRow
        /\ settings' = Over(edit, settings)
        /\ presses' = presses - 1
        /\ UNCHANGED <<worldVars, alert, notes, deliveries, lock, tx, crashes>>

\* mark_read and mark_all_read.
MarkRead ==
    \E keys \in {{k} : k \in DOMAIN notes} \cup {DOMAIN notes} :
        /\ presses > 0
        /\ notes' = [k \in DOMAIN notes |->
                       IF k \in keys THEN [notes[k] EXCEPT !.read = TRUE] ELSE notes[k]]
        /\ presses' = presses - 1
        /\ UNCHANGED <<worldVars, settings, alert, deliveries, lock, tx, crashes>>

-----------------------------------------------------------------------------
\* run_job: the scheduler keeps to one instance of each job, the button does not.
MayRun(w, job, byClock) ==
    /\ At(w, "idle")
    /\ IF byClock THEN /\ scheduled
                       /\ \A v \in Workers : ~(tx[v].byClock /\ tx[v].job = job)
                       /\ UNCHANGED presses
       ELSE presses > 0 /\ presses' = presses - 1

\* Both sweeps wait for the hour that the shop has set.
Wanted(job, row) ==
    IF job = "low_stock" THEN row.lowStock /\ Hour >= row.lowTime
                         ELSE row.summary /\ Hour >= row.summaryTime

\* A sweep with its settings in hand: it ends, or reads the stock, or the day's sales.
Swept(job, byClock, row) ==
    LET today == now \div DayLength IN
    CASE row = NoRow -> [Idle EXCEPT !.step = "add settings", !.job = job, !.byClock = byClock]
      [] row # NoRow /\ ~Wanted(job, row) -> Idle
      [] OTHER ->
           [Idle EXCEPT !.step = IF job = "low_stock" THEN "states" ELSE "create",
              !.job = job, !.byClock = byClock, !.day = today, !.low = low, !.spells = spell,
              !.key = IF job = "low_stock" THEN <<>> ELSE <<job, today, 0>>]

\* system_context finds no shop without an owner.
RunSweep(w, job, byClock) ==
    LET t == Swept(job, byClock, settings) IN
    /\ job \in {"low_stock", "daily_summary"}
    /\ owned /\ MayRun(w, job, byClock)
    /\ tx' = [v \in Workers |->
                IF v = w THEN [t EXCEPT !.alone = \A u \in Workers : ~Sweeping(u)]
                ELSE [tx[v] EXCEPT !.alone = @ /\ ~(t.job = "low_stock" /\ Sweeping(v))]]
    /\ UNCHANGED <<worldVars, dbVars, lock, crashes>>

\* get_settings: the first reader inserts the row, the second one's INSERT fails.
InsertSettings(w) ==
    /\ At(w, "add settings")
    /\ IF settings = NoRow
       THEN /\ settings' = Defaults
            /\ Becomes(w, [Swept(tx[w].job, tx[w].byClock, Defaults) EXCEPT !.alone = tx[w].alone])
       ELSE Finish(w) /\ UNCHANGED settings
    /\ UNCHANGED <<worldVars, alert, notes, deliveries, lock, presses, crashes>>

NewlyLow(rows, lowNow, day) ==
    {p \in lowNow : rows[p] = NoRow \/ day - rows[p].on >= Repeat}

ReadStates(w) ==
    /\ At(w, "states")
    /\ Becomes(w, [tx[w] EXCEPT !.step = "flush", !.rows = alert,
                      !.newly = NewlyLow(alert, tx[w].low, tx[w].day)])
    /\ UNCHANGED <<worldVars, dbVars, lock, presses, crashes>>

Recovered(w) == {p \in Products : tx[w].rows[p] # NoRow} \ tx[w].low

SameRow(a, b) == a # NoRow /\ b # NoRow /\ a.id = b.id

\* The rows as the sweep leaves them: a DELETE of a row that is gone does nothing.
AlertAfter(w) ==
    LET read == tx[w].rows IN
    [p \in Products |->
        IF p \in tx[w].newly
        THEN [id |-> IF read[p] = NoRow THEN tx[w].spells[p] ELSE read[p].id,
              on |-> tx[w].day, alone |-> tx[w].alone]
        ELSE IF p \in Recovered(w) /\ SameRow(alert[p], read[p]) THEN NoRow ELSE alert[p]]

\* The flush waits for the rows, and fails if an UPDATE finds its row gone or an INSERT
\* finds one.  With nothing newly low, the deletions are all there is to commit; else
\* the key of the digest is how many the day has had.
FlushStates(w) ==
    LET read == tx[w].rows
        rows == tx[w].newly \cup Recovered(w)
        Fails == \E p \in tx[w].newly :
                    IF read[p] = NoRow THEN alert[p] # NoRow ELSE ~SameRow(alert[p], read[p])
        digests == {k \in DOMAIN notes : k[1] = "low_stock" /\ k[2] = tx[w].day}
    IN  /\ At(w, "flush")
        /\ \A p \in rows : lock[p] = NoWorker
        /\ IF Fails THEN Finish(w) /\ UNCHANGED <<alert, lock>>
           ELSE IF tx[w].newly = {} THEN alert' = AlertAfter(w) /\ Finish(w) /\ UNCHANGED lock
           ELSE /\ lock' = [p \in Products |-> IF p \in rows THEN w ELSE lock[p]]
                /\ Becomes(w, [tx[w] EXCEPT !.step = "create",
                                  !.key = <<"low_stock", tx[w].day, Cardinality(digests)>>])
                /\ UNCHANGED alert
        /\ UNCHANGED <<worldVars, settings, notes, deliveries, presses, crashes>>

TimeInWindow(t, start, end) ==
    IF start <= end THEN start <= t /\ t < end ELSE t >= start \/ t < end

\* _quiet_hours_not_before: the hour at which the quiet window next ends, 0 for none.
QuietUntil ==
    IF settings.quiet = NoQuiet \/ ~TimeInWindow(Hour, settings.quiet[1], settings.quiet[2])
    THEN 0
    ELSE LET end == now - Hour + settings.quiet[2]
         IN  IF end <= now THEN end + DayLength ELSE end

-----------------------------------------------------------------------------
\* dispatch_pending, of one notice right after it or of all in the dispatch job: what
\* it is to try.  A channel that does not push has nothing to send.
Due(d) ==
    /\ deliveries[d].status \in {"pending", "failed"}
    /\ deliveries[d].attempts < MaxAttempts
    /\ deliveries[d].notBefore <= now

Dispatching(t, due, all) ==
    IF due = {} THEN Idle
    ELSE [Idle EXCEPT !.step = "send", !.job = t.job, !.byClock = t.byClock,
            !.seen = [d \in due |-> all[d].attempts],
            !.result = [d \in {x \in due : x[2] \notin Pushed} |-> "sent"]]

\* The deliveries after a dispatcher has read those due.
Handed(all, due, shared) ==
    [d \in DOMAIN all |->
        IF d \notin due THEN all[d]
        ELSE IF d[2] \in Pushed THEN [all[d] EXCEPT !.clean = @ /\ ~shared]
        ELSE [all[d] EXCEPT !.tries = Up(@, MaxAttempts + 1), !.out = Up(@, 2), !.clean = @ /\ ~shared]]

\* create: the INSERT does nothing on a key that exists, and what the caller has flushed
\* is committed all the same; else the deliveries go in with the notice.
CreateNote(w) ==
    LET t == tx[w]
        NotBefore(channel) == IF channel \in Pushed THEN QuietUntil ELSE 0
        new == [d \in {t.key} \X Channels |-> Delivery(NotBefore(d[2]))]
    IN  /\ At(w, "create")
        /\ alert' = IF t.job = "low_stock" THEN AlertAfter(w) ELSE alert
        /\ ReleaseRows(w)
        /\ IF t.key \in DOMAIN notes
           THEN Finish(w) /\ UNCHANGED <<notes, deliveries>>
           ELSE /\ notes' = [k \in DOMAIN notes \cup {t.key} |->
                              IF k = t.key THEN [listed |-> t.newly, spells |-> t.spells,
                                                 alone |-> t.alone, read |-> FALSE]
                              ELSE notes[k]]
                /\ deliveries' = Over(new, deliveries)
                /\ Becomes(w, [Idle EXCEPT !.step = "dispatch", !.job = t.job,
                                  !.byClock = t.byClock, !.key = t.key])
        /\ UNCHANGED <<worldVars, settings, presses, crashes>>

\* The SELECT of dispatch_pending, which has no lock: what another dispatcher has in hand
\* is read again.
Select(w, t, due) ==
    /\ Becomes(w, Dispatching(t, due, deliveries))
    /\ deliveries' = Handed(deliveries, due, \E v \in Workers : DOMAIN tx[v].seen \cap due # {})
    /\ UNCHANGED <<worldVars, settings, alert, notes, lock, crashes>>

\* After its commit create dispatches the deliveries of its notice.
DispatchNote(w) ==
    /\ At(w, "dispatch")
    /\ Select(w, tx[w], {d \in DOMAIN deliveries : d[1] = tx[w].key /\ Due(d)})
    /\ UNCHANGED presses

RunDispatch(w, byClock) ==
    /\ MayRun(w, "dispatch", byClock)
    /\ Select(w, [Idle EXCEPT !.job = "dispatch", !.byClock = byClock], {d \in DOMAIN deliveries : Due(d)})

Send(w) ==
    \E d \in DOMAIN tx[w].seen \ DOMAIN tx[w].result, outcome \in {"sent", "failed"} :
        /\ At(w, "send")
        /\ Becomes(w, [tx[w] EXCEPT !.result = Over([x \in {d} |-> outcome], @)])
        /\ deliveries' = [deliveries EXCEPT ![d].tries = Up(@, MaxAttempts + 1),
                                            ![d].out = IF outcome = "sent" THEN Up(@, 2) ELSE @]
        /\ UNCHANGED <<worldVars, settings, alert, notes, lock, presses, crashes>>

\* The one commit of a dispatch writes the attempts it reckoned from its read.
RecordSends(w) ==
    LET t == tx[w] IN
    /\ At(w, "send") /\ DOMAIN t.result = DOMAIN t.seen
    /\ deliveries' = [d \in DOMAIN deliveries |->
                        IF d \in DOMAIN t.seen
                        THEN [deliveries[d] EXCEPT !.attempts = t.seen[d] + 1, !.status = t.result[d]]
                        ELSE deliveries[d]]
    /\ Finish(w)
    /\ UNCHANGED <<worldVars, settings, alert, notes, lock, presses, crashes>>

\* The process dies and all its jobs with it.
Crash ==
    LET Tried(d) == \E w \in Workers : d \in DOMAIN tx[w].result IN
    /\ crashes < MaxCrashes
    /\ \E w \in Workers : ~At(w, "idle")
    /\ tx' = [w \in Workers |-> Idle]
    /\ lock' = [p \in Products |-> NoWorker]
    /\ deliveries' = [d \in DOMAIN deliveries |-> [deliveries[d] EXCEPT !.clean = @ /\ ~Tried(d)]]
    /\ crashes' = crashes + 1
    /\ UNCHANGED <<worldVars, settings, alert, notes, presses>>

-----------------------------------------------------------------------------
Run(w, job, byClock) ==
    RunSweep(w, job, byClock) \/ (job = "dispatch" /\ RunDispatch(w, byClock))

Work(w) ==
    \/ InsertSettings(w) \/ ReadStates(w) \/ FlushStates(w)
    \/ CreateNote(w) \/ DispatchNote(w) \/ Send(w) \/ RecordSends(w)

Next ==
    \/ StockMoves \/ Tick \/ UpdateSettings \/ MarkRead \/ Crash
    \/ \E w \in Workers :
         Work(w) \/ \E job \in Jobs, byClock \in BOOLEAN : Run(w, job, byClock)

\* Time goes on, the scheduler starts each job again and again, and a statement that
\* need not wait returns.
Fairness ==
    /\ WF_vars(Tick)
    /\ \A job \in Jobs : SF_vars(\E w \in Workers : Run(w, job, TRUE))
    /\ \A w \in Workers : SF_vars(Work(w))

Spec == Init /\ [][Next]_vars /\ Fairness

-----------------------------------------------------------------------------
\* Properties.

Digests == {k \in DOMAIN notes : k[1] = "low_stock"}

\* A product is told of once a day for one spell of being low, and what counts as
\* alerted today was listed in a digest of today, if no two sweeps overlapped.  If two
\* did, the second may repeat the first, or compute the key the first has used: then
\* its products count as alerted and nobody is told.
DigestsSound ==
    /\ \A j, k \in Digests : \A p \in notes[j].listed \cap notes[k].listed :
         j # k /\ j[2] = k[2] /\ notes[j].spells[p] = notes[k].spells[p] =>
           ~notes[j].alone \/ ~notes[k].alone
    /\ \A p \in Products : alert[p] # NoRow /\ alert[p].alone =>
         \E k \in Digests : k[2] = alert[p].on /\ p \in notes[k].listed

\* A delivery whose every try was recorded before the next dispatcher read it goes out
\* at most once and is tried at most MaxAttempts times; attempts never counts a try
\* that was not made, and a delivery called sent went out.
DeliveriesBounded ==
    \A d \in DOMAIN deliveries :
        LET v == deliveries[d] IN
        /\ v.clean => v.out <= 1 /\ v.tries <= MaxAttempts
        /\ v.attempts <= v.tries
        /\ v.status = "sent" => v.out >= 1

Settled(d) ==
    deliveries[d].status = "sent" \/ deliveries[d].attempts >= MaxAttempts

\* Under a scheduler every delivery is at last sent or given up, and a product that
\* stays low in a shop that wants to know has a row that says it was alerted.
AlertsArrive ==
    scheduled =>
      /\ <>[](\A d \in DOMAIN deliveries : Settled(d))
      /\ owned => <>[](settings # NoRow /\ (Wanted("low_stock", settings) => \A p \in low : alert[p] # NoRow))
=============================================================================

------------------------ MODULE NotificationsProofs ------------------------
(***************************************************************************)
(* Theorems about Notifications for any number of jobs, products and       *)
(* channels, any settings and any length of the day: what the deliveries   *)
(* of a notice may come to, and whom the digests of low stock tell what.   *)
(***************************************************************************)
EXTENDS Notifications, DataTheorems

Holds(w, d) == d \in DOMAIN tx[w].seen
Tried(w, d) == d \in DOMAIN tx[w].result

\* Worker w reckons delivery d from the attempts it read: no more than were made.  While
\* d is clean nobody else has it, and it is as w has read it but for w's own try.
HeldOK(w, d) ==
    LET v == deliveries[d]
        n == tx[w].seen[d]
        sent == Tried(w, d) /\ tx[w].result[d] = "sent"
    IN  /\ d \in DOMAIN deliveries
        /\ n \in Nat /\ n < MaxAttempts /\ n <= v.tries
        /\ Tried(w, d) => n + 1 <= v.tries /\ tx[w].result[d] \in {"sent", "failed"}
        /\ sent => v.out >= 1
        /\ v.clean => /\ n = v.attempts /\ v.status # "sent"
                      /\ v.tries = (IF Tried(w, d) THEN n + 1 ELSE n)
                      /\ v.out = (IF sent THEN 1 ELSE 0)
                      /\ \A u \in Workers : Holds(u, d) => u = w

\* No delivery claims more than was done.
Honest(v) ==
    /\ DOMAIN v = DOMAIN Delivery(0)
    /\ v.attempts \in Nat /\ v.tries \in Nat /\ v.out \in Nat /\ v.clean \in BOOLEAN
    /\ v.status \in {"pending", "sent", "failed"}
    /\ v.attempts <= v.tries
    /\ v.status = "sent" => v.out >= 1

\* What became of a delivery is all that was done.
Exact(v) ==
    /\ v.tries = v.attempts /\ v.attempts <= MaxAttempts
    /\ v.out = (IF v.status = "sent" THEN 1 ELSE 0)

\* A clean delivery that nobody has in hand says what became of it.
DeliveryOK(d) ==
    /\ Honest(deliveries[d])
    /\ deliveries[d].clean /\ (\A w \in Workers : ~Holds(w, d)) => Exact(deliveries[d])

\* A request has the fields of Idle, and deliveries in hand only while it sends.
JobOK(w) ==
    /\ DOMAIN tx[w] = DOMAIN Idle
    /\ DOMAIN tx[w].result \subseteq DOMAIN tx[w].seen
    /\ tx[w].step # "send" => DOMAIN tx[w].seen = {}

SendInv ==
    /\ DOMAIN tx = Workers
    /\ \A w \in Workers : JobOK(w)
    /\ \A d \in DOMAIN deliveries : d[1] \in DOMAIN notes /\ DeliveryOK(d)
    /\ \A w \in Workers : \A d \in DOMAIN tx[w].seen : HeldOK(w, d)

Today == now \div DayLength
DigestsOf(day) == {k \in DOMAIN notes : k[1] = "low_stock" /\ k[2] = day}

\* The digests of a day are numbered from 0.
KeysOK ==
    /\ IsFiniteSet(DOMAIN notes)
    /\ \A k \in DOMAIN notes : /\ k \in Jobs \X Nat \X Nat /\ k[2] <= Today
                               /\ DOMAIN notes[k] = {"listed", "spells", "alone", "read"}
    /\ \A day, n \in Nat :
         <<"low_stock", day, n>> \in DOMAIN notes <=> n < Cardinality(DigestsOf(day))

\* Product p was not low at some time since spell s of it was the last.
Passed(p, s) == spell[p] > s \/ p \notin low

\* What a digest made alone has listed is alerted as of that day, or was not low since.
DigestOK(j) ==
    \A p \in notes[j].listed :
        /\ p \in Products /\ notes[j].spells[p] \in Nat /\ notes[j].spells[p] <= spell[p]
        /\ (alert[p] # NoRow /\ alert[p].on >= j[2]) \/ Passed(p, notes[j].spells[p])

\* A sweep that has read which products are low.
Reading(w) == Sweeping(w) /\ tx[w].step \in {"states", "flush", "create"}

\* ... did so after every digest made alone: of what that has listed, it saw a product
\* not low after it, or sees the row it left if it is alone itself.
AfterDigest(w, j) ==
    LET t == tx[w] IN
    /\ j[2] <= t.day
    /\ \A p \in notes[j].listed :
         LET s == notes[j].spells[p] IN
         /\ p \in t.low \/ Passed(p, s)
         /\ t.alone /\ p \in t.low /\ t.spells[p] = s =>
              /\ t.step = "states" => alert[p] # NoRow /\ alert[p].on >= j[2]
              /\ t.step # "states" /\ p \in t.newly => j[2] # t.day

SweepOK(w) ==
    LET t == tx[w] IN
    /\ t.step \in {"idle", "add settings", "states", "flush", "create", "dispatch", "send"}
    /\ t.step \in {"states", "flush"} => Sweeping(w)
    /\ t.step = "add settings" => t.job \in {"low_stock", "daily_summary"}
    /\ t.alone \in BOOLEAN
    /\ t.step = "create" =>
         /\ t.key \in Jobs \X Nat \X Nat /\ t.key[2] <= Today
         /\ t.key[1] = "low_stock" <=> Sweeping(w)
    /\ Reading(w) =>
         /\ t.day \in Nat /\ t.day <= Today
         /\ t.low \subseteq Products
         /\ t.spells \in [Products -> Nat] /\ \A p \in Products : t.spells[p] <= spell[p]
         /\ \A j \in Digests : notes[j].alone => AfterDigest(w, j)
         /\ t.step # "states" =>
              t.newly \subseteq t.low /\ t.rows \in [Products -> AlertRows \cup {NoRow}]
         /\ t.step = "create" =>
              /\ t.key[2] = t.day
              /\ t.key[3] <= Cardinality(DigestsOf(t.day))
              /\ t.alone => t.key[3] = Cardinality(DigestsOf(t.day))

WorldOK ==
    /\ now \in Nat /\ low \subseteq Products /\ spell \in [Products -> Nat]
    /\ alert \in [Products -> AlertRows \cup {NoRow}]

JobsOK == DOMAIN tx = Workers /\ \A w \in Workers : DOMAIN tx[w] = DOMAIN Idle

DigestsOK ==
    \A j \in Digests : notes[j].alone \in BOOLEAN /\ (notes[j].alone => DigestOK(j))

OverlapsSeen ==
    \A w, u \in Workers : w # u /\ Sweeping(w) /\ Sweeping(u) => ~tx[w].alone

DigestInv ==
    /\ WorldOK /\ JobsOK /\ KeysOK /\ DigestsOK /\ OverlapsSeen /\ DigestsSound
    /\ \A w \in Workers : SweepOK(w)

-----------------------------------------------------------------------------
\* What the operators of the module yield.

\* A worker between jobs.
LEMMA IdleJob ==
    /\ DOMAIN Idle = {"step", "job", "byClock", "day", "alone", "low", "spells", "rows",
                      "newly", "key", "seen", "result"}
    /\ Idle.step = "idle" /\ Idle.job = "" /\ Idle.alone = TRUE
    /\ DOMAIN Idle.seen = {} /\ DOMAIN Idle.result = {}
  BY DEF Idle

\* Becomes touches one worker.
LEMMA BecomesJob ==
    ASSUME DOMAIN tx = Workers, NEW w \in Workers, NEW r, Becomes(w, r)
    PROVE  /\ DOMAIN tx' = Workers /\ tx'[w] = r
           /\ \A v \in Workers \ {w} : tx'[v] = tx[v]
  BY DEF Becomes

\* A job that has the deliveries due in hand, as it read them from all.
InHand(r, due, all) ==
    /\ DOMAIN r = DOMAIN Idle
    /\ DOMAIN r.seen = due /\ \A d \in due : r.seen[d] = all[d].attempts
    /\ DOMAIN r.result = {d \in due : d[2] \notin Pushed}
    /\ \A d \in DOMAIN r.result : r.result[d] = "sent"
    /\ due # {} => r.step = "send"
    /\ due = {} => r = Idle \/ r.step = "dispatch"
    /\ r.alone = TRUE

\* What a dispatcher takes in hand.
LEMMA DispatchingIs == \A t, due, all : InHand(Dispatching(t, due, all), due, all)
<1> SUFFICES ASSUME NEW t, NEW due, NEW all PROVE InHand(Dispatching(t, due, all), due, all)
  OBVIOUS
<1> PICK r : r = Dispatching(t, due, all)
  OBVIOUS
<1>1. CASE due = {}
  BY <1>1, IdleJob DEF Dispatching, InHand
<1>2. CASE due # {}
  <2>1. r = [Idle EXCEPT !.step = "send", !.job = t.job, !.byClock = t.byClock,
              !.seen = [d \in due |-> all[d].attempts],
              !.result = [d \in {x \in due : x[2] \notin Pushed} |-> "sent"]]
    BY <1>2 DEF Dispatching
  <2>2. /\ DOMAIN r = DOMAIN Idle /\ r.step = "send" /\ r.alone = TRUE
        /\ r.seen = [d \in due |-> all[d].attempts]
        /\ r.result = [d \in {x \in due : x[2] \notin Pushed} |-> "sent"]
    BY <2>1, IdleJob
  <2> QED
    BY <1>2, <2>2 DEF InHand
<1> QED
  BY <1>1, <1>2

\* A delivery that a dispatcher has read: what needs no channel is tried at once.
LEMMA HandedIs ==
    ASSUME NEW all, NEW due, NEW shared \in BOOLEAN, NEW d \in DOMAIN all,
           DOMAIN all[d] = DOMAIN Delivery(0), all[d].clean \in BOOLEAN,
           NEW v, v = Handed(all, due, shared)[d]
    PROVE  /\ DOMAIN Handed(all, due, shared) = DOMAIN all
           /\ DOMAIN v = DOMAIN Delivery(0)
           /\ v.attempts = all[d].attempts /\ v.status = all[d].status
           /\ v.tries = (IF d \in due /\ d[2] \notin Pushed
                         THEN Up(all[d].tries, MaxAttempts + 1) ELSE all[d].tries)
           /\ v.out = (IF d \in due /\ d[2] \notin Pushed THEN Up(all[d].out, 2) ELSE all[d].out)
           /\ v.clean \in BOOLEAN
           /\ v.clean <=> all[d].clean /\ (d \in due => ~shared)
<1>1. CASE d \notin due
  BY <1>1 DEF Handed
<1>2. CASE d \in due /\ d[2] \in Pushed
  <2>1. v = [all[d] EXCEPT !.clean = @ /\ ~shared]
    BY <1>2 DEF Handed
  <2>2. /\ DOMAIN v = DOMAIN Delivery(0) /\ v.attempts = all[d].attempts /\ v.status = all[d].status
        /\ v.tries = all[d].tries /\ v.out = all[d].out /\ v.clean = (all[d].clean /\ ~shared)
    BY <2>1 DEF Delivery
  <2> QED
    BY <1>2, <2>2 DEF Handed
<1>3. CASE d \in due /\ d[2] \notin Pushed
  <2>1. v = [all[d] EXCEPT !.tries = Up(@, MaxAttempts + 1), !.out = Up(@, 2), !.clean = @ /\ ~shared]
    BY <1>3 DEF Handed
  <2>2. /\ DOMAIN v = DOMAIN Delivery(0) /\ v.attempts = all[d].attempts /\ v.status = all[d].status
        /\ v.tries = Up(all[d].tries, MaxAttempts + 1) /\ v.out = Up(all[d].out, 2)
        /\ v.clean = (all[d].clean /\ ~shared)
    BY <2>1 DEF Delivery
  <2> QED
    BY <1>3, <2>2 DEF Handed
<1> QED
  BY <1>1, <1>2, <1>3

\* A job that has no delivery in hand and is not about to send.
Fresh(t) ==
    /\ DOMAIN t = DOMAIN Idle /\ DOMAIN t.seen = {} /\ DOMAIN t.result = {}
    /\ t.step \in {"idle", "add settings", "states", "create"}

\* A sweep has no delivery in hand.
LEMMA SweptIs == \A job, byClock, row : Fresh(Swept(job, byClock, row))
<1> SUFFICES ASSUME NEW job, NEW byClock, NEW row PROVE Fresh(Swept(job, byClock, row))
  OBVIOUS
<1> PICK t : t = Swept(job, byClock, row)
  OBVIOUS
<1>1. CASE row = NoRow
  <2>1. t = [Idle EXCEPT !.step = "add settings", !.job = job, !.byClock = byClock]
    BY <1>1 DEF Swept
  <2> QED
    BY <2>1, IdleJob DEF Fresh
<1>2. CASE row # NoRow /\ ~Wanted(job, row)
  BY <1>2, IdleJob DEF Swept, Fresh
<1>3. CASE row # NoRow /\ Wanted(job, row)
  <2>1. PICK today : today = now \div DayLength
    OBVIOUS
  <2>2. t = [Idle EXCEPT !.step = IF job = "low_stock" THEN "states" ELSE "create",
              !.job = job, !.byClock = byClock, !.day = today, !.low = low, !.spells = spell,
              !.key = IF job = "low_stock" THEN <<>> ELSE <<job, today, 0>>]
    BY <1>3, <2>1 DEF Swept
  <2>3. DOMAIN t = DOMAIN Idle /\ t.seen = Idle.seen /\ t.result = Idle.result
    BY <2>2, IdleJob
  <2>4. t.step = IF job = "low_stock" THEN "states" ELSE "create"
    BY <2>2, IdleJob
  <2> QED
    BY <2>3, <2>4, IdleJob DEF Fresh
<1> QED
  BY <1>1, <1>2, <1>3

-----------------------------------------------------------------------------
\* The deliveries: steps that leave every delivery where it was.

\* Every job keeps what it has in hand, and what became of it.
LEMMA SameInHand ==
    ASSUME SendInv, DOMAIN tx' = Workers, UNCHANGED deliveries, DOMAIN notes \subseteq DOMAIN notes',
           \A v \in Workers :
               /\ DOMAIN tx'[v] = DOMAIN Idle
               /\ DOMAIN tx'[v].seen = DOMAIN tx[v].seen
               /\ DOMAIN tx'[v].result = DOMAIN tx[v].result
               /\ \A d \in DOMAIN tx[v].seen : tx'[v].seen[d] = tx[v].seen[d]
               /\ \A d \in DOMAIN tx[v].result : tx'[v].result[d] = tx[v].result[d]
               /\ tx'[v].step # "send" => DOMAIN tx[v].seen = {}
    PROVE  SendInv'
<1>1. \A v \in Workers : JobOK(v)'
  BY DEF SendInv, JobOK
<1>2. ASSUME NEW d \in DOMAIN deliveries PROVE (d[1] \in DOMAIN notes)' /\ DeliveryOK(d)'
  BY DEF SendInv, DeliveryOK, Holds
<1>3. ASSUME NEW v \in Workers, NEW d \in DOMAIN tx[v].seen PROVE HeldOK(v, d)'
  BY DEF SendInv, HeldOK, Holds, Tried
<1> QED
  BY <1>1, <1>2, <1>3 DEF SendInv

\* Worker w has no delivery in hand, before or after.
LEMMA OneQuiet ==
    ASSUME SendInv, NEW w \in Workers, NEW r, Becomes(w, r), UNCHANGED deliveries,
           DOMAIN notes \subseteq DOMAIN notes', tx[w].step # "send",
           DOMAIN r = DOMAIN Idle, DOMAIN r.seen = {}, DOMAIN r.result = {}
    PROVE  SendInv'
<1>1. DOMAIN tx' = Workers /\ tx'[w] = r /\ \A v \in Workers \ {w} : tx'[v] = tx[v]
  BY BecomesJob DEF SendInv
<1>2. \A v \in Workers : JobOK(v)
  BY DEF SendInv
<1>3. DOMAIN tx[w].seen = {} /\ DOMAIN tx[w].result = {}
  BY <1>2 DEF JobOK
<1> QED
  BY <1>1, <1>2, <1>3, SameInHand DEF JobOK

\* Steps of the world.
LEMMA WorldSend ==
    ASSUME SendInv, UNCHANGED <<tx, deliveries>>, DOMAIN notes \subseteq DOMAIN notes'
    PROVE  SendInv'
  BY SameInHand DEF SendInv, JobOK

\* run_job of a sweep: it has no delivery in hand.
LEMMA RunSweepSend ==
    ASSUME SendInv, NEW w \in Workers, NEW job, NEW byClock, RunSweep(w, job, byClock)
    PROVE  SendInv'
<1>1. PICK t : t = Swept(job, byClock, settings)
  OBVIOUS
<1>2. Fresh(t)
  BY <1>1, SweptIs
<1>2a. /\ DOMAIN t = DOMAIN Idle /\ DOMAIN t.seen = {} /\ DOMAIN t.result = {} /\ t.step # "send"
  BY <1>2 DEF Fresh
<1>3. /\ tx[w].step = "idle" /\ UNCHANGED <<deliveries, notes>>
      /\ tx' = [v \in Workers |->
                  IF v = w THEN [t EXCEPT !.alone = \A u \in Workers : ~Sweeping(u)]
                  ELSE [tx[v] EXCEPT !.alone = @ /\ ~(t.job = "low_stock" /\ Sweeping(v))]]
  BY <1>1 DEF RunSweep, MayRun, At, dbVars
<1>4. \A v \in Workers : JobOK(v)
  BY DEF SendInv
<1>5. ASSUME NEW v \in Workers
      PROVE  /\ DOMAIN tx'[v] = DOMAIN Idle
             /\ DOMAIN tx'[v].seen = DOMAIN tx[v].seen
             /\ DOMAIN tx'[v].result = DOMAIN tx[v].result
             /\ \A d \in DOMAIN tx[v].seen : tx'[v].seen[d] = tx[v].seen[d]
             /\ \A d \in DOMAIN tx[v].result : tx'[v].result[d] = tx[v].result[d]
             /\ tx'[v].step # "send" => DOMAIN tx[v].seen = {}
  <2>1. CASE v = w
    <3>1. tx'[w] = [t EXCEPT !.alone = \A u \in Workers : ~Sweeping(u)]
      BY <1>3
    <3>2. DOMAIN tx'[w] = DOMAIN Idle /\ tx'[w].seen = t.seen /\ tx'[w].result = t.result
      BY <1>2a, <3>1, IdleJob
    <3>3. DOMAIN tx[w].seen = {} /\ DOMAIN tx[w].result = {}
      BY <1>3, <1>4 DEF JobOK
    <3> QED
      BY <1>2a, <2>1, <3>2, <3>3
  <2>2. CASE v # w
    <3>1. PICK b : tx'[v] = [tx[v] EXCEPT !.alone = b]
      BY <1>3, <2>2
    <3>2. DOMAIN tx[v] = DOMAIN Idle
      BY <1>4 DEF JobOK
    <3>3. /\ DOMAIN tx'[v] = DOMAIN Idle /\ tx'[v].seen = tx[v].seen
          /\ tx'[v].result = tx[v].result /\ tx'[v].step = tx[v].step
      BY <3>1, <3>2, IdleJob
    <3> QED
      BY <1>4, <3>3 DEF JobOK
  <2> QED
    BY <2>1, <2>2
<1>6. DOMAIN tx' = Workers
  BY <1>3
<1> QED
  BY <1>3, <1>5, <1>6, SameInHand

\* get_settings: the sweep ends or goes on with no delivery in hand.
LEMMA InsertSettingsSend ==
    ASSUME SendInv, NEW w \in Workers, InsertSettings(w)
    PROVE  SendInv'
<1>1. tx[w].step # "send" /\ UNCHANGED <<deliveries, notes>>
  BY DEF InsertSettings, At
<1>2. CASE Finish(w)
  BY <1>1, <1>2, IdleJob, OneQuiet DEF Finish
<1>3. CASE Becomes(w, [Swept(tx[w].job, tx[w].byClock, Defaults) EXCEPT !.alone = tx[w].alone])
  <2>1. PICK t : t = Swept(tx[w].job, tx[w].byClock, Defaults)
    OBVIOUS
  <2>2. PICK r : r = [t EXCEPT !.alone = tx[w].alone]
    OBVIOUS
  <2>3. DOMAIN t = DOMAIN Idle /\ DOMAIN t.seen = {} /\ DOMAIN t.result = {}
    BY <2>1, SweptIs DEF Fresh
  <2>4. DOMAIN r = DOMAIN Idle /\ r.seen = t.seen /\ r.result = t.result
    BY <2>2, <2>3, IdleJob
  <2>5. Becomes(w, r)
    BY <1>3, <2>1, <2>2
  <2> QED
    BY <1>1, <2>3, <2>4, <2>5, OneQuiet
<1> QED
  BY <1>2, <1>3 DEF InsertSettings

\* The read of low_stock_alert_state.
LEMMA ReadStatesSend ==
    ASSUME SendInv, NEW w \in Workers, ReadStates(w)
    PROVE  SendInv'
<1>1. tx[w].step = "states" /\ UNCHANGED <<deliveries, notes>>
  BY DEF ReadStates, At, dbVars
<1>2. PICK r : r = [tx[w] EXCEPT !.step = "flush", !.rows = alert,
                      !.newly = NewlyLow(alert, tx[w].low, tx[w].day)]
  OBVIOUS
<1>3. /\ DOMAIN tx[w] = DOMAIN Idle /\ DOMAIN tx[w].seen = {} /\ DOMAIN tx[w].result = {}
  BY <1>1 DEF SendInv, JobOK
<1>4. DOMAIN r = DOMAIN Idle /\ r.seen = tx[w].seen /\ r.result = tx[w].result
  BY <1>2, <1>3, IdleJob
<1>5. Becomes(w, r)
  BY <1>2 DEF ReadStates
<1> QED
  BY <1>1, <1>3, <1>4, <1>5, OneQuiet

\* The flush of low_stock_alert_state.
LEMMA FlushStatesSend ==
    ASSUME SendInv, NEW w \in Workers, FlushStates(w)
    PROVE  SendInv'
<1>1. tx[w].step = "flush" /\ UNCHANGED <<deliveries, notes>>
  BY DEF FlushStates, At
<1>2. CASE Finish(w)
  BY <1>1, <1>2, IdleJob, OneQuiet DEF Finish
<1>3. CASE \E k : Becomes(w, [tx[w] EXCEPT !.step = "create", !.key = k])
  <2>1. PICK k : Becomes(w, [tx[w] EXCEPT !.step = "create", !.key = k])
    BY <1>3
  <2>2. PICK r : r = [tx[w] EXCEPT !.step = "create", !.key = k]
    OBVIOUS
  <2>3. /\ DOMAIN tx[w] = DOMAIN Idle /\ DOMAIN tx[w].seen = {} /\ DOMAIN tx[w].result = {}
    BY <1>1 DEF SendInv, JobOK
  <2>4. DOMAIN r = DOMAIN Idle /\ r.seen = tx[w].seen /\ r.result = tx[w].result
    BY <2>2, <2>3, IdleJob
  <2>5. Becomes(w, r)
    BY <2>1, <2>2
  <2> QED
    BY <1>1, <2>3, <2>4, <2>5, OneQuiet
<1> QED
  BY <1>2, <1>3 DEF FlushStates

-----------------------------------------------------------------------------
\* The deliveries: steps that try some.

\* Worker w, with empty hands, reads the deliveries due and tries what needs no channel.
LEMMA TakenInHand ==
    ASSUME SendInv, NEW w \in Workers, NEW all, NEW due, NEW shared \in BOOLEAN, NEW r,
           InHand(r, due, all), Becomes(w, r), tx[w].step # "send",
           deliveries' = Handed(all, due, shared), DOMAIN notes \subseteq DOMAIN notes',
           due \subseteq DOMAIN all, DOMAIN deliveries \subseteq DOMAIN all,
           \A d \in DOMAIN all : d[1] \in DOMAIN notes' /\ Honest(all[d]),
           \A d \in DOMAIN deliveries : all[d] = deliveries[d],
           \A d \in DOMAIN all \ DOMAIN deliveries : Exact(all[d]),
           \A d \in due : all[d].attempts < MaxAttempts /\ all[d].status # "sent",
           ~shared => \A u \in Workers, d \in due : ~Holds(u, d)
    PROVE  SendInv'
<1>1. DOMAIN tx' = Workers /\ tx'[w] = r /\ \A v \in Workers \ {w} : tx'[v] = tx[v]
  BY BecomesJob DEF SendInv
<1>2. /\ DOMAIN r = DOMAIN Idle
      /\ DOMAIN r.seen = due /\ \A d \in due : r.seen[d] = all[d].attempts
      /\ DOMAIN r.result = {d \in due : d[2] \notin Pushed}
      /\ \A d \in DOMAIN r.result : r.result[d] = "sent"
      /\ due # {} => r.step = "send"
  BY DEF InHand
<1>3. \A v \in Workers : JobOK(v)
  BY DEF SendInv
<1>4. \A d : ~Holds(w, d)
  BY <1>3 DEF JobOK, Holds
<1>5. \A v \in Workers : JobOK(v)'
  BY <1>1, <1>2, <1>3 DEF JobOK
<1>6. \A d, u : u \in Workers => (Holds(u, d)' <=> IF u = w THEN d \in due ELSE Holds(u, d))
  BY <1>1, <1>2 DEF Holds
<1>7. DOMAIN deliveries' = DOMAIN all
  BY DEF Handed
<1>8. ASSUME NEW d \in DOMAIN all, NEW v, v = deliveries'[d], NEW a, a = all[d]
      PROVE  /\ DOMAIN v = DOMAIN Delivery(0)
             /\ v.attempts = a.attempts /\ v.status = a.status
             /\ v.tries = (IF d \in due /\ d[2] \notin Pushed
                           THEN Up(a.tries, MaxAttempts + 1) ELSE a.tries)
             /\ v.out = (IF d \in due /\ d[2] \notin Pushed THEN Up(a.out, 2) ELSE a.out)
             /\ v.clean \in BOOLEAN
             /\ v.clean <=> a.clean /\ (d \in due => ~shared)
  <2>1. DOMAIN all[d] = DOMAIN Delivery(0) /\ all[d].clean \in BOOLEAN
    BY DEF Honest
  <2>2. v = Handed(all, due, shared)[d]
    BY <1>8
  <2> QED
    BY <1>8, <2>1, <2>2, HandedIs
<1>9. ASSUME NEW d \in DOMAIN all, NEW a, a = all[d], a.clean, \A u \in Workers : ~Holds(u, d)
      PROVE  Exact(a)
  BY <1>9 DEF SendInv, DeliveryOK
<1>10. ASSUME NEW d \in DOMAIN all PROVE DeliveryOK(d)'
  <2> PICK v : v = deliveries'[d]
    OBVIOUS
  <2> PICK a : a = all[d]
    OBVIOUS
  <2>1. Honest(a)
    OBVIOUS
  <2>2. /\ DOMAIN v = DOMAIN Delivery(0)
        /\ v.attempts = a.attempts /\ v.status = a.status
        /\ v.tries = (IF d \in due /\ d[2] \notin Pushed
                      THEN Up(a.tries, MaxAttempts + 1) ELSE a.tries)
        /\ v.out = (IF d \in due /\ d[2] \notin Pushed THEN Up(a.out, 2) ELSE a.out)
        /\ v.clean \in BOOLEAN
        /\ v.clean <=> a.clean /\ (d \in due => ~shared)
    BY <1>8
  <2>3. v.tries \in Nat /\ v.out \in Nat /\ a.tries <= v.tries /\ a.out <= v.out
    BY <2>1, <2>2, NotificationsAssumption DEF Honest, Up
  <2>4. Honest(v)
    BY <2>1, <2>2, <2>3 DEF Honest
  <2>5. CASE d \in due
    BY <2>4, <2>5, <1>6 DEF DeliveryOK
  <2>6. CASE d \notin due
    <3>1. ASSUME v.clean, \A u \in Workers : ~Holds(u, d)' PROVE Exact(v)
      <4>1. Exact(a)
        BY <1>4, <1>6, <1>9, <2>2, <3>1
      <4> QED
        BY <4>1, <2>2, <2>6 DEF Exact
    <3> QED
      BY <3>1, <2>4 DEF DeliveryOK
  <2> QED
    BY <2>5, <2>6
<1>11. ASSUME NEW d \in due PROVE HeldOK(w, d)'
  <2> PICK v : v = deliveries'[d]
    OBVIOUS
  <2> PICK a : a = all[d]
    OBVIOUS
  <2>1. d \in DOMAIN all /\ Honest(a) /\ a.attempts < MaxAttempts /\ a.status # "sent"
    OBVIOUS
  <2>2. /\ v.attempts = a.attempts /\ v.status = a.status
        /\ v.tries = (IF d[2] \notin Pushed THEN Up(a.tries, MaxAttempts + 1) ELSE a.tries)
        /\ v.out = (IF d[2] \notin Pushed THEN Up(a.out, 2) ELSE a.out)
        /\ v.clean => a.clean /\ ~shared
    BY <1>8, <2>1
  <2>3. /\ r.seen[d] = a.attempts
        /\ d \in DOMAIN r.result <=> d[2] \notin Pushed
        /\ d[2] \notin Pushed => r.result[d] = "sent"
    BY <1>2
  <2>4. /\ a.attempts \in Nat /\ a.tries \in Nat /\ a.out \in Nat /\ a.attempts <= a.tries
        /\ MaxAttempts \in Nat
    BY <2>1, NotificationsAssumption DEF Honest
  <2>5. /\ a.attempts <= v.tries
        /\ d[2] \notin Pushed => a.attempts + 1 <= v.tries /\ v.out >= 1
    <3>1. a.tries <= v.tries
      BY <2>2, <2>4 DEF Up
    <3>2. CASE d[2] \notin Pushed
      <4>1. v.tries = Up(a.tries, MaxAttempts + 1) /\ v.out = Up(a.out, 2)
        BY <2>2, <3>2
      <4> QED
        BY <4>1, <2>1, <2>4 DEF Up
    <3> QED
      BY <3>1, <3>2, <2>2, <2>4
  <2>6. ASSUME v.clean
        PROVE  /\ v.tries = (IF d[2] \notin Pushed THEN a.attempts + 1 ELSE a.attempts)
               /\ v.out = (IF d[2] \notin Pushed THEN 1 ELSE 0)
               /\ \A u \in Workers : Holds(u, d)' => u = w
    <3>1. a.clean /\ \A u \in Workers : ~Holds(u, d)
      BY <2>2, <2>6
    <3>2. Exact(a)
      BY <1>9, <2>1, <3>1
    <3> QED
      BY <1>6, <2>1, <2>2, <2>4, <3>1, <3>2 DEF Exact, Up
  <2> QED
    BY <1>1, <1>7, <2>1, <2>2, <2>3, <2>4, <2>5, <2>6 DEF HeldOK, Tried
<1>12. ASSUME NEW u \in Workers, u # w, NEW d \in DOMAIN tx[u].seen PROVE HeldOK(u, d)'
  <2> PICK v : v = deliveries'[d]
    OBVIOUS
  <2> PICK a : a = deliveries[d]
    OBVIOUS
  <2>1. d \in DOMAIN deliveries /\ d \in DOMAIN all /\ HeldOK(u, d) /\ a = all[d] /\ Honest(a)
    BY DEF SendInv, HeldOK
  <2>2. /\ v.attempts = a.attempts /\ v.status = a.status
        /\ v.tries = (IF d \in due /\ d[2] \notin Pushed
                      THEN Up(a.tries, MaxAttempts + 1) ELSE a.tries)
        /\ v.out = (IF d \in due /\ d[2] \notin Pushed THEN Up(a.out, 2) ELSE a.out)
        /\ v.clean <=> a.clean /\ (d \in due => ~shared)
    BY <1>8, <2>1
  <2>3. d \in due => ~v.clean
    BY <2>2 DEF Holds
  <2>4. /\ a.tries \in Nat /\ v.tries \in Nat /\ a.tries <= v.tries
        /\ a.out \in Nat /\ v.out \in Nat /\ a.out <= v.out
    BY <2>1, <2>2, NotificationsAssumption DEF Honest, Up
  <2>5. tx'[u] = tx[u]
    BY <1>1, <1>12
  <2>6. CASE d \in due
    BY <2>1, <2>3, <2>4, <2>5, <2>6, <1>7, NotificationsAssumption DEF HeldOK, Tried
  <2>7. CASE d \notin due
    <3>1. \A x \in Workers : Holds(x, d)' => Holds(x, d)
      BY <1>6, <2>7
    <3> QED
      BY <2>1, <2>2, <2>5, <2>7, <3>1, <1>7 DEF HeldOK, Tried
  <2> QED
    BY <2>6, <2>7
<1>13. \A v \in Workers : \A d \in DOMAIN tx'[v].seen : HeldOK(v, d)'
  BY <1>1, <1>2, <1>11, <1>12
<1> QED
  BY <1>1, <1>5, <1>7, <1>10, <1>13 DEF SendInv

\* A notice under a new key comes with deliveries that no other has.
LEMMA CreateNoteSend ==
    ASSUME SendInv, NEW w \in Workers, CreateNote(w)
    PROVE  SendInv'
<1>1. tx[w].step = "create"
  BY DEF CreateNote, At
<1>2. CASE tx[w].key \in DOMAIN notes
  BY <1>1, <1>2, IdleJob, OneQuiet DEF CreateNote, Finish
<1>3. CASE tx[w].key \notin DOMAIN notes
  <2>1. PICK t : t = tx[w]
    OBVIOUS
  <2>2. PICK until : until = QuietUntil
    OBVIOUS
  <2>3. PICK new : new = [d \in {t.key} \X Channels |->
                            Delivery(IF d[2] \in Pushed THEN until ELSE 0)]
    OBVIOUS
  <2>5. PICK all : all = Over(new, deliveries)
    OBVIOUS
  <2>6. PICK r : r = [Idle EXCEPT !.step = "dispatch", !.job = t.job,
                                  !.byClock = t.byClock, !.key = t.key]
    OBVIOUS
  <2>7. /\ DOMAIN notes' = DOMAIN notes \cup {t.key}
        /\ deliveries' = all
        /\ Becomes(w, r)
    BY <1>3, <2>1, <2>2, <2>3, <2>5, <2>6 DEF CreateNote
  <2>8. /\ DOMAIN all = DOMAIN new \cup DOMAIN deliveries
        /\ \A d \in DOMAIN new : all[d] = new[d]
        /\ \A d \in DOMAIN deliveries \ DOMAIN new : all[d] = deliveries[d]
    BY <2>5 DEF Over
  <2>9. \A d \in DOMAIN deliveries : d \notin DOMAIN new
    BY <1>3, <2>1, <2>3 DEF SendInv
  <2>10. ASSUME NEW d \in DOMAIN new
         PROVE  /\ Honest(new[d]) /\ Exact(new[d])
                /\ d[1] = t.key /\ new[d].attempts < MaxAttempts /\ new[d].status # "sent"
    <3>1. PICK n : new[d] = Delivery(n)
      BY <2>3
    <3>2. PICK v : v = new[d]
      OBVIOUS
    <3>3. /\ DOMAIN v = DOMAIN Delivery(0)
          /\ v.status = "pending" /\ v.attempts = 0 /\ v.tries = 0
          /\ v.out = 0 /\ v.clean = TRUE
      BY <3>1, <3>2 DEF Delivery
    <3>4. Honest(v) /\ Exact(v) /\ v.attempts < MaxAttempts /\ v.status # "sent"
      <4>1. Honest(v)
        <5>1. v.clean \in BOOLEAN
          BY <3>3
        <5>2. v.attempts \in Nat /\ v.tries \in Nat /\ v.out \in Nat /\ v.attempts <= v.tries
          BY <3>3
        <5>3. v.status \in {"pending", "sent", "failed"} /\ v.status # "sent"
          BY <3>3
        <5> QED
          BY <3>3, <5>1, <5>2, <5>3 DEF Honest
      <4>2. MaxAttempts \in Nat /\ 0 < MaxAttempts
        BY NotificationsAssumption
      <4> QED
        BY <3>3, <4>1, <4>2 DEF Exact
    <3>5. d[1] = t.key
      BY <2>3
    <3> QED
      BY <3>2, <3>4, <3>5
  <2>11. /\ DOMAIN r = DOMAIN Idle /\ r.step = "dispatch" /\ r.alone = TRUE
         /\ DOMAIN r.seen = {} /\ DOMAIN r.result = {}
    BY <2>6, IdleJob
  <2>12. \A d \in DOMAIN all : d[1] \in DOMAIN notes' /\ Honest(all[d])
    BY <2>7, <2>8, <2>9, <2>10 DEF SendInv, DeliveryOK
  <2>13. \A d \in DOMAIN deliveries : all[d] = deliveries[d]
    BY <2>8, <2>9
  <2>14. \A d \in DOMAIN all \ DOMAIN deliveries : Exact(all[d])
    BY <2>8, <2>10
  <2>15. PICK due, shared : due = {} /\ shared = FALSE
    OBVIOUS
  <2>16. InHand(r, due, all)
    BY <2>11, <2>15 DEF InHand
  <2>17. deliveries' = Handed(all, due, shared)
    BY <2>5, <2>7, <2>15 DEF Handed, Over
  <2>18. /\ due \subseteq DOMAIN all /\ DOMAIN deliveries \subseteq DOMAIN all
         /\ DOMAIN notes \subseteq DOMAIN notes' /\ shared \in BOOLEAN
    BY <2>7, <2>8, <2>15
  <2>19. /\ \A d \in due : all[d].attempts < MaxAttempts /\ all[d].status # "sent"
         /\ ~shared => \A u \in Workers, d \in due : ~Holds(u, d)
    BY <2>15
  <2>20. tx[w].step # "send" /\ Becomes(w, r)
    BY <1>1, <2>7
  <2> QED
    BY <2>12, <2>13, <2>14, <2>16, <2>17, <2>18, <2>19, <2>20, TakenInHand, ZenonT(60)
<1> QED
  BY <1>2, <1>3

\* A delivery that another job still has is unclean when it is read again.
LEMMA SelectSend ==
    ASSUME SendInv, NEW w \in Workers, tx[w].step # "send", NEW t, NEW due,
           \A d \in due : d \in DOMAIN deliveries /\ Due(d), Select(w, t, due)
    PROVE  SendInv'
<1>3. PICK shared \in BOOLEAN : shared = \E v \in Workers : DOMAIN tx[v].seen \cap due # {}
  OBVIOUS
<1>4. PICK r : r = Dispatching(t, due, deliveries)
  OBVIOUS
<1>5. notes' = notes /\ Becomes(w, r) /\ deliveries' = Handed(deliveries, due, shared)
  BY <1>3, <1>4 DEF Select
<1>6. \A d \in DOMAIN deliveries : d[1] \in DOMAIN notes /\ Honest(deliveries[d])
  BY DEF SendInv, DeliveryOK
<1>7. \A d \in due : d \in DOMAIN deliveries /\ deliveries[d].attempts < MaxAttempts
                     /\ deliveries[d].status # "sent"
  BY DEF Due
<1>8. ~shared => \A u \in Workers, d \in due : ~Holds(u, d)
  BY <1>3 DEF Holds
<1>9. InHand(r, due, deliveries)
  BY <1>4, DispatchingIs
<1> QED
  BY <1>5, <1>6, <1>7, <1>8, <1>9, TakenInHand

\* A notice's own deliveries, or all that are due.
LEMMA DispatchSend ==
    ASSUME SendInv, NEW w \in Workers, NEW byClock, DispatchNote(w) \/ RunDispatch(w, byClock)
    PROVE  SendInv'
<1>1. CASE DispatchNote(w)
  <2>1. PICK due, t : due = {d \in DOMAIN deliveries : d[1] = tx[w].key /\ Due(d)} /\ t = tx[w]
    OBVIOUS
  <2>2. (\A d \in due : d \in DOMAIN deliveries /\ Due(d)) /\ tx[w].step # "send" /\ Select(w, t, due)
    BY <1>1, <2>1 DEF DispatchNote, At
  <2> QED
    BY <2>2, SelectSend
<1>2. CASE RunDispatch(w, byClock)
  <2>1. PICK due, t : /\ due = {d \in DOMAIN deliveries : Due(d)}
                      /\ t = [Idle EXCEPT !.job = "dispatch", !.byClock = byClock]
    OBVIOUS
  <2>2. (\A d \in due : d \in DOMAIN deliveries /\ Due(d)) /\ tx[w].step # "send" /\ Select(w, t, due)
    BY <1>2, <2>1 DEF RunDispatch, MayRun, At
  <2> QED
    BY <2>2, SelectSend
<1> QED
  BY <1>1, <1>2

\* One try of a delivery in hand: one more than was read, and no other job's while clean.
LEMMA SendSend ==
    ASSUME SendInv, NEW w \in Workers, Send(w)
    PROVE  SendInv'
<1>1. PICK e \in DOMAIN tx[w].seen \ DOMAIN tx[w].result, outcome \in {"sent", "failed"} :
         /\ At(w, "send")
         /\ Becomes(w, [tx[w] EXCEPT !.result = Over([x \in {e} |-> outcome], @)])
         /\ deliveries' = [deliveries EXCEPT ![e].tries = Up(@, MaxAttempts + 1),
                                             ![e].out = IF outcome = "sent" THEN Up(@, 2) ELSE @]
         /\ notes' = notes
  BY DEF Send
<1>2. PICK q : q = Over([x \in {e} |-> outcome], tx[w].result)
  OBVIOUS
<1>3. /\ DOMAIN q = {e} \cup DOMAIN tx[w].result /\ q[e] = outcome
      /\ \A d \in DOMAIN tx[w].result : q[d] = tx[w].result[d]
  BY <1>1, <1>2 DEF Over
<1>4. PICK r : r = [tx[w] EXCEPT !.result = q]
  OBVIOUS
<1>5. \A v \in Workers : JobOK(v)
  BY DEF SendInv
<1>6. DOMAIN tx[w] = DOMAIN Idle
  BY <1>5 DEF JobOK
<1>7. DOMAIN r = DOMAIN Idle /\ r.seen = tx[w].seen /\ r.result = q /\ r.step = "send"
  BY <1>1, <1>4, <1>6, IdleJob DEF At
<1>8. Becomes(w, r)
  BY <1>1, <1>2, <1>4
<1>9. DOMAIN tx' = Workers /\ tx'[w] = r /\ \A v \in Workers \ {w} : tx'[v] = tx[v]
  BY <1>8, BecomesJob DEF SendInv
<1>10. \A v \in Workers : JobOK(v)'
  BY <1>1, <1>3, <1>5, <1>7, <1>9 DEF JobOK
<1>11. \A d, u : u \in Workers => (Holds(u, d)' <=> Holds(u, d))
  BY <1>7, <1>9 DEF Holds
<1>12. e \in DOMAIN deliveries /\ HeldOK(w, e) /\ ~Tried(w, e)
  BY <1>1 DEF SendInv, HeldOK, Tried
<1>13. \A d \in DOMAIN deliveries : Honest(deliveries[d])
  BY DEF SendInv, DeliveryOK
<1> PICK a : a = deliveries[e]
  OBVIOUS
<1> PICK v : v = deliveries'[e]
  OBVIOUS
<1>14. Honest(a)
  BY <1>12, <1>13
<1>15. v = [a EXCEPT !.tries = Up(@, MaxAttempts + 1),
                     !.out = IF outcome = "sent" THEN Up(@, 2) ELSE @]
  BY <1>1, <1>12
<1>16. /\ DOMAIN v = DOMAIN Delivery(0)
       /\ v.attempts = a.attempts /\ v.status = a.status /\ v.clean = a.clean
       /\ v.tries = Up(a.tries, MaxAttempts + 1)
       /\ v.out = (IF outcome = "sent" THEN Up(a.out, 2) ELSE a.out)
  BY <1>14, <1>15 DEF Honest, Delivery
<1>17. /\ DOMAIN deliveries' = DOMAIN deliveries
       /\ \A d \in DOMAIN deliveries \ {e} : deliveries'[d] = deliveries[d]
  BY <1>1
<1>18. Honest(v) /\ a.tries <= v.tries /\ a.out <= v.out
  BY <1>14, <1>16, NotificationsAssumption DEF Honest, Up
<1>19. ASSUME NEW d \in DOMAIN deliveries PROVE DeliveryOK(d)'
  <2>1. CASE d = e
    <3>1. Holds(w, e)'
      BY <1>1, <1>11 DEF Holds
    <3> QED
      BY <1>18, <2>1, <3>1 DEF DeliveryOK
  <2>2. CASE d # e
    BY <1>11, <1>17, <2>2 DEF SendInv, DeliveryOK
  <2> QED
    BY <2>1, <2>2
<1>20. HeldOK(w, e)'
  <2>1. tx'[w].seen = tx[w].seen /\ Tried(w, e)' /\ tx'[w].result[e] = outcome
    BY <1>3, <1>7, <1>9 DEF Tried
  <2>2. PICK n : n = tx[w].seen[e]
    OBVIOUS
  <2>3. n \in Nat /\ n < MaxAttempts /\ n <= a.tries /\ MaxAttempts \in Nat
    BY <1>12, <2>2, NotificationsAssumption DEF HeldOK
  <2>4. n + 1 <= v.tries
    BY <1>14, <1>16, <2>3 DEF Honest, Up
  <2>5. outcome = "sent" => v.out >= 1
    BY <1>14, <1>16 DEF Honest, Up
  <2>6. ASSUME v.clean
        PROVE  /\ n = v.attempts /\ v.status # "sent" /\ v.tries = n + 1
               /\ v.out = (IF outcome = "sent" THEN 1 ELSE 0)
               /\ \A u \in Workers : Holds(u, e)' => u = w
    <3>1. /\ n = a.attempts /\ a.status # "sent" /\ a.tries = n /\ a.out = 0
          /\ \A u \in Workers : Holds(u, e) => u = w
      BY <1>12, <1>16, <2>2, <2>6 DEF HeldOK
    <3> QED
      BY <1>11, <1>16, <2>3, <3>1 DEF Up
  <2>7. e \in DOMAIN deliveries' /\ n <= v.tries
    BY <1>12, <1>14, <1>17, <1>18, <2>3 DEF Honest
  <2> QED
    BY <2>1, <2>2, <2>3, <2>4, <2>5, <2>6, <2>7 DEF HeldOK
<1>21. ASSUME NEW u \in Workers, NEW d \in DOMAIN tx[u].seen, u # w \/ d # e PROVE HeldOK(u, d)'
  <2>1. HeldOK(u, d)
    BY DEF SendInv
  <2>2. tx'[u].seen = tx[u].seen
    BY <1>7, <1>9
  <2>3. (Tried(u, d)' <=> Tried(u, d)) /\ (Tried(u, d) => tx'[u].result[d] = tx[u].result[d])
    BY <1>3, <1>7, <1>9, <1>21 DEF Tried
  <2>4. CASE d # e
    BY <1>11, <1>17, <2>1, <2>2, <2>3, <2>4 DEF HeldOK
  <2>5. CASE d = e
    <3>1. ~v.clean
      BY <1>1, <1>16, <1>21, <2>1, <2>5 DEF HeldOK, Holds
    <3>2. PICK n : n = tx[u].seen[e]
      OBVIOUS
    <3>3. /\ e \in DOMAIN deliveries' /\ n \in Nat /\ n < MaxAttempts /\ n <= a.tries
          /\ Tried(u, e) => n + 1 <= a.tries /\ tx[u].result[e] \in {"sent", "failed"}
          /\ Tried(u, e) /\ tx[u].result[e] = "sent" => a.out >= 1
      BY <1>17, <2>1, <2>5, <3>2 DEF HeldOK
    <3>4. /\ n <= v.tries /\ (Tried(u, e) => n + 1 <= v.tries)
          /\ Tried(u, e) /\ tx[u].result[e] = "sent" => v.out >= 1
      BY <1>14, <1>18, <3>3 DEF Honest
    <3> QED
      BY <2>2, <2>3, <2>5, <3>1, <3>2, <3>3, <3>4 DEF HeldOK
  <2> QED
    BY <2>4, <2>5
<1>22. \A u \in Workers : \A d \in DOMAIN tx'[u].seen : HeldOK(u, d)'
  BY <1>7, <1>9, <1>20, <1>21
<1> QED
  BY <1>1, <1>9, <1>10, <1>17, <1>19, <1>22 DEF SendInv

\* The commit of a dispatch: attempts and status become what was done, if the delivery
\* is clean, and no more than was done if not.
LEMMA RecordSendsSend ==
    ASSUME SendInv, NEW w \in Workers, RecordSends(w)
    PROVE  SendInv'
<1> PICK t : t = tx[w]
  OBVIOUS
<1>1. /\ DOMAIN t.result = DOMAIN t.seen /\ Becomes(w, Idle) /\ notes' = notes
      /\ deliveries' = [d \in DOMAIN deliveries |->
                          IF d \in DOMAIN t.seen
                          THEN [deliveries[d] EXCEPT !.attempts = t.seen[d] + 1, !.status = t.result[d]]
                          ELSE deliveries[d]]
  BY DEF RecordSends, Finish
<1>2. DOMAIN tx' = Workers /\ tx'[w] = Idle /\ \A v \in Workers \ {w} : tx'[v] = tx[v]
  BY <1>1, BecomesJob DEF SendInv
<1>3. \A v \in Workers : JobOK(v)'
  BY <1>2, IdleJob DEF SendInv, JobOK
<1>4. \A d, u : u \in Workers => (Holds(u, d)' <=> u # w /\ Holds(u, d))
  BY <1>2, IdleJob DEF Holds
<1>5. /\ DOMAIN deliveries' = DOMAIN deliveries
      /\ \A d \in DOMAIN deliveries \ DOMAIN t.seen : deliveries'[d] = deliveries[d]
  BY <1>1
<1>6. ASSUME NEW d \in DOMAIN t.seen, NEW a, a = deliveries[d], NEW v, v = deliveries'[d]
      PROVE  /\ d \in DOMAIN deliveries /\ HeldOK(w, d) /\ Tried(w, d) /\ Honest(a)
             /\ DOMAIN v = DOMAIN Delivery(0)
             /\ v.attempts = t.seen[d] + 1 /\ v.status = t.result[d]
             /\ v.tries = a.tries /\ v.out = a.out /\ v.clean = a.clean
  <2>1. HeldOK(w, d) /\ Tried(w, d) /\ d \in DOMAIN deliveries
    BY <1>1 DEF SendInv, HeldOK, Tried
  <2>2. Honest(a)
    BY <1>6, <2>1 DEF SendInv, DeliveryOK
  <2>3. v = [a EXCEPT !.attempts = t.seen[d] + 1, !.status = t.result[d]]
    BY <1>1, <1>6, <2>1
  <2>4. /\ DOMAIN v = DOMAIN Delivery(0)
        /\ v.attempts = t.seen[d] + 1 /\ v.status = t.result[d]
        /\ v.tries = a.tries /\ v.out = a.out /\ v.clean = a.clean
    BY <2>2, <2>3 DEF Honest, Delivery
  <2> QED
    BY <2>1, <2>2, <2>4
<1>7. ASSUME NEW d \in DOMAIN deliveries PROVE DeliveryOK(d)'
  <2>1. CASE d \in DOMAIN t.seen
    <3> PICK a : a = deliveries[d]
      OBVIOUS
    <3> PICK v : v = deliveries'[d]
      OBVIOUS
    <3> PICK n : n = t.seen[d]
      OBVIOUS
    <3>1. /\ HeldOK(w, d) /\ Tried(w, d) /\ Honest(a)
          /\ DOMAIN v = DOMAIN Delivery(0)
          /\ v.attempts = n + 1 /\ v.status = t.result[d]
          /\ v.tries = a.tries /\ v.out = a.out /\ v.clean = a.clean
      BY <1>6, <2>1
    <3>2. /\ n \in Nat /\ n < MaxAttempts /\ n + 1 <= a.tries
          /\ t.result[d] \in {"sent", "failed"}
          /\ t.result[d] = "sent" => a.out >= 1
          /\ a.clean => a.tries = n + 1 /\ a.out = (IF t.result[d] = "sent" THEN 1 ELSE 0)
      BY <3>1 DEF HeldOK
    <3>3. Honest(v)
      BY <3>1, <3>2 DEF Honest
    <3>4. v.clean => Exact(v)
      BY <3>1, <3>2, NotificationsAssumption DEF Exact
    <3> QED
      BY <3>3, <3>4 DEF DeliveryOK
  <2>2. CASE d \notin DOMAIN t.seen
    <3>1. ~Holds(w, d)
      BY <2>2 DEF Holds
    <3> QED
      BY <1>4, <1>5, <2>2, <3>1 DEF SendInv, DeliveryOK
  <2> QED
    BY <2>1, <2>2
<1>8. ASSUME NEW u \in Workers, u # w, NEW d \in DOMAIN tx[u].seen PROVE HeldOK(u, d)'
  <2>1. HeldOK(u, d) /\ tx'[u] = tx[u] /\ d \in DOMAIN deliveries
    BY <1>2, <1>8 DEF SendInv, HeldOK
  <2>2. CASE d \in DOMAIN t.seen
    <3> PICK a : a = deliveries[d]
      OBVIOUS
    <3> PICK v : v = deliveries'[d]
      OBVIOUS
    <3>1. v.tries = a.tries /\ v.out = a.out /\ v.clean = a.clean
      BY <1>6, <2>2
    <3>2. ~a.clean
      BY <1>8, <2>1, <2>2 DEF HeldOK, Holds
    <3> QED
      BY <1>5, <2>1, <3>1, <3>2 DEF HeldOK, Tried
  <2>3. CASE d \notin DOMAIN t.seen
    BY <1>4, <1>5, <2>1, <2>3 DEF HeldOK, Tried
  <2> QED
    BY <2>2, <2>3
<1>9. \A u \in Workers : \A d \in DOMAIN tx'[u].seen : HeldOK(u, d)'
  BY <1>2, <1>8, IdleJob
<1> QED
  BY <1>1, <1>2, <1>3, <1>5, <1>7, <1>9 DEF SendInv

\* A crash forgets what was tried and marks it, so what stays clean was not tried.
LEMMA CrashSend ==
    ASSUME SendInv, Crash
    PROVE  SendInv'
<1>1. /\ tx' = [w \in Workers |-> Idle] /\ notes' = notes
      /\ DOMAIN deliveries' = DOMAIN deliveries
  BY DEF Crash
<1>2. \A d \in DOMAIN deliveries :
         deliveries'[d] = [deliveries[d] EXCEPT !.clean = @ /\ ~\E w \in Workers : Tried(w, d)]
  BY DEF Crash, Tried
<1>3. \A v \in Workers : JobOK(v)' /\ DOMAIN tx'[v].seen = {}
  BY <1>1, IdleJob DEF JobOK
<1>4. ASSUME NEW d \in DOMAIN deliveries PROVE DeliveryOK(d)'
  <2> PICK a : a = deliveries[d]
    OBVIOUS
  <2> PICK v : v = deliveries'[d]
    OBVIOUS
  <2>1. Honest(a)
    BY DEF SendInv, DeliveryOK
  <2>2. PICK tried \in BOOLEAN : tried = \E w \in Workers : Tried(w, d)
    OBVIOUS
  <2>3. v = [a EXCEPT !.clean = @ /\ ~tried]
    BY <1>2, <2>2
  <2>4. /\ DOMAIN v = DOMAIN Delivery(0)
        /\ v.attempts = a.attempts /\ v.status = a.status
        /\ v.tries = a.tries /\ v.out = a.out /\ v.clean = (a.clean /\ ~tried)
    BY <2>1, <2>3 DEF Honest, Delivery
  <2>5. Honest(v)
    BY <2>1, <2>4 DEF Honest
  <2>6. ASSUME v.clean PROVE Exact(v)
    <3>1. a.clean /\ \A w \in Workers : ~Tried(w, d)
      BY <2>1, <2>2, <2>4, <2>6 DEF Honest
    <3>2. CASE \E w \in Workers : Holds(w, d)
      <4>1. PICK w \in Workers : HeldOK(w, d) /\ ~Tried(w, d)
        BY <3>1, <3>2 DEF SendInv, Holds
      <4>2. PICK n : n = tx[w].seen[d]
        OBVIOUS
      <4>3. n = a.attempts /\ n < MaxAttempts /\ n \in Nat /\ a.status # "sent" /\ a.tries = n /\ a.out = 0
        BY <3>1, <4>1, <4>2 DEF HeldOK
      <4> QED
        BY <2>4, <4>3, NotificationsAssumption DEF Exact
    <3>3. CASE \A w \in Workers : ~Holds(w, d)
      BY <2>4, <3>1, <3>3 DEF SendInv, DeliveryOK, Exact
    <3> QED
      BY <3>2, <3>3
  <2> QED
    BY <2>5, <2>6 DEF DeliveryOK
<1> QED
  BY <1>1, <1>3, <1>4 DEF SendInv

\* No delivery yet, and no job.
LEMMA InitSend == Init => SendInv
<1> SUFFICES ASSUME Init PROVE SendInv
  OBVIOUS
<1>1. DOMAIN deliveries = {} /\ tx = [w \in Workers |-> Idle]
  BY ScenesAssumption DEF Init
<1> QED
  BY <1>1, IdleJob DEF SendInv, JobOK

\* Every step keeps the invariant of the deliveries.
LEMMA NextSend == SendInv /\ [Next]_vars => SendInv'
<1> SUFFICES ASSUME SendInv, [Next]_vars PROVE SendInv'
  OBVIOUS
<1>1. CASE StockMoves
  BY <1>1, WorldSend DEF StockMoves, dbVars
<1>2. CASE Tick
  BY <1>2, WorldSend DEF Tick, dbVars
<1>3. CASE UpdateSettings
  BY <1>3, WorldSend DEF UpdateSettings
<1>4. CASE MarkRead
  <2>1. UNCHANGED <<tx, deliveries>> /\ DOMAIN notes' = DOMAIN notes
    BY <1>4 DEF MarkRead
  <2> QED
    BY <2>1, WorldSend
<1>5. CASE Crash
  BY <1>5, CrashSend
<1>6. ASSUME NEW w \in Workers, Work(w) PROVE SendInv'
  BY <1>6, InsertSettingsSend, ReadStatesSend, FlushStatesSend, CreateNoteSend, DispatchSend,
     SendSend, RecordSendsSend DEF Work
<1>7. ASSUME NEW w \in Workers, NEW job \in Jobs, NEW byClock \in BOOLEAN, Run(w, job, byClock)
      PROVE SendInv'
  BY <1>7, RunSweepSend, DispatchSend DEF Run
<1>8. CASE UNCHANGED vars
  BY <1>8, WorldSend DEF vars, dbVars
<1> QED
  BY <1>1, <1>2, <1>3, <1>4, <1>5, <1>6, <1>7, <1>8 DEF Next

\* The invariant says of a delivery in hand how many tries came before the one under way.
LEMMA SendInvBounds == SendInv => DeliveriesBounded
<1> SUFFICES ASSUME SendInv, NEW d \in DOMAIN deliveries, NEW v, v = deliveries[d]
             PROVE  /\ v.clean => v.out <= 1 /\ v.tries <= MaxAttempts
                    /\ v.attempts <= v.tries
                    /\ v.status = "sent" => v.out >= 1
  BY DEF DeliveriesBounded
<1>1. DeliveryOK(d) /\ Honest(v)
  BY DEF SendInv, DeliveryOK
<1>2. ASSUME v.clean PROVE v.out <= 1 /\ v.tries <= MaxAttempts
  <2>1. CASE \E w \in Workers : Holds(w, d)
    <3>1. PICK w \in Workers : HeldOK(w, d)
      BY <2>1 DEF SendInv, Holds
    <3>2. PICK n : n = tx[w].seen[d]
      OBVIOUS
    <3>3. n \in Nat /\ n < MaxAttempts /\ v.tries \in {n, n + 1} /\ v.out \in {0, 1}
      BY <1>2, <3>1, <3>2 DEF HeldOK
    <3> QED
      BY <3>3, NotificationsAssumption
  <2>2. CASE \A w \in Workers : ~Holds(w, d)
    BY <1>1, <1>2, <2>2 DEF DeliveryOK, Exact
  <2> QED
    BY <2>1, <2>2
<1> QED
  BY <1>1, <1>2 DEF Honest

\* A delivery that no crash and no second dispatcher touched between a try and its commit
\* goes out at most once and is tried at most _MAX_ATTEMPTS times, whoever else runs; and
\* no delivery, touched or not, claims a try or a success that was not there.
THEOREM TriesAreBounded == Spec => []DeliveriesBounded
  BY InitSend, NextSend, SendInvBounds, PTL DEF Spec

-----------------------------------------------------------------------------
\* The digests: what a step keeps.

\* Job v goes on as it was, but for noticing another sweep.
SameView(v) ==
    /\ tx'[v].step = tx[v].step /\ tx'[v].job = tx[v].job /\ tx'[v].day = tx[v].day
    /\ tx'[v].low = tx[v].low /\ tx'[v].spells = tx[v].spells /\ tx'[v].rows = tx[v].rows
    /\ tx'[v].newly = tx[v].newly /\ tx'[v].key = tx[v].key
    /\ tx'[v].alone \in BOOLEAN /\ (tx'[v].alone => tx[v].alone)

\* No notice is lost or comes to say something else.
SameNotes ==
    \A k \in DOMAIN notes :
        /\ k \in DOMAIN notes' /\ DOMAIN notes'[k] = DOMAIN notes[k]
        /\ notes'[k].listed = notes[k].listed /\ notes'[k].spells = notes[k].spells
        /\ notes'[k].alone = notes[k].alone

\* A product that was not low since a spell of it began will always have been so.
PassedKept ==
    /\ spell' \in [Products -> Nat] /\ \A p \in Products : spell[p] <= spell'[p]
    /\ \A p \in Products, s \in Nat : s <= spell[p] /\ Passed(p, s) => Passed(p, s)'

\* A job that goes on stays in order while time and stock move and others write: a row
\* or a digest that others write makes it not alone.
LEMMA SweepKept ==
    ASSUME DigestInv, NEW v \in Workers, SameView(v), SameNotes, PassedKept,
           Today \in Nat, Today' \in Nat, Today <= Today',
           \A day \in Nat : /\ Cardinality(DigestsOf(day)) \in Nat
                            /\ Cardinality(DigestsOf(day)') \in Nat
                            /\ Cardinality(DigestsOf(day)) <= Cardinality(DigestsOf(day)'),
           Reading(v) => \A j \in Digests' : notes'[j].alone => j \in Digests,
           Reading(v) /\ tx'[v].alone => alert' = alert /\ Digests' = Digests
    PROVE  SweepOK(v)'
<1> PICK t : t = tx[v]
  OBVIOUS
<1> PICK r : r = tx'[v]
  OBVIOUS
<1>1. SweepOK(v)
  BY DEF DigestInv
<1>2. (Sweeping(v)' <=> Sweeping(v)) /\ (Reading(v)' <=> Reading(v))
  BY DEF Sweeping, Reading, SameView, At
<1>3. /\ r.step = t.step /\ r.day = t.day /\ r.low = t.low /\ r.spells = t.spells
      /\ r.rows = t.rows /\ r.newly = t.newly /\ r.key = t.key
      /\ r.alone \in BOOLEAN /\ (r.alone => t.alone)
  BY DEF SameView
<1>4. t.step = "create" =>
         /\ r.key \in Jobs \X Nat \X Nat /\ r.key[2] <= Today'
         /\ r.key[1] = "low_stock" <=> Sweeping(v)'
  <2>1. SUFFICES ASSUME t.step = "create"
                 PROVE  /\ r.key \in Jobs \X Nat \X Nat /\ r.key[2] <= Today'
                        /\ r.key[1] = "low_stock" <=> Sweeping(v)'
    OBVIOUS
  <2>2. t.key \in Jobs \X Nat \X Nat /\ t.key[2] <= Today /\ (t.key[1] = "low_stock" <=> Sweeping(v))
    BY <1>1, <2>1 DEF SweepOK
  <2>3. t.key[2] \in Nat
    BY <2>2
  <2> QED
    BY <1>2, <1>3, <2>2, <2>3
<1>5. ASSUME Reading(v) PROVE \A j \in Digests' : notes'[j].alone => AfterDigest(v, j)'
  <2>1. SUFFICES ASSUME NEW j \in Digests', notes'[j].alone PROVE AfterDigest(v, j)'
    OBVIOUS
  <2>2. j \in Digests /\ j \in DOMAIN notes
    BY <1>5, <2>1 DEF Digests
  <2>3. notes[j].alone /\ notes'[j].listed = notes[j].listed /\ notes'[j].spells = notes[j].spells
    BY <2>1, <2>2 DEF SameNotes
  <2>4. AfterDigest(v, j) /\ DigestOK(j)
    BY <1>1, <1>5, <2>2, <2>3 DEF SweepOK, DigestInv, DigestsOK
  <2>5. r.alone => alert' = alert
    BY <1>5
  <2>6. ASSUME NEW p \in notes[j].listed, NEW s, s = notes[j].spells[p]
        PROVE  /\ p \in t.low \/ Passed(p, s)'
               /\ r.alone /\ p \in t.low /\ t.spells[p] = s =>
                    /\ t.step = "states" => alert'[p] # NoRow /\ alert'[p].on >= j[2]
                    /\ t.step # "states" /\ p \in t.newly => j[2] # t.day
    <3>1. p \in Products /\ s \in Nat /\ s <= spell[p]
      BY <2>4, <2>6 DEF DigestOK
    <3>2. /\ p \in t.low \/ Passed(p, s)
          /\ t.alone /\ p \in t.low /\ t.spells[p] = s =>
               /\ t.step = "states" => alert[p] # NoRow /\ alert[p].on >= j[2]
               /\ t.step # "states" /\ p \in t.newly => j[2] # t.day
      BY <2>4, <2>6 DEF AfterDigest
    <3>3. Passed(p, s) => Passed(p, s)'
      BY <3>1 DEF PassedKept
    <3> QED
      BY <1>3, <2>5, <3>2, <3>3
  <2>7. j[2] <= t.day
    BY <2>4 DEF AfterDigest
  <2> QED
    BY <1>3, <2>3, <2>6, <2>7 DEF AfterDigest
<1>6. ASSUME Reading(v)
      PROVE  /\ r.day \in Nat /\ r.day <= Today'
             /\ r.low \subseteq Products
             /\ r.spells \in [Products -> Nat] /\ \A p \in Products : r.spells[p] <= spell'[p]
             /\ r.step # "states" =>
                  r.newly \subseteq r.low /\ r.rows \in [Products -> AlertRows \cup {NoRow}]
             /\ r.step = "create" =>
                  /\ r.key[2] = r.day
                  /\ r.key[3] <= Cardinality(DigestsOf(r.day)')
                  /\ r.alone => r.key[3] = Cardinality(DigestsOf(r.day)')
  <2>1. /\ t.day \in Nat /\ t.day <= Today
        /\ t.low \subseteq Products
        /\ t.spells \in [Products -> Nat] /\ \A p \in Products : t.spells[p] <= spell[p]
        /\ t.step # "states" =>
             t.newly \subseteq t.low /\ t.rows \in [Products -> AlertRows \cup {NoRow}]
        /\ t.step = "create" =>
             /\ t.key \in Jobs \X Nat \X Nat
             /\ t.key[2] = t.day
             /\ t.key[3] <= Cardinality(DigestsOf(t.day))
             /\ t.alone => t.key[3] = Cardinality(DigestsOf(t.day))
    BY <1>1, <1>6 DEF SweepOK
  <2>2. \A p \in Products : t.spells[p] <= spell'[p]
    <3>1. SUFFICES ASSUME NEW p \in Products PROVE t.spells[p] <= spell'[p]
      OBVIOUS
    <3>2. t.spells[p] \in Nat /\ spell[p] \in Nat /\ spell'[p] \in Nat
      BY <2>1 DEF PassedKept, DigestInv, WorldOK
    <3> QED
      BY <2>1, <3>2 DEF PassedKept
  <2>3. r.alone => DigestsOf(r.day)' = DigestsOf(r.day)
    <3>1. r.alone => Digests' = Digests
      BY <1>6
    <3> QED
      BY <3>1 DEF DigestsOf, Digests
  <2>4. t.step = "create" =>
             /\ t.key[3] <= Cardinality(DigestsOf(r.day)')
             /\ r.alone => t.key[3] = Cardinality(DigestsOf(r.day)')
    <3>1. SUFFICES ASSUME t.step = "create"
                   PROVE  /\ t.key[3] <= Cardinality(DigestsOf(r.day)')
                          /\ r.alone => t.key[3] = Cardinality(DigestsOf(r.day)')
      OBVIOUS
    <3>2. t.key[3] \in Nat /\ t.key[3] <= Cardinality(DigestsOf(r.day))
      BY <1>3, <2>1, <3>1
    <3>3. /\ Cardinality(DigestsOf(r.day)) \in Nat /\ Cardinality(DigestsOf(r.day)') \in Nat
          /\ Cardinality(DigestsOf(r.day)) <= Cardinality(DigestsOf(r.day)')
      BY <1>3, <2>1
    <3> QED
      BY <1>3, <2>1, <2>3, <3>1, <3>2, <3>3
  <2>5. t.day <= Today'
    BY <2>1
  <2> QED
    BY <1>3, <2>1, <2>2, <2>4, <2>5
<1>7. /\ t.step \in {"idle", "add settings", "states", "flush", "create", "dispatch", "send"}
      /\ t.step \in {"states", "flush"} => Sweeping(v)
      /\ t.step = "add settings" => r.job \in {"low_stock", "daily_summary"}
  BY <1>1 DEF SweepOK, SameView
<1> QED
  BY <1>2, <1>3, <1>4, <1>5, <1>6, <1>7 DEF SweepOK

\* Days are numbers.
LEMMA TodayIs == WorldOK => Today \in Nat
  BY NotificationsAssumption DEF WorldOK, Today

\* Steps that add no notice keep the numbers of the digests.
LEMMA KeysKept ==
    ASSUME KeysOK, SameNotes, DOMAIN notes' = DOMAIN notes,
           Today \in Nat, Today' \in Nat, Today <= Today'
    PROVE  /\ KeysOK' /\ Digests' = Digests
           /\ \A day : DigestsOf(day)' = DigestsOf(day)
<1>1. \A day : DigestsOf(day)' = DigestsOf(day)
  BY DEF DigestsOf
<1>2. ASSUME NEW k \in DOMAIN notes
      PROVE  /\ k \in Jobs \X Nat \X Nat /\ k[2] <= Today'
             /\ DOMAIN notes'[k] = {"listed", "spells", "alone", "read"}
  <2>1. /\ k \in Jobs \X Nat \X Nat /\ k[2] <= Today
        /\ DOMAIN notes[k] = {"listed", "spells", "alone", "read"}
    BY DEF KeysOK
  <2>2. k[2] \in Nat
    BY <2>1
  <2> QED
    BY <2>1, <2>2 DEF SameNotes
<1>3. IsFiniteSet(DOMAIN notes')
  BY DEF KeysOK
<1>4. \A day, n \in Nat :
         <<"low_stock", day, n>> \in DOMAIN notes' <=> n < Cardinality(DigestsOf(day)')
  BY <1>1 DEF KeysOK
<1>5. Digests' = Digests
  BY DEF Digests
<1> QED
  BY <1>1, <1>2, <1>3, <1>4, <1>5 DEF KeysOK

\* The digests of a day can be counted.
LEMMA CountIs ==
    ASSUME KeysOK, NEW day
    PROVE  IsFiniteSet(DigestsOf(day)) /\ Cardinality(DigestsOf(day)) \in Nat
<1>1. DigestsOf(day) \subseteq DOMAIN notes /\ IsFiniteSet(DOMAIN notes)
  BY DEF DigestsOf, KeysOK
<1>2. IsFiniteSet(DigestsOf(day))
  BY <1>1, FS_Subset
<1> QED
  BY <1>2, FS_CardinalityType

\* The rows may go of products that were not low since they were listed, or be
\* written again later.
RowsKept ==
    \A p \in Products, j \in Digests :
        /\ notes[j].alone /\ p \in notes[j].listed /\ ~Passed(p, notes[j].spells[p])
        /\ alert[p] # NoRow /\ alert[p].on >= j[2]
        => alert'[p] # NoRow /\ alert'[p].on >= j[2]

DigestKept(j) ==
    /\ notes'[j].listed = notes[j].listed /\ notes'[j].spells = notes[j].spells
    /\ notes'[j].alone = notes[j].alone
    /\ notes[j].alone => DigestOK(j)'

\* Then every digest says what it said, and what it says holds.
LEMMA OldDigestsKept ==
    ASSUME DigestInv, SameNotes, PassedKept, RowsKept
    PROVE  \A j \in Digests : DigestKept(j)
<1>1. Digests \subseteq DOMAIN notes
  BY DEF Digests
<1>2. \A j \in Digests : /\ notes'[j].listed = notes[j].listed /\ notes'[j].spells = notes[j].spells
                         /\ notes'[j].alone = notes[j].alone
  BY <1>1 DEF SameNotes
<1>3. ASSUME NEW j \in Digests, notes[j].alone PROVE DigestOK(j)'
  <2>1. DigestOK(j)
    BY <1>3 DEF DigestInv, DigestsOK
  <2>2. ASSUME NEW p \in notes[j].listed, NEW s, s = notes[j].spells[p]
        PROVE  /\ p \in Products /\ s \in Nat /\ s <= spell'[p]
               /\ (alert'[p] # NoRow /\ alert'[p].on >= j[2]) \/ Passed(p, s)'
    <3>1. /\ p \in Products /\ s \in Nat /\ s <= spell[p]
          /\ (alert[p] # NoRow /\ alert[p].on >= j[2]) \/ Passed(p, s)
      BY <2>1, <2>2 DEF DigestOK
    <3>2. spell[p] \in Nat /\ spell'[p] \in Nat /\ spell[p] <= spell'[p]
      BY <3>1 DEF DigestInv, WorldOK, PassedKept
    <3>3. Passed(p, s) => Passed(p, s)'
      BY <3>1 DEF PassedKept
    <3>4. ~Passed(p, s) => alert'[p] # NoRow /\ alert'[p].on >= j[2]
      BY <1>3, <2>2, <3>1 DEF RowsKept
    <3> QED
      BY <3>1, <3>2, <3>3, <3>4
  <2> QED
    BY <1>2, <2>2 DEF DigestOK
<1> QED
  BY <1>2, <1>3 DEF DigestKept

\* ... and a row written alone is new only with the digest that lists it.
LEMMA DigestsKept ==
    ASSUME DigestInv, SameNotes, PassedKept, Digests' = Digests, RowsKept,
           \A p \in Products : alert'[p] # NoRow /\ alert'[p].alone => alert'[p] = alert[p]
    PROVE  DigestsOK' /\ DigestsSound'
<1>1. \A j \in Digests : DigestKept(j)
  BY OldDigestsKept
<1>2. DigestsOK'
  BY <1>1 DEF DigestInv, DigestsOK, DigestKept
<1>3. DigestsSound
  BY DEF DigestInv
<1>4. ASSUME NEW j \in Digests, NEW k \in Digests, NEW p \in notes[j].listed \cap notes[k].listed,
             j # k, j[2] = k[2], notes[j].spells[p] = notes[k].spells[p]
      PROVE  ~notes[j].alone \/ ~notes[k].alone
  BY <1>3, <1>4 DEF DigestsSound
<1>5. ASSUME NEW p \in Products, alert'[p] # NoRow, alert'[p].alone
      PROVE  \E k \in Digests : k[2] = alert'[p].on /\ p \in notes[k].listed
  BY <1>3, <1>5 DEF DigestsSound
<1>6. DigestsSound'
  BY <1>1, <1>4, <1>5 DEF DigestsSound, DigestKept
<1> QED
  BY <1>2, <1>6

\* Without a new notice there is no new digest.
LEMMA DomainKept ==
    ASSUME DOMAIN notes' = DOMAIN notes
    PROVE  Digests' = Digests
  BY DEF Digests

-----------------------------------------------------------------------------
\* The digests: steps that write none.

\* Neither time nor stock moves, and no row is written.
LEMMA WorldStill ==
    ASSUME DigestInv, UNCHANGED <<now, low, spell, alert>>
    PROVE  /\ WorldOK' /\ PassedKept
           /\ Today \in Nat /\ Today' = Today
<1>1. WorldOK' /\ WorldOK
  BY DEF DigestInv, WorldOK
<1>2. \A p \in Products : spell[p] <= spell'[p]
  BY DEF DigestInv, WorldOK
<1>3. PassedKept
  BY <1>2 DEF DigestInv, WorldOK, PassedKept, Passed
<1>4. Today \in Nat /\ Today' = Today
  BY <1>1, TodayIs DEF Today
<1> QED
  BY <1>1, <1>3, <1>4

\* The world and the notices stay, and the job v goes on as it was.
LEMMA SweepStill ==
    ASSUME DigestInv, UNCHANGED <<now, low, spell, alert>>, SameNotes, Digests' = Digests,
           NEW v \in Workers, SameView(v)
    PROVE  SweepOK(v)'
<1>1. PassedKept /\ Today \in Nat /\ Today' = Today
  BY WorldStill
<1>2. \A day : DigestsOf(day)' = DigestsOf(day)
  BY DEF DigestsOf, Digests
<1>3. \A day \in Nat : /\ Cardinality(DigestsOf(day)) \in Nat
                       /\ Cardinality(DigestsOf(day)') \in Nat
                       /\ Cardinality(DigestsOf(day)) <= Cardinality(DigestsOf(day)')
  <2>1. SUFFICES ASSUME NEW day \in Nat
                 PROVE  /\ Cardinality(DigestsOf(day)) \in Nat
                        /\ Cardinality(DigestsOf(day)') \in Nat
                        /\ Cardinality(DigestsOf(day)) <= Cardinality(DigestsOf(day)')
    OBVIOUS
  <2>2. Cardinality(DigestsOf(day)) \in Nat
    BY CountIs DEF DigestInv
  <2> QED
    BY <1>2, <2>2
<1> QED
  BY <1>1, <1>3, SweepKept

\* The world and the notices stay.
LEMMA NoticesStill ==
    ASSUME DigestInv, UNCHANGED <<now, low, spell, alert>>, SameNotes, DOMAIN notes' = DOMAIN notes
    PROVE  WorldOK' /\ KeysOK' /\ DigestsOK' /\ DigestsSound'
<1>1. WorldOK' /\ PassedKept /\ Today \in Nat /\ Today' = Today
  BY WorldStill
<1>2. KeysOK'
  BY <1>1, KeysKept DEF DigestInv
<1>3. RowsKept
  BY DEF RowsKept
<1>4. \A p \in Products : alert'[p] # NoRow /\ alert'[p].alone => alert'[p] = alert[p]
  OBVIOUS
<1>5. DigestsOK' /\ DigestsSound'
  BY <1>1, <1>3, <1>4, DomainKept, DigestsKept
<1> QED
  BY <1>1, <1>2, <1>5

\* A worker that takes no part in a step.
LEMMA Unmoved ==
    ASSUME DigestInv, NEW v \in Workers, tx'[v] = tx[v]
    PROVE  SameView(v) /\ (Sweeping(v)' <=> Sweeping(v))
<1>1. tx[v].alone \in BOOLEAN
  BY DEF DigestInv, SweepOK
<1> QED
  BY <1>1 DEF SameView, Sweeping, At

\* Only job w moves, and it was a sweep already if it is one after.
LEMMA OneMoves ==
    ASSUME DigestInv, UNCHANGED <<now, low, spell, alert>>, SameNotes, DOMAIN notes' = DOMAIN notes,
           NEW w \in Workers, NEW r, Becomes(w, r), DOMAIN r = DOMAIN Idle, SweepOK(w)',
           Sweeping(w)' => Sweeping(w) /\ (r.alone => tx[w].alone)
    PROVE  DigestInv'
<1>1. DOMAIN tx' = Workers /\ tx'[w] = r /\ \A v \in Workers \ {w} : tx'[v] = tx[v]
  BY BecomesJob DEF DigestInv, JobsOK
<1>2. JobsOK'
  BY <1>1 DEF DigestInv, JobsOK
<1>3. ASSUME NEW v \in Workers PROVE SweepOK(v)'
  <2>1. CASE v = w
    BY <2>1
  <2>2. CASE v # w
    BY <1>1, <2>2, Unmoved, DomainKept, SweepStill
  <2> QED
    BY <2>1, <2>2
<1>4. OverlapsSeen'
  <2>1. SUFFICES ASSUME NEW v \in Workers, NEW u \in Workers, v # u, Sweeping(v)', Sweeping(u)'
                 PROVE  ~tx'[v].alone
    BY DEF OverlapsSeen
  <2>2. Sweeping(v) /\ Sweeping(u)
    BY <1>1, <2>1, Unmoved
  <2>3. ~tx[v].alone
    BY <2>1, <2>2 DEF DigestInv, OverlapsSeen
  <2> QED
    BY <1>1, <2>1, <2>3
<1> QED
  BY <1>2, <1>3, <1>4, NoticesStill DEF DigestInv

\* A job that ends or sends.
LEMMA OneRests ==
    ASSUME DigestInv, UNCHANGED <<now, low, spell, alert>>, SameNotes, DOMAIN notes' = DOMAIN notes,
           NEW w \in Workers, NEW r, Becomes(w, r), DOMAIN r = DOMAIN Idle, r.alone \in BOOLEAN,
           r.step \in {"dispatch", "send"} \/ (r.step = "idle" /\ r.job = "")
    PROVE  DigestInv'
<1>1. tx'[w] = r
  BY BecomesJob DEF DigestInv, JobsOK
<1>2. SweepOK(w)'
  <2>1. tx'[w].step \in {"idle", "dispatch", "send"} /\ tx'[w].alone \in BOOLEAN
    BY <1>1
  <2> QED
    BY <2>1 DEF SweepOK, Reading
<1>3. ~Sweeping(w)'
  BY <1>1 DEF Sweeping, At
<1> QED
  BY <1>2, <1>3, OneMoves

\* No notice is written.
LEMMA NotesStill ==
    ASSUME UNCHANGED notes
    PROVE  SameNotes /\ DOMAIN notes' = DOMAIN notes
  BY DEF SameNotes

\* The dispatcher, and the dispatch of a notice.
LEMMA DispatchDigest ==
    ASSUME DigestInv, NEW w \in Workers, NEW byClock, DispatchNote(w) \/ RunDispatch(w, byClock)
    PROVE  DigestInv'
<1>1. PICK t, due : Select(w, t, due)
  BY DEF DispatchNote, RunDispatch
<1>3. PICK r : r = Dispatching(t, due, deliveries)
  OBVIOUS
<1>4. Becomes(w, r) /\ UNCHANGED <<now, low, spell, alert, notes>>
  BY <1>1, <1>3 DEF Select, worldVars
<1>5. DOMAIN r = DOMAIN Idle /\ r.alone = TRUE /\ (r.step \in {"dispatch", "send"} \/ r = Idle)
  BY <1>3, DispatchingIs DEF InHand
<1>6. r.alone \in BOOLEAN /\ (r.step \in {"dispatch", "send"} \/ (r.step = "idle" /\ r.job = ""))
  BY <1>5, IdleJob
<1> QED
  BY <1>4, <1>5, <1>6, NotesStill, OneRests

\* One try of a delivery.
LEMMA SendDigest ==
    ASSUME DigestInv, NEW w \in Workers, Send(w)
    PROVE  DigestInv'
<1>1. PICK q : /\ At(w, "send") /\ Becomes(w, [tx[w] EXCEPT !.result = q])
               /\ UNCHANGED <<now, low, spell, alert, notes>>
  BY DEF Send, worldVars
<1>2. PICK r : r = [tx[w] EXCEPT !.result = q]
  OBVIOUS
<1>3. DOMAIN tx[w] = DOMAIN Idle /\ tx[w].alone \in BOOLEAN
  BY DEF DigestInv, JobsOK, SweepOK
<1>4. DOMAIN r = DOMAIN Idle /\ r.alone = tx[w].alone /\ r.step = "send"
  BY <1>1, <1>2, <1>3, IdleJob DEF At
<1>5. Becomes(w, r) /\ r.alone \in BOOLEAN
  BY <1>1, <1>2, <1>3, <1>4
<1> QED
  BY <1>1, <1>4, <1>5, NotesStill, OneRests

\* A job that ends.
LEMMA FinishDigest ==
    ASSUME DigestInv, NEW w \in Workers, Finish(w), UNCHANGED <<now, low, spell, alert, notes>>
    PROVE  DigestInv'
<1>1. PICK r : r = Idle
  OBVIOUS
<1>2. Becomes(w, r) /\ DOMAIN r = DOMAIN Idle /\ r.step = "idle" /\ r.job = "" /\ r.alone = TRUE
  BY <1>1, IdleJob DEF Finish
<1>3. r.alone \in BOOLEAN
  BY <1>2
<1> QED
  BY <1>2, <1>3, NotesStill, OneRests

\* A crash ends every job; what is committed stays.
LEMMA CrashDigest ==
    ASSUME DigestInv, Crash
    PROVE  DigestInv'
<1>1. tx' = [w \in Workers |-> Idle] /\ UNCHANGED <<now, low, spell, alert, notes>>
  BY DEF Crash, worldVars
<1>2. \A w \in Workers : tx'[w] = Idle
  BY <1>1
<1>3. JobsOK'
  BY <1>1 DEF JobsOK
<1>4. \A w \in Workers : SweepOK(w)'
  BY <1>2, IdleJob DEF SweepOK, Reading
<1>5. OverlapsSeen'
  BY <1>2, IdleJob DEF OverlapsSeen, Sweeping
<1> QED
  BY <1>1, <1>3, <1>4, <1>5, NotesStill, NoticesStill DEF DigestInv

\* No job moves, and neither do the products.
LEMMA NobodyMoves ==
    ASSUME DigestInv, UNCHANGED <<now, low, spell, alert, tx>>, SameNotes, DOMAIN notes' = DOMAIN notes
    PROVE  DigestInv'
<1>1. \A v \in Workers : SweepOK(v)'
  BY Unmoved, DomainKept, SweepStill
<1>2. JobsOK' /\ OverlapsSeen'
  BY DEF DigestInv, JobsOK, OverlapsSeen, Sweeping, At
<1> QED
  BY <1>1, <1>2, NoticesStill DEF DigestInv

\* mark_read and mark_all_read change no more than read.
LEMMA MarkReadDigest ==
    ASSUME DigestInv, MarkRead
    PROVE  DigestInv'
<1>1. PICK keys : notes' = [k \in DOMAIN notes |->
                       IF k \in keys THEN [notes[k] EXCEPT !.read = TRUE] ELSE notes[k]]
  BY DEF MarkRead
<1>2. UNCHANGED <<now, low, spell, alert, tx>>
  BY DEF MarkRead, worldVars
<1>3. DOMAIN notes' = DOMAIN notes
  BY <1>1
<1>4. ASSUME NEW k \in DOMAIN notes
      PROVE  /\ k \in DOMAIN notes' /\ DOMAIN notes'[k] = DOMAIN notes[k]
             /\ notes'[k].listed = notes[k].listed /\ notes'[k].spells = notes[k].spells
             /\ notes'[k].alone = notes[k].alone
  <2>1. DOMAIN notes[k] = {"listed", "spells", "alone", "read"}
    BY DEF DigestInv, KeysOK
  <2>2. CASE k \in keys
    <3>1. notes'[k] = [notes[k] EXCEPT !.read = TRUE]
      BY <1>1, <2>2
    <3> QED
      BY <1>3, <2>1, <3>1
  <2>3. CASE k \notin keys
    BY <1>1, <2>3
  <2> QED
    BY <2>2, <2>3
<1> QED
  BY <1>2, <1>3, <1>4, NobodyMoves DEF SameNotes

\* Time and the stock move, the rows and the notices stay.
LEMMA WorldMoves ==
    ASSUME DigestInv, UNCHANGED <<alert, tx, notes>>, WorldOK', PassedKept, Today <= Today'
    PROVE  DigestInv'
<1>1. Today \in Nat /\ Today' \in Nat
  <2>1. \A n \in Nat : n \div DayLength \in Nat
    BY NotificationsAssumption
  <2>2. now \in Nat /\ now' \in Nat
    BY DEF DigestInv, WorldOK
  <2> QED
    BY <2>1, <2>2 DEF Today
<1>2. SameNotes /\ DOMAIN notes' = DOMAIN notes
  BY NotesStill
<1>3. KeysOK' /\ Digests' = Digests /\ \A day : DigestsOf(day)' = DigestsOf(day)
  BY <1>1, <1>2, KeysKept DEF DigestInv
<1>4. \A day \in Nat : /\ Cardinality(DigestsOf(day)) \in Nat
                       /\ Cardinality(DigestsOf(day)') \in Nat
                       /\ Cardinality(DigestsOf(day)) <= Cardinality(DigestsOf(day)')
  <2>1. SUFFICES ASSUME NEW day \in Nat
                 PROVE  /\ Cardinality(DigestsOf(day)) \in Nat
                        /\ Cardinality(DigestsOf(day)') \in Nat
                        /\ Cardinality(DigestsOf(day)) <= Cardinality(DigestsOf(day)')
    OBVIOUS
  <2>2. Cardinality(DigestsOf(day)) \in Nat
    BY CountIs DEF DigestInv
  <2> QED
    BY <1>3, <2>2
<1>5. \A v \in Workers : SweepOK(v)'
  <2>1. SUFFICES ASSUME NEW v \in Workers PROVE SweepOK(v)'
    OBVIOUS
  <2>2. SameView(v)
    BY Unmoved
  <2>3. \A j \in Digests' : j \in Digests
    BY <1>3
  <2> QED
    BY <1>1, <1>2, <1>3, <1>4, <2>2, <2>3, SweepKept
<1>6. RowsKept
  BY DEF RowsKept
<1>7. \A p \in Products : alert'[p] # NoRow /\ alert'[p].alone => alert'[p] = alert[p]
  OBVIOUS
<1>8. DigestsOK' /\ DigestsSound'
  BY <1>2, <1>3, <1>6, <1>7, DigestsKept
<1>9. JobsOK' /\ OverlapsSeen'
  BY DEF DigestInv, JobsOK, OverlapsSeen, Sweeping, At
<1> QED
  BY <1>3, <1>5, <1>8, <1>9 DEF DigestInv

\* A product that goes low begins a new spell; one that recovers was not low.
LEMMA StockMovesDigest ==
    ASSUME DigestInv, StockMoves
    PROVE  DigestInv'
<1>1. PICK q \in Products :
         IF q \in low THEN low' = low \ {q} /\ UNCHANGED spell
         ELSE low' = low \cup {q} /\ spell' = [spell EXCEPT ![q] = @ + 1]
  BY DEF StockMoves
<1>2. UNCHANGED <<now, alert, tx, notes>>
  BY DEF StockMoves, dbVars
<1>3. WorldOK
  BY DEF DigestInv
<1>4. spell' \in [Products -> Nat] /\ low' \subseteq Products
  BY <1>1, <1>3 DEF WorldOK
<1>5. \A p \in Products : spell[p] <= spell'[p]
  BY <1>1, <1>3 DEF WorldOK
<1>6. ASSUME NEW p \in Products, NEW s \in Nat, s <= spell[p], Passed(p, s) PROVE Passed(p, s)'
  <2>1. spell[p] \in Nat
    BY <1>3 DEF WorldOK
  <2>2. CASE p # q
    BY <1>1, <1>3, <1>6, <2>2 DEF Passed, WorldOK
  <2>3. CASE p = q /\ q \in low
    BY <1>1, <2>3 DEF Passed
  <2>4. CASE p = q /\ q \notin low
    <3>1. spell'[p] = spell[p] + 1
      BY <1>1, <1>3, <2>4 DEF WorldOK
    <3> QED
      BY <1>6, <2>1, <3>1 DEF Passed
  <2> QED
    BY <2>2, <2>3, <2>4
<1>7. WorldOK' /\ PassedKept
  BY <1>2, <1>3, <1>4, <1>5, <1>6 DEF WorldOK, PassedKept
<1>8. Today <= Today'
  BY <1>2, <1>3, TodayIs DEF Today
<1> QED
  BY <1>2, <1>7, <1>8, WorldMoves

\* The days go up.
LEMMA TickDigest ==
    ASSUME DigestInv, Tick
    PROVE  DigestInv'
<1>1. now' = now + 1 /\ UNCHANGED <<low, spell, alert, tx, notes>>
  BY DEF Tick, dbVars
<1>2. WorldOK
  BY DEF DigestInv
<1>3. WorldOK'
  BY <1>1, <1>2 DEF WorldOK
<1>4. PassedKept
  BY <1>1, <1>2 DEF WorldOK, PassedKept, Passed
<1>5. now \in Nat /\ DayLength \in Nat \ {0}
  BY <1>2, NotificationsAssumption DEF WorldOK
<1>6. now \div DayLength <= (now + 1) \div DayLength
  BY <1>5
<1>7. Today <= Today'
  BY <1>1, <1>6 DEF Today
<1> QED
  BY <1>1, <1>3, <1>4, <1>7, WorldMoves

-----------------------------------------------------------------------------
\* The digests: a sweep reads.

\* What a sweep for job knows right after Swept.
JustRead(t, job) ==
    /\ t.alone = TRUE
    /\ \/ t.step = "idle" /\ t.job = ""
       \/ t.step = "add settings" /\ t.job = job
       \/ /\ t.step = "states" /\ t.job = "low_stock" /\ job = "low_stock"
          /\ t.day = Today /\ t.low = low /\ t.spells = spell
       \/ t.step = "create" /\ t.job = job /\ job # "low_stock" /\ t.key = <<job, Today, 0>>

\* What a sweep has read when it gets its settings.
LEMMA SweptReads == \A job, byClock, row : JustRead(Swept(job, byClock, row), job)
<1> SUFFICES ASSUME NEW job, NEW byClock, NEW row PROVE JustRead(Swept(job, byClock, row), job)
  OBVIOUS
<1> PICK t : t = Swept(job, byClock, row)
  OBVIOUS
<1>1. CASE row = NoRow
  <2>1. t = [Idle EXCEPT !.step = "add settings", !.job = job, !.byClock = byClock]
    BY <1>1 DEF Swept
  <2>2. t.step = "add settings" /\ t.job = job /\ t.alone = TRUE
    BY <2>1, IdleJob
  <2> QED
    BY <2>2 DEF JustRead
<1>2. CASE row # NoRow /\ ~Wanted(job, row)
  BY <1>2, IdleJob DEF Swept, JustRead
<1>3. CASE row # NoRow /\ Wanted(job, row)
  <2>1. PICK today : today = now \div DayLength
    OBVIOUS
  <2>2. t = [Idle EXCEPT !.step = IF job = "low_stock" THEN "states" ELSE "create",
              !.job = job, !.byClock = byClock, !.day = today, !.low = low, !.spells = spell,
              !.key = IF job = "low_stock" THEN <<>> ELSE <<job, today, 0>>]
    BY <1>3, <2>1 DEF Swept
  <2>3. /\ t.step = IF job = "low_stock" THEN "states" ELSE "create"
        /\ t.job = job /\ t.day = today /\ t.low = low /\ t.spells = spell
        /\ t.key = IF job = "low_stock" THEN <<>> ELSE <<job, today, 0>>
        /\ t.alone = TRUE
    BY <2>2, IdleJob
  <2>4. today = Today
    BY <2>1 DEF Today
  <2> QED
    BY <2>3, <2>4 DEF JustRead
<1> QED
  BY <1>1, <1>2, <1>3

\* A sweep that has just read is in order, alone or not: every digest so far is of
\* today or before, and what it listed has a row or was not low since.
LEMMA SweepStarts ==
    ASSUME DigestInv, UNCHANGED <<now, low, spell, alert, notes>>, NEW v, NEW t, NEW job,
           job \in {"low_stock", "daily_summary"}, JustRead(t, job),
           tx'[v].step = t.step, tx'[v].job = t.job, tx'[v].day = t.day, tx'[v].low = t.low,
           tx'[v].spells = t.spells, tx'[v].key = t.key, tx'[v].alone \in BOOLEAN
    PROVE  SweepOK(v)'
<1>1. Today \in Nat /\ Today' = Today
  BY WorldStill
<1>2. CASE t.step \in {"idle", "add settings"}
  BY <1>2 DEF SweepOK, Reading, JustRead
<1>3. CASE t.step = "create"
  <2>1. t.job = job /\ job = "daily_summary" /\ t.key = <<job, Today, 0>>
    BY <1>3 DEF JustRead
  <2>2. ~Sweeping(v)' /\ ~Reading(v)'
    BY <2>1 DEF Sweeping, Reading
  <2>3. /\ t.key \in Jobs \X Nat \X Nat /\ t.key[2] <= Today'
        /\ t.key[1] # "low_stock"
    BY <1>1, <2>1 DEF Jobs
  <2> QED
    BY <1>3, <2>2, <2>3 DEF SweepOK
<1>4. CASE t.step = "states"
  <2>1. t.job = "low_stock" /\ t.day = Today /\ t.low = low /\ t.spells = spell
    BY <1>4 DEF JustRead
  <2>2. Sweeping(v)' /\ tx'[v].step = "states"
    BY <1>4, <2>1 DEF Sweeping, At
  <2>3. WorldOK
    BY DEF DigestInv
  <2>4. /\ tx'[v].day \in Nat /\ tx'[v].day <= Today'
        /\ tx'[v].low \subseteq Products
        /\ tx'[v].spells \in [Products -> Nat] /\ \A p \in Products : tx'[v].spells[p] <= spell'[p]
    BY <1>1, <2>1, <2>3 DEF WorldOK
  <2>5. ASSUME NEW j \in Digests', notes'[j].alone PROVE AfterDigest(v, j)'
    <3>1. j \in Digests /\ j \in DOMAIN notes /\ notes[j].alone
      BY <2>5 DEF Digests
    <3>2. j[2] <= Today
      BY <3>1 DEF DigestInv, KeysOK
    <3>3. DigestOK(j)
      BY <3>1 DEF DigestInv, DigestsOK
    <3>4. ASSUME NEW p \in notes[j].listed, NEW s, s = notes[j].spells[p]
          PROVE  /\ p \in low \/ Passed(p, s)'
                 /\ p \in low /\ spell[p] = s => alert'[p] # NoRow /\ alert'[p].on >= j[2]
      <4>1. /\ p \in Products /\ s \in Nat
            /\ (alert[p] # NoRow /\ alert[p].on >= j[2]) \/ Passed(p, s)
        BY <3>3, <3>4 DEF DigestOK
      <4>2. Passed(p, s)' <=> Passed(p, s)
        BY DEF Passed
      <4>3. spell[p] \in Nat
        BY <2>3, <4>1 DEF WorldOK
      <4> QED
        BY <4>1, <4>2, <4>3 DEF Passed
    <3>5. tx'[v].day = Today /\ tx'[v].low = low /\ tx'[v].spells = spell
      BY <2>1
    <3> QED
      BY <2>2, <3>2, <3>4, <3>5 DEF AfterDigest
  <2> QED
    BY <2>2, <2>4, <2>5 DEF SweepOK
<1> QED
  BY <1>2, <1>3, <1>4 DEF JustRead

\* A sweep that starts while another runs is not alone, and neither is the other after.
LEMMA RunSweepDigest ==
    ASSUME DigestInv, NEW w \in Workers, NEW job, NEW byClock, RunSweep(w, job, byClock)
    PROVE  DigestInv'
<1>1. PICK t : t = Swept(job, byClock, settings)
  OBVIOUS
<1>2. Fresh(t) /\ JustRead(t, job)
  BY <1>1, SweptIs, SweptReads
<1>3. DOMAIN t = DOMAIN Idle
  BY <1>2 DEF Fresh
<1>4. PICK alone \in BOOLEAN : alone = \A u \in Workers : ~Sweeping(u)
  OBVIOUS
<1>5. /\ job \in {"low_stock", "daily_summary"} /\ UNCHANGED <<now, low, spell, alert, notes>>
      /\ tx' = [v \in Workers |->
                  IF v = w THEN [t EXCEPT !.alone = alone]
                  ELSE [tx[v] EXCEPT !.alone = @ /\ ~(t.job = "low_stock" /\ Sweeping(v))]]
  BY <1>1, <1>4 DEF RunSweep, dbVars, worldVars
<1>6. PICK r : r = [t EXCEPT !.alone = alone]
  OBVIOUS
<1>7. /\ DOMAIN r = DOMAIN Idle /\ r.step = t.step /\ r.job = t.job /\ r.day = t.day
      /\ r.low = t.low /\ r.spells = t.spells /\ r.key = t.key /\ r.alone = alone
  BY <1>3, <1>6, IdleJob
<1>8. tx'[w] = r /\ DOMAIN tx' = Workers
  BY <1>5, <1>6
<1>9. SweepOK(w)'
  <2>1. /\ tx'[w].step = t.step /\ tx'[w].job = t.job /\ tx'[w].day = t.day
        /\ tx'[w].low = t.low /\ tx'[w].spells = t.spells /\ tx'[w].key = t.key
        /\ tx'[w].alone \in BOOLEAN
    BY <1>4, <1>7, <1>8
  <2> QED
    BY <1>2, <1>5, <2>1, SweepStarts
<1>10. ASSUME NEW v \in Workers, v # w
       PROVE  /\ DOMAIN tx'[v] = DOMAIN Idle /\ SameView(v)
              /\ Sweeping(v)' <=> Sweeping(v)
              /\ t.job = "low_stock" /\ Sweeping(v) => ~tx'[v].alone
  <2>1. DOMAIN tx[v] = DOMAIN Idle /\ tx[v].alone \in BOOLEAN
    BY DEF DigestInv, JobsOK, SweepOK
  <2>2. PICK b \in BOOLEAN : b = (tx[v].alone /\ ~(t.job = "low_stock" /\ Sweeping(v)))
    BY <2>1
  <2>3. tx'[v] = [tx[v] EXCEPT !.alone = b]
    BY <1>5, <1>10, <2>2
  <2>4. /\ DOMAIN tx'[v] = DOMAIN Idle
        /\ tx'[v].step = tx[v].step /\ tx'[v].job = tx[v].job /\ tx'[v].day = tx[v].day
        /\ tx'[v].low = tx[v].low /\ tx'[v].spells = tx[v].spells /\ tx'[v].rows = tx[v].rows
        /\ tx'[v].newly = tx[v].newly /\ tx'[v].key = tx[v].key /\ tx'[v].alone = b
    <3>1. PICK a, c : a = tx[v] /\ c = tx'[v]
      OBVIOUS
    <3>2. DOMAIN a = DOMAIN Idle /\ c = [a EXCEPT !.alone = b]
      BY <2>1, <2>3, <3>1
    <3>3. /\ DOMAIN c = DOMAIN Idle
          /\ c.step = a.step /\ c.job = a.job /\ c.day = a.day
          /\ c.low = a.low /\ c.spells = a.spells /\ c.rows = a.rows
          /\ c.newly = a.newly /\ c.key = a.key /\ c.alone = b
      BY <3>2, IdleJob
    <3> QED
      BY <3>1, <3>3
  <2>5. SameView(v)
    BY <2>1, <2>2, <2>4 DEF SameView
  <2>6. Sweeping(v)' <=> Sweeping(v)
    BY <2>4 DEF Sweeping, At
  <2> QED
    BY <2>2, <2>4, <2>5, <2>6
<1>11. \A v \in Workers \ {w} : SweepOK(v)'
  BY <1>5, <1>10, NotesStill, DomainKept, SweepStill
<1>12. OverlapsSeen'
  <2>1. SUFFICES ASSUME NEW v \in Workers, NEW u \in Workers, v # u, Sweeping(v)', Sweeping(u)'
                 PROVE  ~tx'[v].alone
    BY DEF OverlapsSeen
  <2>2. Sweeping(w)' => t.job = "low_stock"
    BY <1>7, <1>8 DEF Sweeping
  <2>3. CASE v = w
    BY <1>4, <1>7, <1>8, <1>10, <2>1, <2>3
  <2>4. CASE u = w
    BY <1>10, <2>1, <2>2, <2>4
  <2>5. CASE v # w /\ u # w
    <3>1. ~tx[v].alone
      BY <1>10, <2>1, <2>5 DEF DigestInv, OverlapsSeen
    <3> QED
      BY <1>10, <2>5, <3>1 DEF SameView
  <2> QED
    BY <2>3, <2>4, <2>5
<1>13. JobsOK'
  BY <1>7, <1>8, <1>10 DEF JobsOK
<1> QED
  BY <1>5, <1>9, <1>11, <1>12, <1>13, NotesStill, NoticesStill DEF DigestInv

\* get_settings: the sweep ends, or goes on as if it had started now.
LEMMA InsertSettingsDigest ==
    ASSUME DigestInv, NEW w \in Workers, InsertSettings(w)
    PROVE  DigestInv'
<1>1. tx[w].step = "add settings" /\ UNCHANGED <<now, low, spell, alert, notes>>
  BY DEF InsertSettings, At, worldVars
<1>2. CASE Finish(w)
  BY <1>1, <1>2, FinishDigest
<1>3. CASE Becomes(w, [Swept(tx[w].job, tx[w].byClock, Defaults) EXCEPT !.alone = tx[w].alone])
  <2>1. PICK t : t = Swept(tx[w].job, tx[w].byClock, Defaults)
    OBVIOUS
  <2>2. PICK job : job = tx[w].job
    OBVIOUS
  <2>3. PICK r : r = [t EXCEPT !.alone = tx[w].alone]
    OBVIOUS
  <2>4. Fresh(t) /\ JustRead(t, job)
    BY <2>1, <2>2, SweptIs, SweptReads
  <2>5. SweepOK(w)
    BY DEF DigestInv
  <2>6. tx[w].alone \in BOOLEAN /\ job \in {"low_stock", "daily_summary"}
    BY <1>1, <2>2, <2>5 DEF SweepOK
  <2>7. DOMAIN t = DOMAIN Idle
    BY <2>4 DEF Fresh
  <2>8. /\ DOMAIN r = DOMAIN Idle /\ r.step = t.step /\ r.job = t.job /\ r.day = t.day
        /\ r.low = t.low /\ r.spells = t.spells /\ r.key = t.key /\ r.alone = tx[w].alone
    BY <2>3, <2>7, IdleJob
  <2>9. Becomes(w, r)
    BY <1>3, <2>1, <2>3
  <2>10. tx'[w] = r
    BY <2>9, BecomesJob DEF DigestInv, JobsOK
  <2>11. /\ tx'[w].step = t.step /\ tx'[w].job = t.job /\ tx'[w].day = t.day
         /\ tx'[w].low = t.low /\ tx'[w].spells = t.spells /\ tx'[w].key = t.key
         /\ tx'[w].alone \in BOOLEAN
    BY <2>6, <2>8, <2>10
  <2>12. SweepOK(w)'
    BY <1>1, <2>4, <2>6, <2>11, SweepStarts
  <2>13. Sweeping(w)' => Sweeping(w) /\ (r.alone => tx[w].alone)
    BY <1>1, <2>2, <2>4, <2>8, <2>10 DEF Sweeping, At, JustRead
  <2> QED
    BY <1>1, <2>8, <2>9, <2>12, <2>13, NotesStill, OneMoves
<1> QED
  BY <1>2, <1>3 DEF InsertSettings

\* What a sweep knows while it works on the stock it has read.
LEMMA ReaderKnows ==
    ASSUME DigestInv, NEW w \in Workers, Sweeping(w), tx[w].step \in {"states", "flush", "create"},
           NEW t, t = tx[w]
    PROVE  /\ t.alone \in BOOLEAN
           /\ t.day \in Nat /\ t.day <= Today
           /\ t.low \subseteq Products
           /\ t.spells \in [Products -> Nat] /\ \A p \in Products : t.spells[p] <= spell[p]
           /\ \A j \in Digests : notes[j].alone => AfterDigest(w, j)
           /\ t.step # "states" =>
                t.newly \subseteq t.low /\ t.rows \in [Products -> AlertRows \cup {NoRow}]
           /\ t.step = "create" =>
                /\ t.key \in Jobs \X Nat \X Nat /\ t.key[1] = "low_stock" /\ t.key[2] = t.day
                /\ t.key[3] <= Cardinality(DigestsOf(t.day))
                /\ t.alone => t.key[3] = Cardinality(DigestsOf(t.day))
  BY DEF DigestInv, SweepOK, Reading

\* Of what a digest made alone listed, a sweep made alone finds newly low only what was
\* listed on an earlier day or was not low since.
LEMMA ReadStatesDigest ==
    ASSUME DigestInv, NEW w \in Workers, ReadStates(w)
    PROVE  DigestInv'
<1>1. tx[w].step = "states" /\ UNCHANGED <<now, low, spell, alert, notes>>
  BY DEF ReadStates, At, dbVars, worldVars
<1> PICK t : t = tx[w]
  OBVIOUS
<1>2. PICK newly : newly = NewlyLow(alert, t.low, t.day)
  OBVIOUS
<1>3. PICK r : r = [t EXCEPT !.step = "flush", !.rows = alert, !.newly = newly]
  OBVIOUS
<1>4. Becomes(w, r)
  BY <1>2, <1>3 DEF ReadStates
<1>5. DOMAIN t = DOMAIN Idle
  BY DEF DigestInv, JobsOK
<1>6. /\ DOMAIN r = DOMAIN Idle /\ r.step = "flush" /\ r.job = t.job /\ r.day = t.day
      /\ r.alone = t.alone /\ r.low = t.low /\ r.spells = t.spells
      /\ r.rows = alert /\ r.newly = newly
  BY <1>3, <1>5, IdleJob
<1>7. tx'[w] = r
  BY <1>4, BecomesJob DEF DigestInv, JobsOK
<1>8. Sweeping(w) /\ Sweeping(w)'
  <2>1. Sweeping(w)
    BY <1>1 DEF DigestInv, SweepOK
  <2> QED
    BY <1>6, <1>7, <2>1 DEF Sweeping, At
<1>9. /\ t.alone \in BOOLEAN
      /\ t.day \in Nat /\ t.day <= Today
      /\ t.low \subseteq Products
      /\ t.spells \in [Products -> Nat] /\ \A p \in Products : t.spells[p] <= spell[p]
      /\ \A j \in Digests : notes[j].alone => AfterDigest(w, j)
  BY <1>1, <1>8, ReaderKnows
<1>10. newly \subseteq t.low /\ \A p \in newly : alert[p] = NoRow \/ t.day - alert[p].on >= Repeat
  BY <1>2 DEF NewlyLow
<1>11. WorldOK
  BY DEF DigestInv
<1>12. ASSUME NEW j \in Digests, notes[j].alone PROVE AfterDigest(w, j)'
  <2>1. AfterDigest(w, j)
    BY <1>9, <1>12
  <2>2. j[2] <= t.day /\ j[2] \in Nat
    BY <2>1 DEF AfterDigest, DigestInv, KeysOK, Digests
  <2>3. ASSUME NEW p \in notes[j].listed, NEW s, s = notes[j].spells[p]
        PROVE  /\ p \in t.low \/ Passed(p, s)'
               /\ t.alone /\ p \in t.low /\ t.spells[p] = s /\ p \in newly => j[2] # t.day
    <3>1. p \in t.low \/ Passed(p, s)
      BY <2>1, <2>3 DEF AfterDigest
    <3>2. ASSUME t.alone, p \in t.low, t.spells[p] = s, p \in newly PROVE j[2] # t.day
      <4>1. alert[p] # NoRow /\ alert[p].on >= j[2]
        BY <1>1, <2>1, <2>3, <3>2 DEF AfterDigest
      <4>2. alert[p] \in AlertRows
        BY <1>9, <1>11, <3>2, <4>1 DEF WorldOK
      <4>3. PICK on \in Nat : on = alert[p].on
        BY <4>2 DEF AlertRows
      <4>4. t.day - on >= Repeat /\ on >= j[2]
        BY <1>10, <3>2, <4>1, <4>3
      <4>5. Repeat \in Nat /\ Repeat >= 1
        BY NotificationsAssumption
      <4> QED
        BY <1>9, <2>2, <4>4, <4>5
    <3>3. Passed(p, s)' <=> Passed(p, s)
      BY <1>1 DEF Passed
    <3> QED
      BY <3>1, <3>2, <3>3
  <2> QED
    BY <1>1, <1>6, <1>7, <2>2, <2>3 DEF AfterDigest
<1>13. Digests' = Digests /\ Today' = Today
  BY <1>1 DEF Digests, Today
<1>14. SweepOK(w)'
  <2>1. \A j \in Digests' : notes'[j].alone => AfterDigest(w, j)'
    BY <1>1, <1>12, <1>13
  <2>2. /\ r.day \in Nat /\ r.day <= Today' /\ r.low \subseteq Products
        /\ r.spells \in [Products -> Nat] /\ \A p \in Products : r.spells[p] <= spell'[p]
        /\ r.newly \subseteq r.low /\ r.rows \in [Products -> AlertRows \cup {NoRow}]
    BY <1>1, <1>6, <1>9, <1>10, <1>11, <1>13 DEF WorldOK
  <2> QED
    BY <1>6, <1>7, <1>8, <1>9, <2>1, <2>2 DEF SweepOK
<1> QED
  BY <1>1, <1>4, <1>6, <1>8, <1>14, NotesStill, OneMoves

-----------------------------------------------------------------------------
\* The digests: a sweep writes its rows, and its digest.

\* What a sweep in order leaves of the rows: those newly low are alerted as of its day,
\* others stay, or go if the sweep did not see the product low.
LEMMA AlertAfterIs ==
    ASSUME DigestInv, NEW w \in Workers, Sweeping(w), tx[w].step \in {"flush", "create"},
           NEW t, t = tx[w], NEW rows, rows = AlertAfter(w)
    PROVE  /\ rows \in [Products -> AlertRows \cup {NoRow}]
           /\ \A p \in Products : p \in t.newly =>
                rows[p] # NoRow /\ rows[p].on = t.day /\ rows[p].alone = t.alone
           /\ \A p \in Products : p \notin t.newly =>
                rows[p] = alert[p] \/ (rows[p] = NoRow /\ p \notin t.low)
<1>1. /\ t.alone \in BOOLEAN /\ t.day \in Nat /\ t.spells \in [Products -> Nat]
      /\ t.rows \in [Products -> AlertRows \cup {NoRow}]
  BY ReaderKnows
<1>2. WorldOK
  BY DEF DigestInv
<1>3. rows = [p \in Products |->
        IF p \in t.newly
        THEN [id |-> IF t.rows[p] = NoRow THEN t.spells[p] ELSE t.rows[p].id,
              on |-> t.day, alone |-> t.alone]
        ELSE IF p \in Recovered(w) /\ SameRow(alert[p], t.rows[p]) THEN NoRow ELSE alert[p]]
  BY DEF AlertAfter
<1>4. ASSUME NEW p \in Products, p \in t.newly
      PROVE  /\ rows[p] \in AlertRows /\ rows[p] # NoRow
             /\ rows[p].on = t.day /\ rows[p].alone = t.alone
  <2>1. PICK id : id = IF t.rows[p] = NoRow THEN t.spells[p] ELSE t.rows[p].id
    OBVIOUS
  <2>2. id \in Nat
    BY <1>1, <2>1 DEF AlertRows
  <2>3. rows[p] = [id |-> id, on |-> t.day, alone |-> t.alone]
    BY <1>3, <1>4, <2>1
  <2>4. rows[p] \in AlertRows
    BY <1>1, <2>2, <2>3 DEF AlertRows
  <2>5. rows[p].on = t.day /\ rows[p].alone = t.alone
    BY <2>3
  <2> QED
    BY <2>4, <2>5, NotificationsAssumption
<1>5. ASSUME NEW p \in Products, p \notin t.newly
      PROVE  rows[p] = alert[p] \/ (rows[p] = NoRow /\ p \notin t.low)
  BY <1>3, <1>5 DEF Recovered
<1>6. rows \in [Products -> AlertRows \cup {NoRow}]
  <2>1. \A p \in Products : rows[p] \in AlertRows \cup {NoRow}
    BY <1>2, <1>4, <1>5 DEF WorldOK
  <2> QED
    BY <1>3, <2>1
<1> QED
  BY <1>4, <1>5, <1>6

\* The rows that a sweep leaves keep what digests made alone have listed.
LEMMA RowsAfter ==
    ASSUME DigestInv, NEW w \in Workers, Sweeping(w), tx[w].step \in {"flush", "create"},
           alert' = AlertAfter(w)
    PROVE  RowsKept
<1> PICK t : t = tx[w]
  OBVIOUS
<1>1. /\ \A p \in Products : p \in t.newly => alert'[p] # NoRow /\ alert'[p].on = t.day
      /\ \A p \in Products : p \notin t.newly =>
           alert'[p] = alert[p] \/ (alert'[p] = NoRow /\ p \notin t.low)
  BY AlertAfterIs
<1>2. \A j \in Digests : notes[j].alone => AfterDigest(w, j)
  BY ReaderKnows
<1>3. t.day \in Nat
  BY ReaderKnows
<1>4. SUFFICES ASSUME NEW p \in Products, NEW j \in Digests,
                      notes[j].alone, p \in notes[j].listed, ~Passed(p, notes[j].spells[p]),
                      alert[p] # NoRow, alert[p].on >= j[2]
               PROVE  alert'[p] # NoRow /\ alert'[p].on >= j[2]
  BY DEF RowsKept
<1>5. AfterDigest(w, j)
  BY <1>2, <1>4
<1>6. j[2] <= t.day /\ p \in t.low
  BY <1>4, <1>5 DEF AfterDigest
<1>7. j[2] \in Nat
  BY DEF DigestInv, KeysOK, Digests
<1>8. t.day >= j[2]
  BY <1>3, <1>6, <1>7
<1> QED
  BY <1>1, <1>4, <1>6, <1>8

\* While w sweeps, no other reader counts as alone.
LEMMA OthersBesides ==
    ASSUME DigestInv, NEW w \in Workers, Sweeping(w), NEW v \in Workers, v # w, Sweeping(v)
    PROVE  ~tx[v].alone /\ ~tx[w].alone
  BY DEF DigestInv, OverlapsSeen

\* A sweep ends that writes its rows and no digest: it has none newly low, or it is not
\* alone and found its key used.
LEMMA RowsWritten ==
    ASSUME DigestInv, NEW w \in Workers, Sweeping(w), tx[w].step \in {"flush", "create"},
           alert' = AlertAfter(w), UNCHANGED <<now, low, spell, notes>>, Finish(w),
           tx[w].newly = {} \/ ~tx[w].alone
    PROVE  DigestInv'
<1> PICK t : t = tx[w]
  OBVIOUS
<1>1. /\ alert' \in [Products -> AlertRows \cup {NoRow}]
      /\ \A p \in Products : p \in t.newly => alert'[p] # NoRow /\ alert'[p].alone = t.alone
      /\ \A p \in Products : p \notin t.newly =>
           alert'[p] = alert[p] \/ (alert'[p] = NoRow /\ p \notin t.low)
  BY AlertAfterIs
<1>2. RowsKept
  BY RowsAfter
<1>3. \A p \in Products : alert'[p] # NoRow /\ alert'[p].alone => alert'[p] = alert[p]
  BY <1>1
<1>4. WorldOK /\ WorldOK'
  BY <1>1 DEF DigestInv, WorldOK
<1>5. PassedKept
  <2>1. \A p \in Products : spell[p] <= spell'[p]
    BY <1>4 DEF WorldOK
  <2> QED
    BY <1>4, <2>1 DEF WorldOK, PassedKept, Passed
<1>6. Today \in Nat /\ Today' = Today
  BY <1>4, TodayIs DEF Today
<1>7. SameNotes /\ DOMAIN notes' = DOMAIN notes
  BY NotesStill
<1>8. KeysOK' /\ Digests' = Digests /\ \A day : DigestsOf(day)' = DigestsOf(day)
  BY <1>6, <1>7, KeysKept DEF DigestInv
<1>9. DigestsOK' /\ DigestsSound'
  BY <1>2, <1>3, <1>5, <1>7, <1>8, DigestsKept
<1>10. DOMAIN tx' = Workers /\ tx'[w] = Idle /\ \A v \in Workers \ {w} : tx'[v] = tx[v]
  BY BecomesJob DEF Finish, DigestInv, JobsOK
<1>11. JobsOK'
  BY <1>10 DEF DigestInv, JobsOK
<1>12. \A day \in Nat : /\ Cardinality(DigestsOf(day)) \in Nat
                        /\ Cardinality(DigestsOf(day)') \in Nat
                        /\ Cardinality(DigestsOf(day)) <= Cardinality(DigestsOf(day)')
  <2>1. SUFFICES ASSUME NEW day \in Nat
                 PROVE  /\ Cardinality(DigestsOf(day)) \in Nat
                        /\ Cardinality(DigestsOf(day)') \in Nat
                        /\ Cardinality(DigestsOf(day)) <= Cardinality(DigestsOf(day)')
    OBVIOUS
  <2>2. Cardinality(DigestsOf(day)) \in Nat
    BY CountIs DEF DigestInv
  <2> QED
    BY <1>8, <2>2
<1>13. ASSUME NEW v \in Workers PROVE SweepOK(v)'
  <2>1. CASE v = w
    BY <1>10, <2>1, IdleJob DEF SweepOK, Reading
  <2>2. CASE v # w
    <3>1. SameView(v) /\ tx'[v] = tx[v]
      BY <1>10, <2>2, Unmoved
    <3>2. Reading(v) => ~tx'[v].alone
      BY <2>2, <3>1, OthersBesides DEF Reading
    <3>3. Reading(v) => \A j \in Digests' : notes'[j].alone => j \in Digests
      BY <1>8
    <3>4. Reading(v) /\ tx'[v].alone => alert' = alert /\ Digests' = Digests
      BY <3>2
    <3> QED
      BY <1>5, <1>6, <1>7, <1>12, <3>1, <3>3, <3>4, SweepKept
  <2> QED
    BY <2>1, <2>2
<1>14. OverlapsSeen'
  <2>1. SUFFICES ASSUME NEW v \in Workers, NEW u \in Workers, v # u, Sweeping(v)', Sweeping(u)'
                 PROVE  ~tx'[v].alone
    BY DEF OverlapsSeen
  <2>2. v # w /\ u # w
    BY <1>10, <2>1, IdleJob DEF Sweeping
  <2>3. Sweeping(v) /\ Sweeping(u) /\ tx'[v] = tx[v]
    BY <1>10, <2>1, <2>2 DEF Sweeping, At
  <2> QED
    BY <2>1, <2>3 DEF DigestInv, OverlapsSeen
<1> QED
  BY <1>4, <1>8, <1>9, <1>11, <1>13, <1>14 DEF DigestInv

\* The flush of a sweep: it fails, or deletes rows and ends, or numbers its digest.
LEMMA FlushStatesDigest ==
    ASSUME DigestInv, NEW w \in Workers, FlushStates(w)
    PROVE  DigestInv'
<1> PICK t : t = tx[w]
  OBVIOUS
<1>1. t.step = "flush" /\ UNCHANGED <<now, low, spell, notes>>
  BY DEF FlushStates, At, worldVars
<1>2. Sweeping(w)
  BY <1>1 DEF DigestInv, SweepOK
<1>3. PICK n : n = Cardinality(DigestsOf(t.day))
  OBVIOUS
<1>4. \/ Finish(w) /\ alert' = alert
      \/ t.newly = {} /\ alert' = AlertAfter(w) /\ Finish(w)
      \/ /\ Becomes(w, [t EXCEPT !.step = "create", !.key = <<"low_stock", t.day, n>>])
         /\ alert' = alert
  BY <1>3 DEF FlushStates, DigestsOf
<1>5. CASE Finish(w) /\ alert' = alert
  BY <1>1, <1>5, FinishDigest
<1>6. CASE t.newly = {} /\ alert' = AlertAfter(w) /\ Finish(w)
  BY <1>1, <1>2, <1>6, RowsWritten
<1>7. CASE /\ Becomes(w, [t EXCEPT !.step = "create", !.key = <<"low_stock", t.day, n>>])
           /\ alert' = alert
  <2>1. PICK r : r = [t EXCEPT !.step = "create", !.key = <<"low_stock", t.day, n>>]
    OBVIOUS
  <2>2. Becomes(w, r)
    BY <1>7, <2>1
  <2>3. DOMAIN t = DOMAIN Idle
    BY DEF DigestInv, JobsOK
  <2>4. /\ DOMAIN r = DOMAIN Idle /\ r.step = "create" /\ r.job = t.job /\ r.day = t.day
        /\ r.alone = t.alone /\ r.low = t.low /\ r.spells = t.spells
        /\ r.rows = t.rows /\ r.newly = t.newly /\ r.key = <<"low_stock", t.day, n>>
    BY <2>1, <2>3, IdleJob
  <2>5. tx'[w] = r
    BY <2>2, BecomesJob DEF DigestInv, JobsOK
  <2>6. Sweeping(w)'
    BY <1>2, <2>4, <2>5 DEF Sweeping, At
  <2>7. /\ t.alone \in BOOLEAN
        /\ t.day \in Nat /\ t.day <= Today
        /\ t.low \subseteq Products
        /\ t.spells \in [Products -> Nat] /\ \A p \in Products : t.spells[p] <= spell[p]
        /\ \A j \in Digests : notes[j].alone => AfterDigest(w, j)
        /\ t.newly \subseteq t.low /\ t.rows \in [Products -> AlertRows \cup {NoRow}]
    BY <1>1, <1>2, ReaderKnows
  <2>8. n \in Nat
    BY <1>3, CountIs DEF DigestInv
  <2>9. Digests' = Digests /\ Today' = Today /\ DigestsOf(t.day)' = DigestsOf(t.day)
    BY <1>1 DEF Digests, Today, DigestsOf
  <2>10. ASSUME NEW j \in Digests, notes[j].alone PROVE AfterDigest(w, j)'
    <3>1. AfterDigest(w, j)
      BY <2>7, <2>10
    <3>2. \A p, s : Passed(p, s)' <=> Passed(p, s)
      BY <1>1 DEF Passed
    <3> QED
      BY <1>1, <2>4, <2>5, <3>1, <3>2 DEF AfterDigest
  <2>11. \A j \in Digests' : notes'[j].alone => AfterDigest(w, j)'
    BY <1>1, <2>9, <2>10
  <2>12. /\ r.key \in Jobs \X Nat \X Nat /\ r.key[1] = "low_stock" /\ r.key[2] = r.day
         /\ r.key[2] <= Today' /\ r.key[3] = Cardinality(DigestsOf(r.day)')
    BY <1>3, <2>4, <2>7, <2>8, <2>9 DEF Jobs
  <2>13. r.key[3] <= Cardinality(DigestsOf(r.day)')
    BY <2>4, <2>8, <2>12
  <2>14. /\ r.day \in Nat /\ r.day <= Today' /\ r.low \subseteq Products
         /\ r.spells \in [Products -> Nat] /\ \A p \in Products : r.spells[p] <= spell'[p]
         /\ r.newly \subseteq r.low /\ r.rows \in [Products -> AlertRows \cup {NoRow}]
    BY <1>1, <2>4, <2>7, <2>9
  <2>15. SweepOK(w)'
    BY <2>4, <2>5, <2>6, <2>7, <2>11, <2>12, <2>13, <2>14 DEF SweepOK
  <2> QED
    BY <1>1, <1>2, <1>7, <2>2, <2>4, <2>6, <2>15, NotesStill, OneMoves
<1> QED
  BY <1>4, <1>5, <1>6, <1>7

\* The notice that a job with key k inserts.
Added(t) ==
    notes' = [k \in DOMAIN notes \cup {t.key} |->
                IF k = t.key THEN [listed |-> t.newly, spells |-> t.spells,
                                   alone |-> t.alone, read |-> FALSE]
                ELSE notes[k]]

\* The INSERT of a notice adds one under its key.
LEMMA AddedIs ==
    ASSUME NEW t, t.key \notin DOMAIN notes, Added(t)
    PROVE  /\ SameNotes /\ DOMAIN notes' = DOMAIN notes \cup {t.key}
           /\ \A k \in DOMAIN notes : DOMAIN notes'[k] = DOMAIN notes[k]
           /\ DOMAIN notes'[t.key] = {"listed", "spells", "alone", "read"}
           /\ notes'[t.key].listed = t.newly /\ notes'[t.key].spells = t.spells
           /\ notes'[t.key].alone = t.alone
<1>1. DOMAIN notes' = DOMAIN notes \cup {t.key}
  BY DEF Added
<1>2. \A k \in DOMAIN notes : notes'[k] = notes[k]
  BY DEF Added
<1>3. notes'[t.key] = [listed |-> t.newly, spells |-> t.spells, alone |-> t.alone, read |-> FALSE]
  BY DEF Added
<1>4. SameNotes
  BY <1>1, <1>2 DEF SameNotes
<1> QED
  BY <1>1, <1>2, <1>3, <1>4

\* The digest of a day gets the next number.
LEMMA KeysGrow ==
    ASSUME KeysOK, NEW t, t.key \notin DOMAIN notes, Added(t), Today \in Nat, Today' = Today,
           t.key \in Jobs \X Nat \X Nat, t.key[2] <= Today,
           t.key[1] = "low_stock" => t.key[3] <= Cardinality(DigestsOf(t.key[2]))
    PROVE  /\ KeysOK'
           /\ \A day \in Nat : /\ Cardinality(DigestsOf(day)) \in Nat
                               /\ Cardinality(DigestsOf(day)') \in Nat
                               /\ Cardinality(DigestsOf(day)) <= Cardinality(DigestsOf(day)')
<1> PICK key : key = t.key
  OBVIOUS
<1>1. /\ DOMAIN notes' = DOMAIN notes \cup {key}
      /\ \A k \in DOMAIN notes : DOMAIN notes'[k] = DOMAIN notes[k]
      /\ DOMAIN notes'[key] = {"listed", "spells", "alone", "read"}
  BY AddedIs
<1>2. IsFiniteSet(DOMAIN notes')
  BY <1>1, FS_AddElement DEF KeysOK
<1>3. \A k \in DOMAIN notes' : /\ k \in Jobs \X Nat \X Nat /\ k[2] <= Today'
                               /\ DOMAIN notes'[k] = {"listed", "spells", "alone", "read"}
  BY <1>1 DEF KeysOK
<1>4. ASSUME NEW day \in Nat
      PROVE  /\ Cardinality(DigestsOf(day)) \in Nat
             /\ Cardinality(DigestsOf(day)') \in Nat
             /\ Cardinality(DigestsOf(day)) <= Cardinality(DigestsOf(day)')
             /\ \A n \in Nat :
                  <<"low_stock", day, n>> \in DOMAIN notes' <=> n < Cardinality(DigestsOf(day)')
  <2>1. IsFiniteSet(DigestsOf(day)) /\ Cardinality(DigestsOf(day)) \in Nat
    BY CountIs
  <2>2. \A n \in Nat : <<"low_stock", day, n>> \in DOMAIN notes <=> n < Cardinality(DigestsOf(day))
    BY DEF KeysOK
  <2>3. CASE key[1] = "low_stock" /\ key[2] = day
    <3>1. DigestsOf(day)' = DigestsOf(day) \cup {key} /\ key \notin DigestsOf(day)
      BY <1>1, <2>3 DEF DigestsOf
    <3>2. Cardinality(DigestsOf(day)') = Cardinality(DigestsOf(day)) + 1
      BY <2>1, <3>1, FS_AddElement
    <3>3. key[3] \in Nat /\ key = <<"low_stock", day, key[3]>>
      BY <2>3
    <3>4. key[3] = Cardinality(DigestsOf(day))
      BY <2>1, <2>2, <2>3, <3>3
    <3>5. ASSUME NEW n \in Nat
          PROVE  <<"low_stock", day, n>> \in DOMAIN notes' <=> n < Cardinality(DigestsOf(day)')
      <4>1. <<"low_stock", day, n>> = key <=> n = key[3]
        BY <3>3
      <4> QED
        BY <1>1, <2>1, <2>2, <3>2, <3>4, <4>1
    <3> QED
      BY <2>1, <3>2, <3>5
  <2>4. CASE ~(key[1] = "low_stock" /\ key[2] = day)
    <3>1. DigestsOf(day)' = DigestsOf(day)
      BY <1>1, <2>4 DEF DigestsOf
    <3>2. \A n \in Nat : <<"low_stock", day, n>> # key
      BY <2>4
    <3> QED
      BY <1>1, <2>1, <2>2, <3>1, <3>2
  <2> QED
    BY <2>3, <2>4
<1> QED
  BY <1>2, <1>3, <1>4 DEF KeysOK

\* A job that has inserted its notice rests: it is about to send, or it has ended.
AtRest(r) ==
    /\ DOMAIN r = DOMAIN Idle /\ r.alone \in BOOLEAN
    /\ r.step \in {"dispatch", "send"} \/ (r.step = "idle" /\ r.job = "")

\* The other jobs are in order, and the one that moved rests.
LEMMA OthersAndRest ==
    ASSUME DigestInv, NEW w \in Workers, NEW r, Becomes(w, r), AtRest(r),
           \A v \in Workers : v # w => SweepOK(v)'
    PROVE  /\ JobsOK' /\ OverlapsSeen'
           /\ \A v \in Workers : SweepOK(v)'
<1>1. DOMAIN tx' = Workers /\ tx'[w] = r /\ \A v \in Workers \ {w} : tx'[v] = tx[v]
  BY BecomesJob DEF DigestInv, JobsOK
<1>2. JobsOK'
  BY <1>1 DEF DigestInv, JobsOK, AtRest
<1>3. SweepOK(w)'
  <2>1. tx'[w].step \in {"idle", "dispatch", "send"} /\ tx'[w].alone \in BOOLEAN
    BY <1>1 DEF AtRest
  <2> QED
    BY <2>1 DEF SweepOK, Reading
<1>4. ~Sweeping(w)'
  BY <1>1 DEF Sweeping, At, AtRest
<1>5. OverlapsSeen'
  <2>1. SUFFICES ASSUME NEW v \in Workers, NEW u \in Workers, v # u, Sweeping(v)', Sweeping(u)'
                 PROVE  ~tx'[v].alone
    BY DEF OverlapsSeen
  <2>2. v # w /\ u # w
    BY <1>4, <2>1
  <2>3. Sweeping(v) /\ Sweeping(u) /\ tx'[v] = tx[v]
    BY <1>1, <2>1, <2>2 DEF Sweeping, At
  <2> QED
    BY <2>1, <2>3 DEF DigestInv, OverlapsSeen
<1> QED
  BY <1>2, <1>3, <1>5

\* The notice of the daily summary is no digest.
LEMMA SummaryAdded ==
    ASSUME DigestInv, NEW w \in Workers, NEW t, t = tx[w], t.step = "create", ~Sweeping(w),
           t.key \notin DOMAIN notes, Added(t), UNCHANGED <<now, low, spell, alert>>,
           NEW r, Becomes(w, r), AtRest(r)
    PROVE  DigestInv'
<1>1. WorldOK' /\ PassedKept /\ Today \in Nat /\ Today' = Today
  BY WorldStill
<1>2. t.key \in Jobs \X Nat \X Nat /\ t.key[2] <= Today /\ t.key[1] # "low_stock"
  BY DEF DigestInv, SweepOK
<1>3. KeysOK'
  BY <1>1, <1>2, KeysGrow DEF DigestInv
<1>4. SameNotes /\ DOMAIN notes' = DOMAIN notes \cup {t.key}
  BY AddedIs
<1>5. Digests' = Digests
  BY <1>2, <1>4 DEF Digests
<1>6. RowsKept
  BY DEF RowsKept
<1>7. \A p \in Products : alert'[p] # NoRow /\ alert'[p].alone => alert'[p] = alert[p]
  OBVIOUS
<1>8. DigestsOK' /\ DigestsSound'
  BY <1>1, <1>4, <1>5, <1>6, <1>7, DigestsKept
<1>9. ASSUME NEW v \in Workers, v # w PROVE SweepOK(v)'
  <2>1. tx'[v] = tx[v]
    BY <1>9, BecomesJob DEF DigestInv, JobsOK
  <2> QED
    BY <1>4, <1>5, <2>1, Unmoved, SweepStill
<1> QED
  BY <1>1, <1>3, <1>8, <1>9, OthersAndRest DEF DigestInv

\* A sweep made alone lists no product that another digest made alone, of its day, has
\* listed for the same spell; and the rows that it writes are of products it lists.
LEMMA DigestAdded ==
    ASSUME DigestInv, NEW w \in Workers, NEW t, t = tx[w], t.step = "create", Sweeping(w),
           t.key \notin DOMAIN notes, Added(t), UNCHANGED <<now, low, spell>>,
           alert' = AlertAfter(w), NEW r, Becomes(w, r), AtRest(r)
    PROVE  DigestInv'
<1> PICK key : key = t.key
  OBVIOUS
<1>1. /\ t.alone \in BOOLEAN
      /\ t.day \in Nat /\ t.day <= Today
      /\ t.low \subseteq Products /\ t.newly \subseteq t.low
      /\ t.spells \in [Products -> Nat] /\ \A p \in Products : t.spells[p] <= spell[p]
      /\ \A j \in Digests : notes[j].alone => AfterDigest(w, j)
  BY ReaderKnows
<1>2. /\ key \in Jobs \X Nat \X Nat /\ key[1] = "low_stock" /\ key[2] = t.day
      /\ key[3] <= Cardinality(DigestsOf(t.day))
  BY ReaderKnows
<1>3. /\ alert' \in [Products -> AlertRows \cup {NoRow}]
      /\ \A p \in Products : p \in t.newly =>
           alert'[p] # NoRow /\ alert'[p].on = t.day /\ alert'[p].alone = t.alone
      /\ \A p \in Products : p \notin t.newly =>
           alert'[p] = alert[p] \/ (alert'[p] = NoRow /\ p \notin t.low)
  BY AlertAfterIs
<1>4. WorldOK /\ WorldOK'
  BY <1>3 DEF DigestInv, WorldOK
<1>5. PassedKept
  <2>1. \A p \in Products : spell[p] <= spell'[p]
    BY <1>4 DEF WorldOK
  <2> QED
    BY <1>4, <2>1 DEF WorldOK, PassedKept, Passed
<1>6. Today \in Nat /\ Today' = Today
  BY <1>4, TodayIs DEF Today
<1>7. /\ SameNotes /\ DOMAIN notes' = DOMAIN notes \cup {key} /\ key \notin DOMAIN notes
      /\ notes'[key].listed = t.newly /\ notes'[key].spells = t.spells /\ notes'[key].alone = t.alone
  BY AddedIs
<1>8. Digests' = Digests \cup {key}
  BY <1>2, <1>7 DEF Digests
<1>9. /\ KeysOK'
      /\ \A day \in Nat : /\ Cardinality(DigestsOf(day)) \in Nat
                          /\ Cardinality(DigestsOf(day)') \in Nat
                          /\ Cardinality(DigestsOf(day)) <= Cardinality(DigestsOf(day)')
  <2>1. /\ t.key \in Jobs \X Nat \X Nat /\ t.key[2] <= Today
        /\ t.key[1] = "low_stock" => t.key[3] <= Cardinality(DigestsOf(t.key[2]))
    BY <1>1, <1>2
  <2> QED
    BY <1>6, <2>1, KeysGrow DEF DigestInv
<1>10. \A j \in Digests : DigestKept(j)
  BY <1>5, <1>7, RowsAfter, OldDigestsKept
<1>11. DigestOK(key)'
  <2>1. ASSUME NEW p \in t.newly
        PROVE  /\ p \in Products /\ t.spells[p] \in Nat /\ t.spells[p] <= spell'[p]
               /\ alert'[p] # NoRow /\ alert'[p].on >= key[2]
    <3>1. p \in Products
      BY <1>1
    <3> QED
      BY <1>1, <1>2, <1>3, <3>1
  <2> QED
    BY <1>7, <2>1 DEF DigestOK
<1>12. DigestsOK'
  BY <1>1, <1>7, <1>8, <1>10, <1>11 DEF DigestInv, DigestsOK, DigestKept
<1>13. DigestsSound
  BY DEF DigestInv
<1>14. ASSUME NEW j \in Digests, notes[j].alone, NEW p \in notes[j].listed \cap t.newly,
              j[2] = t.day, notes[j].spells[p] = t.spells[p]
       PROVE  ~t.alone
  BY <1>1, <1>14 DEF AfterDigest
<1>15. ASSUME NEW j \in Digests', NEW k \in Digests',
              NEW p \in notes'[j].listed \cap notes'[k].listed,
              j # k, j[2] = k[2], notes'[j].spells[p] = notes'[k].spells[p]
       PROVE  ~notes'[j].alone \/ ~notes'[k].alone
  <2>1. CASE j \in Digests /\ k \in Digests
    <3>1. /\ notes'[j].listed = notes[j].listed /\ notes'[k].listed = notes[k].listed
          /\ notes'[j].spells = notes[j].spells /\ notes'[k].spells = notes[k].spells
          /\ notes'[j].alone = notes[j].alone /\ notes'[k].alone = notes[k].alone
      BY <1>10, <2>1 DEF DigestKept
    <3> QED
      BY <1>13, <1>15, <2>1, <3>1 DEF DigestsSound
  <2>2. CASE j \in Digests /\ k = key
    BY <1>2, <1>7, <1>10, <1>14, <1>15, <2>2 DEF DigestKept
  <2>3. CASE j = key /\ k \in Digests
    BY <1>2, <1>7, <1>10, <1>14, <1>15, <2>3 DEF DigestKept
  <2> QED
    BY <1>8, <1>15, <2>1, <2>2, <2>3
<1>16. ASSUME NEW p \in Products, alert'[p] # NoRow, alert'[p].alone
       PROVE  \E k \in Digests' : k[2] = alert'[p].on /\ p \in notes'[k].listed
  <2>1. CASE p \in t.newly
    BY <1>2, <1>3, <1>7, <1>8, <2>1
  <2>2. CASE p \notin t.newly
    <3>1. alert'[p] = alert[p]
      BY <1>3, <1>16, <2>2
    <3>2. PICK k \in Digests : k[2] = alert[p].on /\ p \in notes[k].listed
      BY <1>13, <1>16, <3>1 DEF DigestsSound
    <3> QED
      BY <1>8, <1>10, <3>1, <3>2 DEF DigestKept
  <2> QED
    BY <2>1, <2>2
<1>17. DigestsSound'
  BY <1>15, <1>16 DEF DigestsSound
<1>18. ASSUME NEW v \in Workers, v # w PROVE SweepOK(v)'
  <2>1. tx'[v] = tx[v]
    BY <1>18, BecomesJob DEF DigestInv, JobsOK
  <2>2. SameView(v)
    BY <2>1, Unmoved
  <2>3. Reading(v) => ~tx'[v].alone /\ ~t.alone
    BY <1>18, <2>1, OthersBesides DEF Reading
  <2>4. Reading(v) => \A j \in Digests' : notes'[j].alone => j \in Digests
    BY <1>7, <1>8, <2>3
  <2>5. Reading(v) /\ tx'[v].alone => alert' = alert /\ Digests' = Digests
    BY <2>3
  <2> QED
    BY <1>5, <1>6, <1>7, <1>9, <2>2, <2>4, <2>5, SweepKept
<1> QED
  BY <1>4, <1>9, <1>12, <1>17, <1>18, OthersAndRest DEF DigestInv

\* create, for either sweep and whether or not the key is used.
LEMMA CreateNoteDigest ==
    ASSUME DigestInv, NEW w \in Workers, CreateNote(w)
    PROVE  DigestInv'
<1> PICK t : t = tx[w]
  OBVIOUS
<1>1. /\ t.step = "create" /\ UNCHANGED <<now, low, spell>>
      /\ alert' = IF t.job = "low_stock" THEN AlertAfter(w) ELSE alert
  BY DEF CreateNote, At, worldVars
<1>2. Sweeping(w) <=> t.job = "low_stock"
  BY <1>1 DEF Sweeping, At
<1>3. CASE t.key \in DOMAIN notes
  <2>1. Finish(w) /\ notes' = notes
    BY <1>3 DEF CreateNote
  <2>2. CASE Sweeping(w)
    <3>1. /\ t.key \in Jobs \X Nat \X Nat /\ t.key[1] = "low_stock" /\ t.key[2] = t.day
          /\ t.day \in Nat /\ (t.alone => t.key[3] = Cardinality(DigestsOf(t.day)))
      BY <1>1, <2>2, ReaderKnows
    <3>2. t.key = <<"low_stock", t.day, t.key[3]>> /\ t.key[3] \in Nat
      BY <3>1
    <3>3. t.key[3] < Cardinality(DigestsOf(t.day))
      BY <1>3, <3>1, <3>2 DEF DigestInv, KeysOK
    <3>4. ~t.alone
      BY <3>1, <3>2, <3>3
    <3> QED
      BY <1>1, <1>2, <2>1, <2>2, <3>4, RowsWritten
  <2>3. CASE ~Sweeping(w)
    BY <1>1, <1>2, <2>1, <2>3, FinishDigest
  <2> QED
    BY <2>2, <2>3
<1>4. CASE t.key \notin DOMAIN notes
  <2>1. PICK r : /\ Becomes(w, r)
                 /\ r = [Idle EXCEPT !.step = "dispatch", !.job = t.job,
                                     !.byClock = t.byClock, !.key = t.key]
    BY <1>4 DEF CreateNote
  <2>2. AtRest(r)
    <3>1. DOMAIN r = DOMAIN Idle /\ r.alone = TRUE /\ r.step = "dispatch"
      BY <2>1, IdleJob
    <3> QED
      BY <3>1 DEF AtRest
  <2>3. Added(t)
    BY <1>4 DEF CreateNote, Added
  <2>4. CASE Sweeping(w)
    BY <1>1, <1>2, <1>4, <2>1, <2>2, <2>3, <2>4, DigestAdded
  <2>5. CASE ~Sweeping(w)
    <3>1. alert' = alert
      BY <1>1, <1>2, <2>5
    <3> QED
      BY <1>1, <1>4, <2>1, <2>2, <2>3, <2>5, <3>1, SummaryAdded
  <2> QED
    BY <2>4, <2>5
<1> QED
  BY <1>3, <1>4

-----------------------------------------------------------------------------
\* No notice yet, and no job.
LEMMA InitDigest == Init => DigestInv
<1> SUFFICES ASSUME Init PROVE DigestInv
  OBVIOUS
<1>1. PICK s \in Scenes : /\ now = s.now /\ low = s.low /\ alert = s.alert /\ notes = s.notes
  BY DEF Init
<1>2. /\ tx = [w \in Workers |-> Idle] /\ spell = [p \in Products |-> 0]
      /\ DOMAIN notes = {} /\ now \in Nat /\ low \subseteq Products
      /\ alert \in [Products -> AlertRows \cup {NoRow}]
      /\ \A p \in Products : alert[p] # NoRow => ~alert[p].alone
  BY <1>1, ScenesAssumption DEF Init
<1>3. WorldOK /\ JobsOK
  BY <1>2 DEF WorldOK, JobsOK
<1>4. Digests = {} /\ \A day : DigestsOf(day) = {}
  BY <1>2 DEF Digests, DigestsOf
<1>5. KeysOK
  <2>1. IsFiniteSet({}) /\ Cardinality({}) = 0
    BY FS_EmptySet
  <2>2. \A day, n \in Nat :
           <<"low_stock", day, n>> \in DOMAIN notes <=> n < Cardinality(DigestsOf(day))
    <3>1. SUFFICES ASSUME NEW day \in Nat, NEW n \in Nat
                   PROVE  <<"low_stock", day, n>> \notin DOMAIN notes /\ ~(n < Cardinality(DigestsOf(day)))
      OBVIOUS
    <3>2. Cardinality(DigestsOf(day)) = 0
      BY <1>4, <2>1
    <3>3. <<"low_stock", day, n>> \notin DOMAIN notes
      BY <1>2
    <3> QED
      BY <3>2, <3>3
  <2> QED
    BY <1>2, <2>1, <2>2 DEF KeysOK
<1>6. DigestsOK /\ DigestsSound
  BY <1>2, <1>4 DEF DigestsOK, DigestsSound
<1>7. \A w \in Workers : tx[w] = Idle
  BY <1>2
<1>8. OverlapsSeen /\ \A w \in Workers : SweepOK(w)
  BY <1>7, IdleJob DEF OverlapsSeen, Sweeping, SweepOK, Reading
<1> QED
  BY <1>3, <1>5, <1>6, <1>8 DEF DigestInv

\* Every step keeps the invariant of the digests.
LEMMA NextDigest == DigestInv /\ [Next]_vars => DigestInv'
<1> SUFFICES ASSUME DigestInv, [Next]_vars PROVE DigestInv'
  OBVIOUS
<1>1. CASE StockMoves
  BY <1>1, StockMovesDigest
<1>2. CASE Tick
  BY <1>2, TickDigest
<1>3. CASE UpdateSettings
  BY <1>3, NotesStill, NobodyMoves DEF UpdateSettings, worldVars
<1>4. CASE MarkRead
  BY <1>4, MarkReadDigest
<1>5. CASE Crash
  BY <1>5, CrashDigest
<1>6. ASSUME NEW w \in Workers, Work(w) PROVE DigestInv'
  <2>1. CASE RecordSends(w)
    BY <2>1, FinishDigest DEF RecordSends, worldVars
  <2> QED
    BY <1>6, <2>1, InsertSettingsDigest, ReadStatesDigest, FlushStatesDigest, CreateNoteDigest,
       DispatchDigest, SendDigest DEF Work
<1>7. ASSUME NEW w \in Workers, NEW job \in Jobs, NEW byClock \in BOOLEAN, Run(w, job, byClock)
      PROVE DigestInv'
  BY <1>7, RunSweepDigest, DispatchDigest DEF Run
<1>8. CASE UNCHANGED vars
  BY <1>8, NotesStill, NobodyMoves DEF vars, dbVars, worldVars
<1> QED
  BY <1>1, <1>2, <1>3, <1>4, <1>5, <1>6, <1>7, <1>8 DEF Next

\* For any number of sweeps, started by the clock and by people, products and settings:
\* sweeps that nobody overlapped tell once a day of a spell of being low, and count as
\* alerted only what a digest of that day lists.
THEOREM DigestsTell == Spec => []DigestsSound
<1>1. DigestInv => DigestsSound
  BY DEF DigestInv
<1> QED
  BY <1>1, InitDigest, NextDigest, PTL DEF Spec
=============================================================================

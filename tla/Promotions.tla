----------------------------- MODULE Promotions -----------------------------
(***************************************************************************)
(* The promotions of a shop: owners create, edit and switch them off while *)
(* tills ask what carts cost.  An edit writes the columns its body changes *)
(* and replaces the target rows it has read; a till reads the promotions   *)
(* in one statement and their targets in the next.                         *)
(***************************************************************************)
EXTENDS PromotionEngine, RowLocks

CONSTANTS
    Ids,           \* promotions the shop may have; their order is that of their ids
    Shelves,       \* the promotions a behaviour may start with
    NewRules,      \* what create bodies say
    Edits,         \* what update bodies say: the columns they set
    TargetLists,   \* targets that bodies list
    Keep,          \* a body that leaves the targets alone
    Carts,         \* what tills ask about
    NoRule, NoCart, NoAnswer,
    EditsFrom,     \* bound: EditsFrom[s]: owners' requests when a behaviour starts with s
    MaxCarts       \* bound: requests of tills

Cart == [items : Seq(Request), code : Codes \cup {NoCode}, discount : Nat, at : Nat]

ASSUME PromotionsAssumption ==
    /\ NoWorker \notin Workers
    /\ Ids \subseteq Nat \ {0} /\ IsFiniteSet(Ids)
    /\ Ids \cap (Codes \cup {NoCode}) = {} /\ NoRule \notin Rule
    /\ NewRules \subseteq Rule
    /\ Shelves \subseteq [Ids -> Rule \cup {NoRule}]
    /\ EditsFrom \in [Shelves -> Nat]
    /\ TargetLists \subseteq SUBSET (Products \cup Categories)
    /\ Carts \subseteq Cart

\* A row of which a request sets some columns.
Edited(row, edit) == [f \in DOMAIN row |-> IF f \in DOMAIN edit THEN edit[f] ELSE row[f]]

\* A promotion of everything, at any time, that is worth nothing.
Blank ==
    [kind |-> "percent_off", scope |-> "all", off |-> 0, buy |-> 0, get |-> 0,
     bundle |-> NoPrice, code |-> NoCode, from |-> 0, until |-> 400,
     weekdays |-> 0 .. 6, hours |-> <<0, 23>>, uses |-> 0, maxUses |-> 99,
     priority |-> 100, stackable |-> FALSE, active |-> TRUE]

\* A body sets each column to what a rule may have there.
ASSUME EditsAssumption == \A edit \in Edits : Edited(Blank, edit) \in Rule

VARIABLES
    promo,      \* per id, its row of promotions
    targetRows, \* promotion_targets, each row with the request that wrote it
    session,    \* per worker, the request it serves
    edits,      \* requests the owners have left to make
    carts

promoVars == <<promo, targetRows, lock, session, edits, carts>>

Rows == Ids \cup Codes

NoRequest ==
    [step |-> "idle", id |-> 0, by |-> 0, edit |-> <<>>, targets |-> Keep,
     held |-> FALSE,         \* an UPDATE of the promotion's row has been sent
     seen |-> {},            \* target rows read, to be deleted; for a till, promotions
     cart |-> NoCart, answer |-> NoAnswer]

PromoInit ==
    /\ promo \in Shelves
    /\ targetRows \in
         {[id : {k \in Ids : promo[k] # NoRule}, target : list, by : {0}, held : {FALSE}] :
             list \in TargetLists}
    /\ lock = [r \in Rows |-> NoWorker]
    /\ session = [w \in Workers |-> NoRequest]
    /\ edits = EditsFrom[promo]
    /\ carts = 0

AtStep(w, step) == session[w].step = step
Serves(w, r) == session' = [session EXCEPT ![w] = r]
Finish(w) == Serves(w, NoRequest) /\ ReleaseRows(w)
Existing == {k \in Ids : promo[k] # NoRule}

\* The rows that body lists become, and the ones they replace.
NewTargets(w, list) ==
    [id : {session[w].id}, target : list, by : {session[w].by}, held : {session[w].held}]

-----------------------------------------------------------------------------
\* Variants of definitions below, each with a bug that a property must refute.

\* The targets are read before the changed columns are sent.
FlushColumnsLate(w) ==
    /\ AtStep(w, "columns")
    /\ Serves(w, [session[w] EXCEPT !.step = "targets", !.held = TRUE])
    /\ UNCHANGED <<promo, targetRows, lock, edits, carts>>

-----------------------------------------------------------------------------
\* create_promotion, up to the flush that sends the row: the unique index makes it
\* wait for, or fail on, another row with its code.
FreeCode(w, id, code) ==
    code # NoCode =>
        /\ lock[code] \in {NoWorker, w}
        /\ \A k \in Existing \ {id} : promo[k].code # code

HoldRow(w, id, code) ==
    lock' = [r \in Rows |-> IF r = id \/ r = code THEN w ELSE lock[r]]

CreatePromotion(w) ==
    \E id \in Ids \ Existing, rule \in NewRules, list \in TargetLists :
        /\ AtStep(w, "idle") /\ edits > 0
        /\ lock[id] = NoWorker /\ FreeCode(w, id, rule.code)
        /\ HoldRow(w, id, rule.code)
        /\ Serves(w, [NoRequest EXCEPT !.step = "create", !.id = id, !.by = edits,
                                   !.edit = rule, !.targets = list, !.held = TRUE])
        /\ edits' = edits - 1
        /\ UNCHANGED <<promo, targetRows, carts>>

\* update_promotion and deactivate_promotion, up to the first statement after the
\* row was read: the UPDATE of the columns that change, if any does.
ReadPromotion(w) ==
    \E id \in Existing, edit \in Edits, list \in TargetLists \cup {Keep} :
        LET changed == {f \in DOMAIN edit : edit[f] # promo[id][f]} IN
        /\ AtStep(w, "idle") /\ edits > 0
        /\ Serves(w, [NoRequest EXCEPT !.step = IF changed = {} THEN "targets" ELSE "columns",
                                   !.id = id, !.by = edits, !.targets = list,
                                   !.edit = [f \in changed |-> edit[f]]])
        /\ edits' = edits - 1
        /\ UNCHANGED <<promo, targetRows, lock, carts>>

DeactivatePromotion(w) ==
    \E id \in Existing :
        /\ AtStep(w, "idle") /\ edits > 0 /\ promo[id].active
        /\ Serves(w, [NoRequest EXCEPT !.step = "columns", !.id = id, !.edit = [active |-> FALSE]])
        /\ edits' = edits - 1
        /\ UNCHANGED <<promo, targetRows, lock, carts>>

EditedCode(w) == IF "code" \in DOMAIN session[w].edit THEN session[w].edit.code ELSE NoCode

FlushColumns(w) ==
    LET id == session[w].id IN
    /\ AtStep(w, "columns")
    /\ lock[id] = NoWorker
    /\ FreeCode(w, id, EditedCode(w))
    /\ HoldRow(w, id, EditedCode(w))
    /\ Serves(w, [session[w] EXCEPT !.step = "targets", !.held = TRUE])
    /\ UNCHANGED <<promo, targetRows, edits, carts>>

\* The code is taken: IntegrityError, the client gets a 500.
RefuseCode(w) ==
    /\ AtStep(w, "columns")
    /\ \E k \in Existing \ {session[w].id} : EditedCode(w) # NoCode /\ promo[k].code = EditedCode(w)
    /\ Finish(w)
    /\ UNCHANGED <<promo, targetRows, edits, carts>>

\* _set_targets reads the rows it is to delete.
ReadTargets(w) ==
    /\ AtStep(w, "targets")
    /\ Serves(w, [session[w] EXCEPT !.step = "commit",
                     !.seen = IF session[w].targets = Keep THEN {}
                              ELSE {r \in targetRows : r.id = session[w].id}])
    /\ UNCHANGED <<promo, targetRows, lock, edits, carts>>

\* The changed columns alone are written; rows deleted by another stay deleted.
Commit(w) ==
    LET id == session[w].id
        list == session[w].targets
    IN  /\ session[w].step \in {"create", "commit"}
        /\ promo' = [promo EXCEPT ![id] = IF AtStep(w, "create") THEN session[w].edit ELSE Edited(@, session[w].edit)]
        /\ targetRows' = IF list = Keep THEN targetRows
                         ELSE (targetRows \ session[w].seen) \cup NewTargets(w, list)
        /\ Finish(w)
        /\ UNCHANGED <<edits, carts>>

-----------------------------------------------------------------------------
\* preview_sale: load_for_engine reads the active promotions, then their targets.
LoadPromotions(w) ==
    \E cart \in Carts :
        /\ AtStep(w, "idle") /\ carts < MaxCarts
        /\ Serves(w, [NoRequest EXCEPT !.step = "load", !.cart = cart,
                          !.seen = {[id |-> k, rule |-> promo[k]] :
                                      k \in {j \in Existing : promo[j].active}}])
        /\ carts' = carts + 1
        /\ UNCHANGED <<promo, targetRows, lock, edits>>

\* _resolve_checkout for a cart: refused, or a price.
PriceCart(cart, loaded) ==
    LET resolved == Resolve(cart.items, loaded, cart.code, cart.at)
        lines == resolved.lines
    IN  IF \/ cart.code # NoCode /\ ~resolved.matched
           \/ \E i \in DOMAIN lines : LineTotal(lines[i]) < 0
           \/ Subtotal(lines) < cart.discount
        THEN NoAnswer
        ELSE [lines |-> lines, applied |-> resolved.applied,
              totals |-> CalcTotals(Subtotal(lines), cart.discount)]

\* No ORDER BY: the rows come in any order.
LoadTargets(w) ==
    LET Targets(k) == {r.target : r \in {q \in targetRows : q.id = k.id}}
        loaded == {[id |-> k.id, rule |-> k.rule, targets |-> Targets(k)] : k \in session[w].seen}
    IN  /\ AtStep(w, "load")
        /\ \E order \in SetToSeqs(loaded) :
             Serves(w, [session[w] EXCEPT !.step = "answered", !.seen = loaded,
                                      !.answer = PriceCart(session[w].cart, order)])
        /\ UNCHANGED <<promo, targetRows, lock, edits, carts>>

Answer(w) ==
    /\ AtStep(w, "answered")
    /\ Finish(w)
    /\ UNCHANGED <<promo, targetRows, edits, carts>>

-----------------------------------------------------------------------------
PromoNext ==
    \E w \in Workers :
        \/ CreatePromotion(w) \/ ReadPromotion(w) \/ DeactivatePromotion(w)
        \/ FlushColumns(w) \/ RefuseCode(w) \/ ReadTargets(w) \/ Commit(w)
        \/ LoadPromotions(w) \/ LoadTargets(w) \/ Answer(w)

PromoSpec == PromoInit /\ [][PromoNext]_promoVars

-----------------------------------------------------------------------------
\* Properties.

\* The targets of a promotion are the list of one request, or of requests that
\* overlapped of which all but one changed no column: an UPDATE of the promotion's
\* row, sent before the old targets are read, keeps a second edit waiting.
TargetsOfOneRequest ==
    \A r, s \in targetRows : r.id = s.id /\ r.held /\ s.held => r.by = s.by

Answered == {w \in Workers : AtStep(w, "answered") /\ session[w].answer # NoAnswer}

\* Reference: the promotion that wins a line is the one worth most; among equals, the
\* one of lowest priority, then of lowest id.
WinnerOf(req, loaded, coupon) ==
    LET fit == {k \in loaded : (k.rule.code = NoCode \/ k = coupon) /\ MatchesProduct(k, req.product)}
        worth == Max({0} \cup {PromoValue(k, req) : k \in fit})
        best == {k \in fit : PromoValue(k, req) = worth}
        first == {k \in best : k.rule.priority = Min({j.rule.priority : j \in best})}
    IN  IF worth = 0 THEN NoPromo
        ELSE CHOOSE k \in first : k.id = Min({j.id : j \in first})

\* Reference: the promotions that hold at a moment, and those of them that have the
\* code that was typed, in any case.
ValidOf(S, at) == {k \in S : IsValidAt(k.rule, at)}

NamedBy(S, code, at) ==
    {k \in ValidOf(S, at) : k.rule.code # NoCode /\ code # NoCode /\ Upper[k.rule.code] = Upper[code]}

\* Reference: the lines that an item becomes.
LinesOf(S, at, coupon, req) ==
    LET best == WinnerOf(req, ValidOf(S, at), coupon)
    IN  LayCoupon(coupon, best, BuildLines(best, req))

\* The price of a cart does not hang on the order in which the database returned the
\* promotions, provided no two of the valid ones have codes that differ in case alone:
\* each item is charged as its best promotion says.
BestPromotionWins ==
    \A w \in Answered :
        LET cart == session[w].cart
            found == session[w].seen
            named == NamedBy(found, cart.code, cart.at)
            coupon == IF named = {} THEN NoPromo ELSE CHOOSE k \in named : TRUE
        IN  Cardinality(named) <= 1 =>
              session[w].answer.lines =
                FlattenSeq([i \in DOMAIN cart.items |-> LinesOf(found, cart.at, coupon, cart.items[i])])

\* What applied_promotions adds up to.
Reported(a) == Sigma([x \in a.applied |-> x.amount], a.applied)

\* Splitting a line into paid, free and bundled ones loses no unit and no satang: what
\* the items would cost is what is charged before tax, plus the discounts that
\* applied_promotions reports, plus manual discounts.  What a promotion takes off a
\* line is what it was ranked by, unless a coupon lies on top.
NothingLostInTheSplit ==
    \A w \in Answered :
        LET items == session[w].cart.items
            a == session[w].answer
            Units(s, p) == SumOver(s, {i \in DOMAIN s : s[i].product = p}, LAMBDA l : l.qty)
        IN  /\ \A p \in Products : Units(items, p) = Units(a.lines, p)
            /\ SumOver(items, DOMAIN items, Gross) =
                 a.totals.subtotal + Reported(a) + SumOver(a.lines, DOMAIN a.lines, LAMBDA l : l.manual)
            /\ \A i \in DOMAIN a.lines : a.lines[i].gift => LineTotal(a.lines[i]) = 0
            /\ session[w].cart.code = NoCode =>
                 Reported(a) =
                   SumOver(items, DOMAIN items, LAMBDA req :
                     PromoValue(WinnerOf(req, ValidOf(session[w].seen, session[w].cart.at), NoPromo), req))
=============================================================================

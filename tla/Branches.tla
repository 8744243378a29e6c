------------------------------ MODULE Branches ------------------------------
(***************************************************************************)
(* Branches of the lender and their champions: signing up, the prospects   *)
(* they call and visit, the leads that the public forms send them, and the *)
(* leaderboard that counts what they did.  A handler reads a row, awaits,  *)
(* and writes the columns it changed; nothing locks or numbers versions.   *)
(* Beside module Accounts, whose users, tokens, limiters and workers these *)
(* handlers share.                                                         *)
(***************************************************************************)
EXTENDS Accounts

CONSTANTS
    Week,       \* _LEADERBOARD_WINDOW
    NoRow

VARIABLES
    branches,   \* per code, its province
    prospects,  \* in the order of insertion, NoRow for a deleted one
    leads,
    happened    \* what champions were told is done: an event, of whom, when; no table

branchVars == <<branches, prospects, leads, happened>>
vars == <<staffVars, limitVars, bodyVars, tx, requests, branchVars>>

\* A time of 0 is NULL.  The last two are no columns: the commits that wrote the row,
\* and whether one of them had read an older one.
Prospect(branch) ==
    [branch |-> branch, status |-> "not_visited", contact |-> "not_scheduled",
     interest |-> "not_applied", called |-> 0, met |-> 0, visited |-> 0,
     version |-> 0, raced |-> FALSE]

Lead(branch, source, prospect) ==
    [branch |-> branch, source |-> source, prospect |-> prospect, status |-> "new",
     responded |-> 0, version |-> 0, raced |-> FALSE]

\* Rows in a sequence, none of which a champion has touched.
Untouched(ps, ls) ==
    /\ ps \in Seq({ps[p] : p \in DOMAIN ps}) /\ ls \in Seq({ls[i] : i \in DOMAIN ls})
    /\ \A p \in DOMAIN ps : ps[p] = Prospect(ps[p].branch)
    /\ \A i \in DOMAIN ls : ls[i] = Lead(ls[i].branch, ls[i].source, ls[i].prospect)

ASSUME RowsAssumption ==
    Week \in Nat /\ \A scene \in Scenes : Untouched(scene.prospects, scene.leads)

Init ==
    \E scene \in Scenes :
        /\ InitAccounts(scene)
        /\ branches = scene.branches
        /\ prospects = scene.prospects /\ leads = scene.leads
        /\ happened = {}

-----------------------------------------------------------------------------
\* Variants of definitions below, each with a bug that a property must refute.

\* A contact status keeps only its own time.
ContactColumnsCleared(row, contact) ==
    [contact |-> contact, called |-> IF contact = "called" THEN now ELSE 0,
     met |-> IF contact = "met" THEN now ELSE 0]

-----------------------------------------------------------------------------
\* signup: the branch of the code, or a new one.  Its INSERT is flushed where nothing
\* catches what fails; a taken e-mail is caught at the commit and takes both back.
JoinBranch(w) ==
    \E b \in bodies :
        /\ Arrives(w, b, "join")
        /\ Becomes(w, Begun(IF b.code \in DOMAIN branches THEN "join" ELSE "open", b))
        /\ UNCHANGED <<staffVars, limitVars, bodyVars, branchVars>>

OpenBranch(w) ==
    LET code == tx[w].body.code IN
    /\ At(w, "open")
    /\ \A v \in Workers : ~(At(v, "join") /\ code \in tx[v].seen)
    /\ IF code \in DOMAIN branches THEN Finish(w)
       ELSE Becomes(w, [tx[w] EXCEPT !.step = "join", !.seen = {code}])
    /\ UNCHANGED <<staffVars, limitVars, bodyVars, requests, branchVars>>

CommitChampion(w) ==
    LET b == tx[w].body IN
    /\ At(w, "join")
    /\ IF EmailTaken(b.email) THEN UNCHANGED <<branches, users, tokens>>
       ELSE /\ branches' = [c \in DOMAIN branches \cup tx[w].seen |->
                            IF c \in DOMAIN branches THEN branches[c] ELSE b.province]
            /\ users' = Append(users, User(NoShop, b.code, "branch_champion", NoPin, b.email, b.secret))
            /\ tokens' = tokens \cup {[sub |-> Len(users) + 1, role |-> "branch_champion"]}
    /\ Finish(w)
    /\ UNCHANGED <<changes, raced, limitVars, bodyVars, requests, prospects, leads, happened>>

-----------------------------------------------------------------------------
\* What a champion does, for the branch of its token.
BranchOf(b) == users[b.by].branch

CreateProspect(w) ==
    \E b \in bodies :
        /\ Arrives(w, b, "prospect")
        /\ prospects' = Append(prospects, Prospect(BranchOf(b)))
        /\ UNCHANGED <<staffVars, limitVars, bodyVars, tx, branches, leads, happened>>

\* called_at and met_at are set and never cleared.
ContactColumns(row, contact) ==
    CASE contact = "called" -> [contact |-> contact, called |-> now]
      [] contact = "met" -> [contact |-> contact, met |-> now]
      [] OTHER -> [contact |-> contact]

\* visit_prospect, update_prospect_contact_status, update_prospect_application_interest
\* and delete_prospect up to their first await after the row was found.
ProspectColumns(row, b) ==
    CASE b.do = "visit" -> [status |-> b.status, visited |-> now]
      [] b.do = "contact" -> ContactColumns(row, b.status)
      [] b.do = "interest" -> [interest |-> b.status]
      [] b.do = "delete" -> <<>>

ReadProspect(w) ==
    \E b \in bodies :
        /\ \E do \in {"visit", "contact", "interest", "delete"} : Arrives(w, b, do)
        /\ b.id \in DOMAIN prospects
        /\ LET row == prospects[b.id] IN
           IF row = NoRow \/ row.branch # BranchOf(b) THEN Finish(w)
           ELSE Becomes(w, [Begun("prospect", b) EXCEPT !.seen = {row},
                                                       !.set = ProspectColumns(row, b)])
        /\ UNCHANGED <<staffVars, limitVars, bodyVars, branchVars>>

\* A row with the columns that a handler of w changed.
Written(w, row) ==
    LET t == tx[w]
        read == CHOOSE r \in t.seen : TRUE
        changed == {c \in DOMAIN t.set : t.set[c] # read[c]}
    IN  [[c \in DOMAIN row |-> IF c \in changed THEN t.set[c] ELSE row[c]]
            EXCEPT !.version = @ + 1, !.raced = @ \/ row.version # read.version]

\* The events among the columns that a handler has set.
Did(b, columns, events) ==
    happened' = happened \cup
        {[event |-> e, id |-> b.id, at |-> columns[e]] : e \in DOMAIN columns \cap events}

\* An UPDATE of a row that is gone fails.
WriteProspect(w) ==
    LET b == tx[w].body
        event == IF b.do = "visit" THEN "visited" ELSE b.status
    IN  /\ At(w, "prospect") /\ b.do # "delete"
        /\ IF prospects[b.id] = NoRow THEN UNCHANGED <<prospects, happened>>
           ELSE /\ prospects' = [prospects EXCEPT ![b.id] = Written(w, @)]
                /\ Did(b, tx[w].set, {event})
        /\ Finish(w)
        /\ UNCHANGED <<staffVars, limitVars, bodyVars, requests, branches, leads>>

\* 409 while a lead points at the prospect.
DeleteProspect(w) ==
    LET p == tx[w].body.id IN
    /\ At(w, "prospect") /\ tx[w].body.do = "delete"
    /\ prospects' = IF \E i \in DOMAIN leads : leads[i].prospect = p THEN prospects
                    ELSE [prospects EXCEPT ![p] = NoRow]
    /\ Finish(w)
    /\ UNCHANGED <<staffVars, limitVars, bodyVars, requests, branches, leads, happened>>

\* respond_lead: the SLA clock stops at the first response, whatever it says.
LeadColumns(row, status) ==
    IF row.responded = 0 THEN [status |-> status, responded |-> now] ELSE [status |-> status]

ReadLead(w) ==
    \E b \in bodies :
        /\ Arrives(w, b, "respond")
        /\ b.id \in DOMAIN leads
        /\ LET row == leads[b.id] IN
           IF row.branch # BranchOf(b) THEN Finish(w)
           ELSE Becomes(w, [Begun("lead", b) EXCEPT !.seen = {row}, !.set = LeadColumns(row, b.status)])
        /\ UNCHANGED <<staffVars, limitVars, bodyVars, branchVars>>

WriteLead(w) ==
    LET b == tx[w].body IN
    /\ At(w, "lead")
    /\ leads' = [leads EXCEPT ![b.id] = Written(w, @)]
    /\ Did(b, tx[w].set, {"responded"})
    /\ Finish(w)
    /\ UNCHANGED <<staffVars, limitVars, bodyVars, requests, branches, prospects>>

-----------------------------------------------------------------------------
\* pick_branch_for_province, and none when there is no branch.
Picked(province) ==
    LET near == {c \in DOMAIN branches : branches[c] = province}
    IN  IF near # {} THEN near ELSE DOMAIN branches

\* The public forms: the limiter is asked and told in one step, before the quote (module
\* LoanQuotes), which sends a branch a lead if its body was in order.
PublicForm(w) ==
    \E b \in bodies, l \in Limiters \ LoginLimiters :
        /\ Arrives(w, b, l)
        /\ IF Blocked(l, failures[l], b.address, now)
           THEN Check(l, b.address) /\ UNCHANGED <<spent, forgotten, leads>>
           ELSE /\ Count(l, b.address)
                /\ IF l = "term_bounds" \/ ~b.valid \/ branches = <<>> THEN UNCHANGED leads
                   ELSE \E c \in Picked(b.province) : leads' = Append(leads, Lead(c, "o2o_web", 0))
        /\ UNCHANGED <<staffVars, bodyVars, tx, branches, prospects, happened>>

Next ==
    \/ NextAccounts /\ UNCHANGED branchVars
    \/ \E w \in Workers :
         \/ JoinBranch(w) \/ OpenBranch(w) \/ CommitChampion(w)
         \/ CreateProspect(w) \/ ReadProspect(w) \/ WriteProspect(w) \/ DeleteProspect(w)
         \/ ReadLead(w) \/ WriteLead(w) \/ PublicForm(w)

Spec == Init /\ [][Next]_vars

-----------------------------------------------------------------------------
\* leaderboard: per branch, what its rows say was done within the week.
Since(at) == at # 0 /\ at >= now - Week

RowsOf(table, c) == {i \in DOMAIN table : table[i] # NoRow /\ table[i].branch = c}

VisitedRows(c) ==
    {p \in RowsOf(prospects, c) : Since(prospects[p].visited) \/ Since(prospects[p].met)}

CalledRows(c) == {p \in RowsOf(prospects, c) : Since(prospects[p].called)}

AnsweredRows(c) == {i \in RowsOf(leads, c) : Since(leads[i].responded)}

Leaderboard ==
    [c \in DOMAIN branches |->
        LET visited == Cardinality(VisitedRows(c))
            contacted == Cardinality(CalledRows(c))
            answered == Cardinality(AnsweredRows(c))
        IN  [visited |-> visited, contacted |-> contacted, leads |-> answered,
             score |-> visited + contacted + 2 * answered]]

-----------------------------------------------------------------------------
\* Properties.

\* The prospects of a branch of which one of some events happened within the week.
DoneWithin(c, events) ==
    {p \in RowsOf(prospects, c) :
        \E h \in happened : h.id = p /\ h.event \in events /\ h.at >= now - Week}

\* The leads of a branch whose first answer was given within the week.
AnswersTo(i) == {h.at : h \in {x \in happened : x.id = i /\ x.event = "responded"}}

AnsweredWithin(c) ==
    {i \in RowsOf(leads, c) : AnswersTo(i) # {} /\ Min(AnswersTo(i)) >= now - Week}

\* The leaderboard scores what champions did: a prospect visited or met and a prospect
\* called within the week, a lead whose first answer was; a later status takes nothing
\* back and adds nothing.  Unless a row was written on a read that was stale.
LeaderboardTrue ==
    LET Raced(table, c) == \E i \in RowsOf(table, c) : table[i].raced
    IN  \A c \in DOMAIN branches :
          Raced(prospects, c) \/ Raced(leads, c) \/
          Leaderboard[c].score = Cardinality(DoneWithin(c, {"visited", "met"}))
                                 + Cardinality(DoneWithin(c, {"called"}))
                                 + 2 * Cardinality(AnsweredWithin(c))
=============================================================================

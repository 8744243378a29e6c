----------------------------- MODULE MCBranches -----------------------------
(***************************************************************************)
(* One shop with two owners, two branches with a champion each, and the    *)
(* public.  Two failures are the maximum, within two instants.             *)
(***************************************************************************)
EXTENDS Branches

MCLimits ==
    [l \in {"login", "pin", "quote", "loan_quote", "term_bounds"} |-> [max |-> 2, window |-> 2]]

MCLower == [e1 |-> "e1", E1 |-> "e1", e2 |-> "e2"]

NoBranches == [c \in {} |-> ""]
Scene(us, bs, start, codes, ps, ls, n) ==
    [users |-> us, bodies |-> bs, now |-> start, restarts |-> MaxRestarts, branches |-> codes,
     prospects |-> ps, leads |-> ls, requests |-> n]

Staff(role, pin, email) == User(1, NoBranch, role, pin, email, "secret")
Champion(code) == User(NoShop, code, "branch_champion", NoPin, NoEmail, "")

Update(by, user, role, active, pin) ==
    [do |-> "update", by |-> by, user |-> user, role |-> role, active |-> active, pin |-> pin]
Create(by, role, pin) == [do |-> "create", by |-> by, role |-> role, pin |-> pin]

\* Owners who take each other's place, and PINs that would meet.
Changes ==
    Scene(<<Staff("owner", "1111", NoEmail), Staff("owner", NoPin, NoEmail), Staff("cashier", "2222", NoEmail)>>,
          {Update(1, 2, "cashier", "", NoPin), Update(2, 1, "", "no", NoPin), Update(1, 1, "", "no", NoPin),
           Update(2, 3, "owner", "", "1111"), Update(1, 3, "owner", "", "3333"), Update(2, 1, "", "yes", "2222"),
           Update(1, 3, "branch_champion", "", NoPin),
           Create(1, "manager", "3333"), Create(1, "branch_champion", NoPin)},
          LastInstant, NoBranches, <<>>, <<>>, 4)

\* Right and wrong secrets, of accounts that are there, that are not, that are inactive.
Pin(secret) == [do |-> "pin", shop |-> 1, secret |-> secret]
Login(email, secret) == [do |-> "login", email |-> email, secret |-> secret]
Logins ==
    [Scene(<<Staff("owner", "1111", "e1"), [Staff("owner", NoPin, "e2") EXCEPT !.active = FALSE]>>,
           {Pin("1111"), Pin("9999"), Login("e1", "secret"), Login("E1", "secret"), Login("e2", "secret"),
            [do |-> "refresh", by |-> 1], [do |-> "signup", email |-> "e1", secret |-> "s"]},
           LastInstant - 2, NoBranches, <<>>, <<>>, 5) EXCEPT !.restarts = 0]

\* Two champions of a branch and one of another, over a prospect, one that a lead points
\* at, and a lead.
Act(do, by, id, status) == [do |-> do, by |-> by, id |-> id, status |-> status]
Rounds ==
    Scene(<<Champion("A"), Champion("B")>>,
          {Act("visit", 1, 1, "visited"), Act("visit", 2, 1, "visited"),
           Act("contact", 1, 1, "called"), Act("contact", 1, 1, "met"), Act("contact", 1, 1, "unreachable"),
           Act("interest", 1, 2, "applied_loan"), Act("delete", 1, 1, ""), Act("delete", 1, 2, ""),
           Act("respond", 1, 1, "contacted"), Act("prospect", 1, 0, "")},
          LastInstant - 2, [A |-> "north", B |-> "south"], <<Prospect("A"), Prospect("A")>>,
          <<Lead("A", "visit", 2)>>, 4)

\* The first champions sign up while the public asks for quotes.
Join(code, email) == [do |-> "join", code |-> code, province |-> "north", email |-> email, secret |-> "s"]
Form(l, address, valid) == [do |-> l, address |-> address, valid |-> valid, province |-> "north"]
Opening ==
    Scene(<<Staff("owner", NoPin, "e1")>>,
          {Join("A", "e2"), Join("B", "e1"), Form("quote", "a1", TRUE), Form("quote", "a2", TRUE),
           Form("quote", "a3", FALSE), Form("term_bounds", "a1", TRUE),
           [do |-> "signup", email |-> "e2", secret |-> "s"]},
          LastInstant - 2, NoBranches, <<>>, <<>>, 5)

MCScenes == {Changes, Logins, Rounds, Opening}
=============================================================================

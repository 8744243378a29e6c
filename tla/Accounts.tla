------------------------------ MODULE Accounts ------------------------------
(***************************************************************************)
(* Who may act for a shop: its staff, how owners change it, and logging in *)
(* by e-mail or PIN under a limit of failures.  A handler reads, awaits a  *)
(* hash or its verification, and then writes, or counts a failure, on what *)
(* it has read.  Reads of one handler that nothing can come between with a *)
(* difference are one step; so are its last statement, audit row and       *)
(* COMMIT.  Access tokens outlive a behaviour (12 hours in the code).      *)
(***************************************************************************)
EXTENDS FailureLimiter

CONSTANTS
    Workers,
    NoPin, NoEmail, NoShop, NoBranch,
    Lower,        \* per e-mail address, its lower case
    Scenes,       \* what a behaviour may start with: the time, users, the bodies that
                  \* requests may have and, a bound, how many of them arrive
    LastInstant, MaxRestarts  \* bounds

ASSUME PeopleAssumption ==
    /\ IsFiniteSet(Workers)
    /\ {"login", "pin"} \subseteq Limiters
    /\ NoShop \notin Nat

Roles == {"owner", "manager", "cashier"}  \* those that _ROLE_LABELS names
LoginLimiters == {"login", "pin"}

VARIABLES
    now,
    users,      \* the rows, in the order of their insertion; none is ever deleted
    tokens,     \* access tokens: whose, and the role when it was issued
    failures,   \* per limiter, its memory
    spent,      \* per limiter and key, the instants of all attempts that counted since
                \* the key was cleared; no column
    forgotten,  \* per limiter, the keys evicted while they counted; no column
    changes,    \* commits by which a shop lost an owner, and that set a PIN; no column
    raced,      \* which of the two was done on a read older than the last one; no column
    tx,         \* per worker, the request it serves
    bodies, requests,
    restarts

limitVars == <<failures, spent, forgotten>>
staffVars == <<users, tokens, changes, raced>>
bodyVars == <<bodies, now, restarts>>

Idle ==
    [step |-> "idle", body |-> [do |-> ""],
     read |-> [owners |-> 0, pins |-> 0],  \* changes when its first statement read
     seen |-> {},                          \* the rows read: staff, candidates, or one row
     set |-> <<>>]                         \* the columns to write

User(shop, branch, role, pin, email, password) ==
    [shop |-> shop, branch |-> branch, role |-> role, active |-> TRUE, pin |-> pin,
     email |-> email, password |-> password]

NothingCounted == [l \in Limiters |-> <<>>]

InitAccounts(scene) ==
    /\ now = scene.now /\ restarts = scene.restarts
    /\ users = scene.users /\ bodies = scene.bodies /\ requests = scene.requests
    /\ tokens = {[sub |-> u, role |-> users[u].role] : u \in DOMAIN users}
    /\ failures = NothingCounted /\ spent = NothingCounted
    /\ forgotten = [l \in Limiters |-> {}]
    /\ changes = [owners |-> 0, pins |-> 0] /\ raced = {}
    /\ tx = [w \in Workers |-> Idle]

At(w, step) == tx[w].step = step
Becomes(w, r) == tx' = [tx EXCEPT ![w] = r]
Finish(w) == Becomes(w, Idle)

Arrives(w, b, do) ==
    /\ At(w, "idle") /\ requests > 0 /\ b.do = do
    /\ requests' = requests - 1

Begun(step, b) == [Idle EXCEPT !.step = step, !.body = b, !.read = changes]

ActiveOwners(us) == {u \in DOMAIN us : us[u].role = "owner" /\ us[u].active}
EmailTaken(email) == \E u \in DOMAIN users : users[u].email = email

\* Of rows us: every shop has an active owner, its PINs differ, and an account is a
\* shop's or a branch's as its role says.
Owned(us) ==
    \A u \in DOMAIN us : us[u].shop # NoShop => \E v \in ActiveOwners(us) : us[v].shop = us[u].shop
PinsApart(us) ==
    \A u, v \in DOMAIN us :
      u # v /\ us[u].shop = us[v].shop /\ us[u].pin = us[v].pin => us[u].pin = NoPin
RolesFit(us) ==
    \A u \in DOMAIN us :
      IF us[u].role \in Roles THEN us[u].shop # NoShop /\ us[u].branch = NoBranch
      ELSE us[u].shop = NoShop /\ us[u].branch # NoBranch

\* A behaviour starts on a sound table of users.
ASSUME ScenesAssumption ==
    \A scene \in Scenes :
        /\ scene.now \in Nat \ {0}
        /\ LET us == scene.users IN
           /\ us \in Seq({us[u] : u \in DOMAIN us})
           /\ \A u \in DOMAIN us : /\ us[u].active \in BOOLEAN
                                   /\ DOMAIN us[u] = DOMAIN User(NoShop, NoBranch, "", NoPin, NoEmail, "")
           /\ Owned(us) /\ PinsApart(us) /\ RolesFit(us)
        /\ \A b \in scene.bodies : /\ b.do = "join" => b.code # NoBranch
                                   /\ b.do = "update" => b.active \in {"", "yes", "no"}

-----------------------------------------------------------------------------
\* Variants of definitions below, each with a bug that a property must refute.

\* Only a new role is seen to take an owner away.
LosesOwnerByRole(user, b) ==
    user.role = "owner" /\ user.active /\ b.role \notin {"", "owner"}

-----------------------------------------------------------------------------
\* The permission is the token's: the row of the caller is not read again.
MayManageStaff(u) == \E t \in tokens : t.sub = u /\ t.role = "owner"

\* _reject_duplicate_pin looks at inactive staff too.
PinTaken(pin, shop, exclude) ==
    \E u \in DOMAIN users \ {exclude} : users[u].shop = shop /\ users[u].pin = pin

\* The rows become us, by a handler that has read what it checked some time ago.
CommitStaff(w, us) ==
    LET touched == {c \in DOMAIN changes :
                      IF c = "owners" THEN ~(ActiveOwners(users) \subseteq ActiveOwners(us))
                      ELSE \E u \in DOMAIN us : us[u].pin # (IF u \in DOMAIN users THEN users[u].pin ELSE NoPin)}
    IN  /\ users' = us
        /\ changes' = [c \in DOMAIN changes |-> changes[c] + (IF c \in touched THEN 1 ELSE 0)]
        /\ raced' = raced \cup {c \in touched : changes[c] # tx[w].read[c]}

CreateStaff(w) ==
    \E b \in bodies :
        /\ Arrives(w, b, "create") /\ MayManageStaff(b.by)
        /\ IF b.pin # NoPin /\ PinTaken(b.pin, users[b.by].shop, 0) THEN Finish(w)
           ELSE Becomes(w, Begun("insert", b))
        /\ UNCHANGED <<staffVars, limitVars, bodyVars>>

\* A role without a label is an error after the row was added, before the commit.
InsertStaff(w) ==
    LET b == tx[w].body IN
    /\ At(w, "insert")
    /\ IF b.role \in Roles
       THEN CommitStaff(w, Append(users, User(users[b.by].shop, NoBranch, b.role, b.pin, NoEmail, "")))
       ELSE UNCHANGED <<users, changes, raced>>
    /\ Finish(w)
    /\ UNCHANGED <<tokens, limitVars, bodyVars, requests>>

\* A body says "" for what it does not set.
UpdateStaff(w) ==
    \E b \in bodies :
        /\ Arrives(w, b, "update") /\ MayManageStaff(b.by)
        /\ IF \/ b.user \notin DOMAIN users \/ users[b.user].shop # users[b.by].shop
              \/ b.user = b.by /\ b.active = "no"
           THEN Finish(w)
           ELSE Becomes(w, [Begun("check", b) EXCEPT !.seen = {users[b.user]}])
        /\ UNCHANGED <<staffVars, limitVars, bodyVars>>

\* will_lose_owner
LosesOwner(user, b) ==
    user.role = "owner" /\ user.active /\ (b.role \notin {"", "owner"} \/ b.active = "no")

CheckStaff(w) ==
    LET b == tx[w].body
        user == CHOOSE u \in tx[w].seen : TRUE
        others == {u \in ActiveOwners(users) \ {b.user} : users[u].shop = user.shop}
    IN  /\ At(w, "check")
        /\ IF LosesOwner(user, b) /\ others = {} THEN Finish(w)
           ELSE Becomes(w, [tx[w] EXCEPT !.step = "scan"])
        /\ UNCHANGED <<staffVars, limitVars, bodyVars, requests>>

\* _reject_duplicate_pin, some time after the owners were counted.
ScanPins(w) ==
    LET b == tx[w].body
        user == CHOOSE u \in tx[w].seen : TRUE
    IN  /\ At(w, "scan")
        /\ IF b.pin # NoPin /\ PinTaken(b.pin, user.shop, b.user) THEN Finish(w)
           ELSE Becomes(w, [tx[w] EXCEPT !.step = "write", !.read.pins = changes.pins])
        /\ UNCHANGED <<staffVars, limitVars, bodyVars, requests>>

\* Only a column whose value differs from the one read is written.
WriteStaff(w) ==
    LET b == tx[w].body
        read == CHOOSE u \in tx[w].seen : TRUE
        active == b.active = "yes"
        row == [users[b.user] EXCEPT
                  !.role = IF b.role # "" /\ b.role # read.role THEN b.role ELSE @,
                  !.active = IF b.active # "" /\ active # read.active THEN active ELSE @,
                  !.pin = IF b.pin # NoPin THEN b.pin ELSE @]
    IN  /\ At(w, "write")
        /\ IF b.role \in Roles \cup {""} THEN CommitStaff(w, [users EXCEPT ![b.user] = row])
           ELSE UNCHANGED <<users, changes, raced>>
        /\ Finish(w)
        /\ UNCHANGED <<tokens, limitVars, bodyVars, requests>>

\* signup: a shop and its owner; the unique index on e-mail answers 409.
Signup(w) ==
    \E b \in bodies :
        LET shop == 1 + Cardinality({users[u].shop : u \in DOMAIN users} \ {NoShop})
            owner == User(shop, NoBranch, "owner", NoPin, b.email, b.secret)
        IN  /\ Arrives(w, b, "signup")
            /\ IF EmailTaken(b.email) THEN UNCHANGED <<users, tokens>>
               ELSE /\ users' = Append(users, owner)
                    /\ tokens' = tokens \cup {[sub |-> Len(users) + 1, role |-> "owner"]}
            /\ UNCHANGED <<changes, raced, tx, limitVars, bodyVars>>

-----------------------------------------------------------------------------
\* The limiters.

Check(l, key) == failures' = [failures EXCEPT ![l] = Checked(l, @, key, now)]

\* A failure counts; a key that is evicted while it counts is forgotten.
Count(l, key) ==
    \E memory \in RecordFailure(l, failures[l], key, now) :
        /\ failures' = [failures EXCEPT ![l] = memory]
        /\ spent' = [spent EXCEPT ![l] =
                       Put(@, key, Append(IF key \in DOMAIN @ THEN @[key] ELSE <<>>, now))]
        /\ forgotten' = [forgotten EXCEPT ![l] =
                           @ \cup {k \in DOMAIN failures[l] \ DOMAIN memory :
                                     DropExpired(l, failures[l][k], now) # <<>>}]

LimitKey(b) == IF b.do = "pin" THEN b.shop ELSE Lower[b.email]

\* login and pin_login up to the query for who it may be.
BeginLogin(w) ==
    \E b \in bodies, l \in LoginLimiters :
        LET rows == {[id |-> u, row |-> users[u]] : u \in DOMAIN users}
            candidates == {c \in rows : IF l = "pin"
                                        THEN c.row.shop = b.shop /\ c.row.active /\ c.row.pin # NoPin
                                        ELSE c.row.email = b.email}
        IN  /\ Arrives(w, b, l)
            /\ Check(l, LimitKey(b))
            /\ IF Blocked(l, failures[l], LimitKey(b), now) THEN Finish(w)
               ELSE Becomes(w, [Begun("verify", b) EXCEPT !.seen = candidates])
            /\ UNCHANGED <<staffVars, spent, forgotten, bodyVars>>

\* The rest, once the secret was compared with each candidate's.
AnswerLogin(w) ==
    LET b == tx[w].body
        l == b.do
        key == LimitKey(b)
        matches == {c \in tx[w].seen : (IF l = "pin" THEN c.row.pin ELSE c.row.password) = b.secret}
    IN  /\ At(w, "verify")
        /\ Finish(w)
        /\ \/ matches = {} /\ Count(l, key) /\ UNCHANGED tokens
           \/ \E c \in matches :
                IF ~c.row.active THEN UNCHANGED <<tokens, limitVars>>
                ELSE /\ tokens' = tokens \cup {[sub |-> c.id, role |-> c.row.role]}
                     /\ failures' = [failures EXCEPT ![l] = Clear(@, key)]
                     /\ spent' = [spent EXCEPT ![l] = Clear(@, key)]
                     /\ UNCHANGED forgotten
        /\ UNCHANGED <<users, changes, raced, bodyVars, requests>>

\* refresh reads the row again: an account that is inactive gets no token, another one
\* the role it has now.
Refresh(w) ==
    \E b \in bodies :
        /\ Arrives(w, b, "refresh") /\ b.by \in DOMAIN users /\ users[b.by].active
        /\ tokens' = tokens \cup {[sub |-> b.by, role |-> users[b.by].role]}
        /\ UNCHANGED <<users, changes, raced, tx, limitVars, bodyVars>>

Tick ==
    /\ now < LastInstant
    /\ now' = now + 1
    /\ UNCHANGED <<staffVars, limitVars, bodies, restarts, tx, requests>>

\* The process starts anew, without its requests and its memory.
Restart ==
    /\ restarts < MaxRestarts
    /\ restarts' = restarts + 1
    /\ tx' = [w \in Workers |-> Idle]
    /\ failures' = NothingCounted /\ spent' = NothingCounted
    /\ forgotten' = [l \in Limiters |-> {}]
    /\ UNCHANGED <<staffVars, bodies, now, requests>>

NextAccounts ==
    \/ Tick \/ Restart
    \/ \E w \in Workers :
         \/ CreateStaff(w) \/ InsertStaff(w)
         \/ UpdateStaff(w) \/ CheckStaff(w) \/ ScanPins(w) \/ WriteStaff(w)
         \/ Signup(w) \/ BeginLogin(w) \/ AnswerLogin(w) \/ Refresh(w)

-----------------------------------------------------------------------------
\* Properties.

\* A shop always has an owner who is active, unless two requests that took owners away
\* overlapped; no two of its staff have one PIN, with which a cashier could open the
\* owner's session, unless two that set PINs did; and an account is a shop's or a
\* branch's as its role says, whatever role a body asks for.
StaffSound ==
    /\ "owners" \notin raced => Owned(users)
    /\ "pins" \notin raced => PinsApart(users)
    /\ RolesFit(users)

\* Since its last success, and within its window, a key has wrong guesses up to the
\* maximum and, for each handler but one that was verifying meanwhile, one more; a
\* public form is exact.  Unless the table of keys was full and dropped the key.
LimitsHold ==
    \A l \in Limiters : \A key \in DOMAIN spent[l] \ forgotten[l] :
        Len(DropExpired(l, spent[l][key], now)) <=
          Limits[l].max + (IF l \in LoginLimiters THEN Cardinality(Workers) - 1 ELSE 0)
=============================================================================

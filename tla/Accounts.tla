------------------------------ MODULE Accounts ------------------------------
(***************************************************************************)
(* Users, their tags and their tokens: http/auth_handler.go,               *)
(* middleware/jwt.go and the handlers of http/admin_handler.go that change *)
(* users.                                                                  *)
(*                                                                         *)
(* A token is signed and kept by its owner; nothing is stored for it.  It  *)
(* carries the user and the claim is_admin as they were when it was        *)
(* issued, and counts until it expires, whatever becomes of the row.  A    *)
(* handler that issues tokens reads the row first: in between lie a bcrypt *)
(* comparison and any number of other requests.  The handlers of the admin *)
(* panel are one statement each.                                           *)
(***************************************************************************)
EXTENDS Integers, FiniteSets

CONSTANTS
    Users,          \* user ids, never used twice
    Tags,
    Requests,       \* requests at a time that register or issue tokens
    Demo,           \* the user of the demo account
    AccessLife,     \* 15 minutes
    DemoLife,       \* 30 minutes
    RefreshLife     \* 7 days

ASSUME AccountsAssumption ==
    /\ Demo \in Users
    /\ {AccessLife, DemoLife, RefreshLife} \subseteq Nat \ {0}
    /\ AccessLife <= DemoLife /\ DemoLife <= RefreshLife

VARIABLES
    account,    \* the row of a user: none before, deleted after
    tag,        \* users.tag
    token,      \* the tokens that have not expired, with the time they have left
    req,        \* what each request is doing
    adminSince, \* time since the row or a reader of it last said admin, at most
                \* RefreshLife (a history variable)
    userSince   \* the same for the row being there (a history variable)

accountsVars == <<account, tag, token, req, adminSince, userSince>>

Token == [user : Users, admin : BOOLEAN, left : 1..RefreshLife]
NoTag == "no tag"
Idle == [op |-> "idle"]
Registering == [op : {"register"}, user : Users, tag : Tags]
Issuing == [op : {"issue", "demo"}, user : Users, admin : BOOLEAN]

AccountsTypeOK ==
    /\ account \in [Users -> {"none", "user", "admin", "deleted"}]
    /\ tag \in [Users -> Tags \cup {NoTag}]
    /\ token \subseteq Token
    /\ req \in [Requests -> {Idle} \cup Registering \cup Issuing]
    /\ adminSince \in [Users -> 0..RefreshLife]
    /\ userSince \in [Users -> 0..RefreshLife]

\* Some users are there, made admins by an operator (no handler makes the first).
AccountsInit ==
    /\ account \in [Users -> {"none", "admin"}]
    /\ tag \in [Users -> Tags \cup {NoTag}]
    /\ \A u \in Users : (tag[u] = NoTag) = (account[u] = "none")
    /\ \A u, v \in Users : u # v /\ tag[u] # NoTag => tag[u] # tag[v]
    /\ token = {}
    /\ req = [q \in Requests |-> Idle]
    /\ adminSince = [u \in Users |-> IF account[u] = "admin" THEN 0 ELSE RefreshLife]
    /\ userSince = [u \in Users |-> 0]

-----------------------------------------------------------------------------
(* Registration. *)

Exists(u) == account[u] \in {"user", "admin"}
Taken(t) == \E u \in Users : Exists(u) /\ tag[u] = t

\* register: a fresh id, and a tag that SELECT EXISTS has not found.
FindTag(q, u, t) ==
    /\ req[q] = Idle
    /\ account[u] = "none" /\ \A p \in Requests : req[p] # Idle => req[p].user # u
    /\ ~Taken(t)
    /\ req' = [req EXCEPT ![q] = [op |-> "register", user |-> u, tag |-> t]]
    /\ UNCHANGED <<account, tag, token, adminSince, userSince>>

\* INSERT INTO users: refused when another request has taken the tag since.
InsertUser(q) ==
    /\ req[q].op = "register"
    /\ ~Taken(req[q].tag)
    /\ account' = [account EXCEPT ![req[q].user] = "user"]
    /\ tag' = [tag EXCEPT ![req[q].user] = req[q].tag]
    /\ req' = [req EXCEPT ![q] = [op |-> "issue", user |-> req[q].user, admin |-> FALSE]]
    /\ UNCHANGED <<token, adminSince, userSince>>

\* A request is refused (a username, email or tag that is taken, a wrong
\* password), fails or is given up.
Aborted(q) ==
    /\ req[q] # Idle
    /\ req' = [req EXCEPT ![q] = Idle]
    /\ UNCHANGED <<account, tag, token, adminSince, userSince>>

-----------------------------------------------------------------------------
(* Tokens. *)

\* login reads the row, then compares the password ...
LoginRead(q, u) ==
    /\ req[q] = Idle /\ Exists(u)
    /\ req' = [req EXCEPT ![q] = [op |-> "issue", user |-> u, admin |-> account[u] = "admin"]]
    /\ UNCHANGED <<account, tag, token, adminSince, userSince>>

\* Mutant: the claim of the new token is that of the old one.
RefreshReadClaim(q, t) ==
    /\ req[q] = Idle /\ Exists(t.user)
    /\ req' = [req EXCEPT ![q] = [op |-> "issue", user |-> t.user, admin |-> t.admin]]
    /\ UNCHANGED <<account, tag, token, adminSince, userSince>>

\* Mutant: a user who is not found is refreshed all the same.
RefreshReadGone(q, t) ==
    /\ req[q] = Idle
    /\ req' = [req EXCEPT ![q] = [op |-> "issue", user |-> t.user,
                                  admin |-> account[t.user] = "admin"]]
    /\ UNCHANGED <<account, tag, token, adminSince, userSince>>

\* refresh takes any token that has not expired, and reads the row again ...
RefreshRead(q, t) ==
    /\ req[q] = Idle /\ Exists(t.user)
    /\ req' = [req EXCEPT ![q] = [op |-> "issue", user |-> t.user,
                                  admin |-> account[t.user] = "admin"]]
    /\ UNCHANGED <<account, tag, token, adminSince, userSince>>

\* ... and issueTokens signs a pair: only the access token carries the claim.
IssueTokens(q) ==
    /\ req[q].op = "issue"
    /\ token' = token \cup
        {[user |-> req[q].user, admin |-> req[q].admin, left |-> AccessLife],
         [user |-> req[q].user, admin |-> FALSE, left |-> RefreshLife]}
    /\ req' = [req EXCEPT ![q] = Idle]
    /\ UNCHANGED <<account, tag, adminSince, userSince>>

\* demo: anyone gets an access token of the demo user.  The row is read ...
DemoRead(q) ==
    /\ req[q] = Idle /\ Exists(Demo)
    /\ req' = [req EXCEPT ![q] = [op |-> "demo", user |-> Demo, admin |-> FALSE]]
    /\ UNCHANGED <<account, tag, token, adminSince, userSince>>

\* ... and the token signed, without the claim.
DemoToken(q) ==
    /\ req[q].op = "demo"
    /\ token' = token \cup {[user |-> req[q].user, admin |-> FALSE, left |-> DemoLife]}
    /\ req' = [req EXCEPT ![q] = Idle]
    /\ UNCHANGED <<account, tag, adminSince, userSince>>

\* Something still says that u is an admin, that u is not deleted.
SaysAdmin(u) == account[u] = "admin" \/ \E q \in Requests :
                    req[q].op \in {"issue", "demo"} /\ req[q].user = u /\ req[q].admin
SaysUser(u) == account[u] # "deleted" \/ \E q \in Requests :
                    req[q].op \in {"issue", "demo"} /\ req[q].user = u

Later(n) == IF n < RefreshLife THEN n + 1 ELSE n

\* Time passes; tokens expire.
Tick ==
    /\ token' = {[t EXCEPT !.left = @ - 1] : t \in {s \in token : s.left > 1}}
    /\ adminSince' = [u \in Users |-> IF SaysAdmin(u) THEN 0 ELSE Later(adminSince[u])]
    /\ userSince' = [u \in Users |-> IF SaysUser(u) THEN 0 ELSE Later(userSince[u])]
    /\ UNCHANGED <<account, tag, req>>

-----------------------------------------------------------------------------
(* The admin panel: behind requireAdmin, which looks at the token only. *)

\* UPDATE users SET is_admin, not one's own.
ToggleAdmin(t, u, admin) ==
    /\ t.admin /\ t.user # u
    /\ Exists(u)
    /\ account' = [account EXCEPT ![u] = IF admin THEN "admin" ELSE "user"]
    /\ adminSince' = [adminSince EXCEPT ![u] = IF admin THEN 0 ELSE @]
    /\ UNCHANGED <<tag, token, req, userSince>>

\* DELETE FROM users, not oneself.
DeleteUser(t, u) ==
    /\ t.admin /\ t.user # u
    /\ Exists(u)
    /\ account' = [account EXCEPT ![u] = "deleted"]
    /\ tag' = [tag EXCEPT ![u] = NoTag]
    /\ UNCHANGED <<token, req, adminSince, userSince>>

RegisterNext ==
    \E q \in Requests :
        \/ \E u \in Users, t \in Tags : FindTag(q, u, t)
        \/ InsertUser(q)

TokenNext ==
    \/ \E q \in Requests :
        \/ \E u \in Users : LoginRead(q, u)
        \/ \E t \in token : RefreshRead(q, t)
        \/ IssueTokens(q)
        \/ DemoRead(q) \/ DemoToken(q)
        \/ Aborted(q)
    \/ Tick

AdminNext ==
    \E t \in token, u \in Users :
        \/ \E admin \in BOOLEAN : ToggleAdmin(t, u, admin)
        \/ DeleteUser(t, u)

AccountsNext == RegisterNext \/ TokenNext \/ AdminNext

AccountsSpec == AccountsInit /\ [][AccountsNext]_accountsVars

-----------------------------------------------------------------------------

\* username#tag finds one user at most (user_repo.go:64): of two registrations
\* that found the same tag free, one is refused (auth_handler.go:60-65).
TagsUnique ==
    \A u, v \in Users : u # v /\ Exists(u) /\ Exists(v) => tag[u] # tag[v]

\* Once a user is no longer an admin, and no request that read the row before is
\* under way, the claim is good for AccessLife at the longest: a refresh does not
\* prolong it (auth_handler.go:141), whatever token it is given.
AdminClaimExpires ==
    \A t \in token : t.admin => SaysAdmin(t.user) \/ t.left + adminSince[t.user] <= AccessLife

\* The tokens of a deleted user are good for RefreshLife at the longest: they
\* cannot be renewed (auth_handler.go:147).
DeletedUserExpires ==
    \A t \in token : SaysUser(t.user) \/ t.left + userSince[t.user] <= RefreshLife

\* Whatever the admin panel does to a user is done by somebody else who was an
\* admin until AccessLife ago at most: requireAdmin believes the claim, so those
\* whose status is revoked have that long to revoke others, to delete them or to
\* have it given back -- and the panel is closed for good when all admins have
\* demoted each other and that time is over (admin_handler.go:19, :65, :195).
PanelInRecentHands ==
    [][\A u \in Users : Exists(u) /\ account'[u] # account[u] =>
        \E v \in Users \ {u} : SaysAdmin(v) \/ adminSince[v] < AccessLife]_accountsVars

=============================================================================

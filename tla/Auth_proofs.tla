----------------------------- MODULE Auth_proofs -----------------------------
(***************************************************************************)
(* How long a token outlives what it says, and how much the limiter of     *)
(* register, login and refresh lets through: for any users, requests at a  *)
(* time, lives of tokens, addresses and limits.                            *)
(*                                                                         *)
(* A token lives on when the row has changed.  The invariant ties both to  *)
(* the last moment something said admin: until then adminSince is 0        *)
(* (SaidJustNow), and no token with the claim has more than AccessLife     *)
(* left (AdminTokensShort).                                                *)
(***************************************************************************)
EXTENDS Accounts, RateLimit, TLAPS

SaidJustNow == \A u \in Users :
    /\ SaysAdmin(u) => adminSince[u] = 0
    /\ SaysUser(u) => userSince[u] = 0

AdminTokensShort == \A t \in token : t.admin => t.left <= AccessLife

\* A registering request has its user id for itself.
FreshIds == \A q \in Requests : req[q].op = "register" =>
    /\ account[req[q].user] = "none"
    /\ \A p \in Requests \ {q} : req[p] # Idle => req[p].user # req[q].user

AccountsInv ==
    /\ AccountsTypeOK
    /\ FreshIds /\ TagsUnique
    /\ SaidJustNow /\ AdminTokensShort /\ AdminClaimExpires /\ DeletedUserExpires

\* What the tokens are good for.
Expiry == SaidJustNow /\ AdminTokensShort /\ AdminClaimExpires /\ DeletedUserExpires

LEMMA Lives == /\ AccessLife \in Nat \ {0} /\ DemoLife \in Nat \ {0} /\ RefreshLife \in Nat \ {0}
               /\ AccessLife <= DemoLife /\ DemoLife <= RefreshLife /\ Demo \in Users
BY AccountsAssumption

LEMMA ReqFacts ==
    ASSUME AccountsTypeOK, NEW q \in Requests
    PROVE /\ req[q].op = "register" => req[q] \in Registering
          /\ req[q].op \in {"issue", "demo"} => req[q] \in Issuing
          /\ req[q] # Idle => req[q] \in Registering \cup Issuing
BY DEF AccountsTypeOK, Idle, Registering, Issuing

-----------------------------------------------------------------------------
(* Steps that give nobody a claim, but may take one away. *)

LEMMA NothingNewSaid ==
    ASSUME AccountsInv,
           UNCHANGED <<adminSince, userSince>>,
           \A u \in Users : SaysAdmin(u)' => SaysAdmin(u),
           \A u \in Users : SaysUser(u)' => SaysUser(u),
           \A t \in token' \ token :
                /\ t \in Token
                /\ t.admin => t.left <= AccessLife /\ SaysAdmin(t.user)
                /\ SaysUser(t.user)
    PROVE Expiry'
<1> USE DEF AccountsInv
<1>1. \A t \in token' : /\ t.user \in Users /\ t.left \in 1..RefreshLife
                        /\ adminSince[t.user] \in Nat /\ userSince[t.user] \in Nat
    BY Lives DEF Token, AccountsTypeOK
<1>2. SaidJustNow'
    BY DEF SaidJustNow
<1>3. AdminTokensShort'
    BY DEF AdminTokensShort
<1>4. AdminClaimExpires'
    <2> SUFFICES ASSUME NEW t \in token', t.admin, ~SaysAdmin(t.user)'
                 PROVE t.left + adminSince[t.user] <= AccessLife
        BY DEF AdminClaimExpires
    <2>1. CASE SaysAdmin(t.user)
        <3>1. adminSince[t.user] = 0 /\ t.left <= AccessLife
            BY <2>1, <1>1 DEF SaidJustNow, AdminTokensShort
        <3> QED BY <3>1, <1>1, Lives
    <2>2. CASE ~SaysAdmin(t.user)
        BY <2>2 DEF AdminClaimExpires
    <2> QED BY <2>1, <2>2
<1>5. DeletedUserExpires'
    <2> SUFFICES ASSUME NEW t \in token', ~SaysUser(t.user)'
                 PROVE t.left + userSince[t.user] <= RefreshLife
        BY DEF DeletedUserExpires
    <2>1. CASE SaysUser(t.user)
        <3>1. userSince[t.user] = 0
            BY <2>1, <1>1 DEF SaidJustNow
        <3> QED BY <3>1, <1>1, Lives
    <2>2. CASE ~SaysUser(t.user)
        BY <2>2 DEF DeletedUserExpires
    <2> QED BY <2>1, <2>2
<1> QED BY <1>2, <1>3, <1>4, <1>5 DEF Expiry

LEMMA TagsStay == ASSUME AccountsInv, tag' = tag, \A u \in Users : Exists(u)' => Exists(u)
                  PROVE TagsUnique'
BY DEF AccountsInv, TagsUnique

-----------------------------------------------------------------------------
(* Registration. *)

LEMMA FindTagStep ==
    ASSUME AccountsInv, NEW q \in Requests, NEW u \in Users, NEW t \in Tags, FindTag(q, u, t)
    PROVE AccountsInv'
<1> USE DEF AccountsInv
<1> DEFINE r == [op |-> "register", user |-> u, tag |-> t]
<1>1. /\ req[q] = Idle /\ account[u] = "none" /\ \A p \in Requests : req[p] # Idle => req[p].user # u
      /\ UNCHANGED <<account, tag, token, adminSince, userSince>>
    BY DEF FindTag
<1>2. /\ req' \in [Requests -> {Idle} \cup Registering \cup Issuing]
      /\ req'[q] = r /\ \A p \in Requests \ {q} : req'[p] = req[p]
    BY DEF FindTag, AccountsTypeOK, Registering
<1>3. AccountsTypeOK'
    BY <1>1, <1>2 DEF AccountsTypeOK
<1>4. FreshIds'
    BY <1>1, <1>2 DEF FreshIds, Idle
<1>5. \A v \in Users : (SaysAdmin(v)' => SaysAdmin(v)) /\ (SaysUser(v)' => SaysUser(v))
    BY <1>1, <1>2 DEF SaysAdmin, SaysUser
<1> QED BY <1>1, <1>3, <1>4, <1>5, NothingNewSaid, TagsStay DEF Expiry, Exists

LEMMA InsertUserStep == ASSUME AccountsInv, NEW q \in Requests, InsertUser(q) PROVE AccountsInv'
<1> USE DEF AccountsInv
<1> DEFINE u == req[q].user
<1>1. req[q].op = "register" /\ u \in Users /\ req[q].tag \in Tags
    BY ReqFacts DEF InsertUser, Registering
<1>2. /\ account[u] = "none" /\ req[q] # Idle
      /\ \A p \in Requests \ {q} : req[p] # Idle => req[p].user # u
    BY <1>1 DEF FreshIds, Idle
<1>3. /\ account' \in [Users -> {"none", "user", "admin", "deleted"}]
      /\ account'[u] = "user" /\ \A v \in Users \ {u} : account'[v] = account[v]
      /\ tag' \in [Users -> Tags \cup {NoTag}]
      /\ tag'[u] = req[q].tag /\ \A v \in Users \ {u} : tag'[v] = tag[v]
      /\ UNCHANGED <<token, adminSince, userSince>>
    BY <1>1 DEF InsertUser, AccountsTypeOK
<1> DEFINE r == [op |-> "issue", user |-> u, admin |-> FALSE]
<1>4. /\ req' \in [Requests -> {Idle} \cup Registering \cup Issuing]
      /\ req'[q] = r /\ \A p \in Requests \ {q} : req'[p] = req[p]
    BY <1>1 DEF InsertUser, AccountsTypeOK, Issuing
<1>5. AccountsTypeOK'
    BY <1>3, <1>4 DEF AccountsTypeOK
<1>6. FreshIds'
    <2> SUFFICES ASSUME NEW p \in Requests, req'[p].op = "register"
                 PROVE /\ account'[req'[p].user] = "none"
                       /\ \A s \in Requests \ {p} : req'[s] # Idle => req'[s].user # req'[p].user
        BY DEF FreshIds
    <2>1. p # q /\ req'[p] = req[p] /\ req[p] # Idle /\ req[p].user \in Users
        BY <1>4, ReqFacts DEF Idle, Registering
    <2>2. req[p].user # u
        BY <2>1, <1>2
    <2> QED BY <2>1, <2>2, <1>3, <1>4 DEF FreshIds
<1>7. TagsUnique'
    BY <1>1, <1>3 DEF TagsUnique, Exists, InsertUser, Taken
<1>8. \A v \in Users : (SaysAdmin(v)' => SaysAdmin(v)) /\ (SaysUser(v)' => SaysUser(v))
    BY <1>2, <1>3, <1>4 DEF SaysAdmin, SaysUser
<1> QED BY <1>3, <1>5, <1>6, <1>7, <1>8, NothingNewSaid DEF Expiry

LEMMA AbortedStep == ASSUME AccountsInv, NEW q \in Requests, Aborted(q) PROVE AccountsInv'
<1> USE DEF AccountsInv
<1>1. /\ req' \in [Requests -> {Idle} \cup Registering \cup Issuing]
      /\ req'[q] = Idle /\ \A p \in Requests \ {q} : req'[p] = req[p]
      /\ UNCHANGED <<account, tag, token, adminSince, userSince>>
    BY DEF Aborted, AccountsTypeOK
<1>2. AccountsTypeOK'
    BY <1>1 DEF AccountsTypeOK
<1>3. FreshIds'
    BY <1>1 DEF FreshIds, Idle
<1>4. \A v \in Users : (SaysAdmin(v)' => SaysAdmin(v)) /\ (SaysUser(v)' => SaysUser(v))
    BY <1>1 DEF SaysAdmin, SaysUser, Idle
<1> QED BY <1>1, <1>2, <1>3, <1>4, NothingNewSaid, TagsStay DEF Expiry, Exists

-----------------------------------------------------------------------------
(* Tokens. *)

\* login, refresh and demo read the row alike.
LEMMA ReadRow ==
    ASSUME AccountsInv, NEW q \in Requests, NEW u \in Users, req[q] = Idle, Exists(u),
           NEW op \in {"issue", "demo"}, NEW admin \in BOOLEAN, admin => account[u] = "admin",
           req' = [req EXCEPT ![q] = [op |-> op, user |-> u, admin |-> admin]],
           UNCHANGED <<account, tag, token, adminSince, userSince>>
    PROVE AccountsInv'
<1> USE DEF AccountsInv
<1> DEFINE r == [op |-> op, user |-> u, admin |-> admin]
<1>2. r \in Issuing
    BY DEF Issuing
<1>3. /\ req' \in [Requests -> {Idle} \cup Registering \cup Issuing]
      /\ req'[q] = r /\ \A p \in Requests \ {q} : req'[p] = req[p]
    BY <1>2 DEF AccountsTypeOK
<1>4. AccountsTypeOK'
    BY <1>3 DEF AccountsTypeOK
<1>5. FreshIds'
    <2> SUFFICES ASSUME NEW p \in Requests, req'[p].op = "register"
                 PROVE /\ account'[req'[p].user] = "none"
                       /\ \A s \in Requests \ {p} : req'[s] # Idle => req'[s].user # req'[p].user
        BY DEF FreshIds
    <2>1. p # q /\ req'[p] = req[p]
        BY <1>3
    <2>2. account[req[p].user] = "none"
        BY <2>1 DEF FreshIds
    <2>3. req[p].user # u
        BY <2>2 DEF Exists
    <2> QED BY <2>1, <2>2, <2>3, <1>3 DEF FreshIds
<1>6. \A v \in Users : (SaysAdmin(v)' => SaysAdmin(v)) /\ (SaysUser(v)' => SaysUser(v))
    BY <1>3 DEF SaysAdmin, SaysUser, Exists
<1> QED BY <1>4, <1>5, <1>6, NothingNewSaid, TagsStay DEF Expiry, Exists

LEMMA IssueTokensStep == ASSUME AccountsInv, NEW q \in Requests, IssueTokens(q) PROVE AccountsInv'
<1> USE DEF AccountsInv
<1> DEFINE u == req[q].user
           access == [user |-> u, admin |-> req[q].admin, left |-> AccessLife]
           renew == [user |-> u, admin |-> FALSE, left |-> RefreshLife]
<1>1. req[q].op = "issue" /\ u \in Users /\ req[q].admin \in BOOLEAN
    BY ReqFacts DEF IssueTokens, Issuing
<1>2. access \in Token /\ renew \in Token
    BY <1>1, Lives DEF Token
<1>3. /\ token' = token \cup {access, renew}
      /\ UNCHANGED <<account, tag, adminSince, userSince>>
    BY DEF IssueTokens
<1>4. /\ req' \in [Requests -> {Idle} \cup Registering \cup Issuing]
      /\ req'[q] = Idle /\ \A p \in Requests \ {q} : req'[p] = req[p]
    BY DEF IssueTokens, AccountsTypeOK
<1>5. AccountsTypeOK'
    BY <1>2, <1>3, <1>4 DEF AccountsTypeOK
<1>6. FreshIds'
    BY <1>3, <1>4 DEF FreshIds, Idle
<1>7. \A v \in Users : (SaysAdmin(v)' => SaysAdmin(v)) /\ (SaysUser(v)' => SaysUser(v))
    BY <1>3, <1>4 DEF SaysAdmin, SaysUser, Idle
<1>8. SaysUser(u) /\ (req[q].admin => SaysAdmin(u))
    BY <1>1 DEF SaysAdmin, SaysUser
<1>9. \A t \in token' \ token :
        /\ t \in Token
        /\ t.admin => t.left <= AccessLife /\ SaysAdmin(t.user)
        /\ SaysUser(t.user)
    <2> SUFFICES ASSUME NEW t \in {access, renew}
                 PROVE /\ t \in Token
                       /\ t.admin => t.left <= AccessLife /\ SaysAdmin(t.user)
                       /\ SaysUser(t.user)
        BY <1>3
    <2>1. CASE t = access
        BY <2>1, <1>2, <1>8, Lives
    <2>2. CASE t = renew
        BY <2>2, <1>2, <1>8
    <2> QED BY <2>1, <2>2
<1> QED BY <1>3, <1>5, <1>6, <1>7, <1>9, NothingNewSaid, TagsStay DEF Expiry, Exists

LEMMA DemoTokenStep == ASSUME AccountsInv, NEW q \in Requests, DemoToken(q) PROVE AccountsInv'
<1> USE DEF AccountsInv
<1> DEFINE u == req[q].user
           t == [user |-> u, admin |-> FALSE, left |-> DemoLife]
<1>0. req[q].op = "demo" /\ u \in Users
    BY ReqFacts DEF DemoToken, Issuing
<1>1. token' = token \cup {t} /\ UNCHANGED <<account, tag, adminSince, userSince>>
    BY DEF DemoToken
<1>2. t \in Token /\ t.user = u /\ ~t.admin
    BY <1>0, Lives DEF Token
<1>3. /\ req' \in [Requests -> {Idle} \cup Registering \cup Issuing]
      /\ req'[q] = Idle /\ \A p \in Requests \ {q} : req'[p] = req[p]
    BY DEF DemoToken, AccountsTypeOK
<1>4. AccountsTypeOK'
    BY <1>1, <1>2, <1>3 DEF AccountsTypeOK
<1>5. FreshIds'
    BY <1>1, <1>3 DEF FreshIds, Idle
<1>6. \A v \in Users : (SaysAdmin(v)' => SaysAdmin(v)) /\ (SaysUser(v)' => SaysUser(v))
    BY <1>1, <1>3 DEF SaysAdmin, SaysUser, Idle
<1>7. SaysUser(u)
    BY <1>0 DEF SaysUser
<1> QED BY <1>1, <1>2, <1>4, <1>5, <1>6, <1>7, NothingNewSaid, TagsStay DEF Expiry, Exists

\* A token loses as much as the time since its claim was last true gains.
LEMMA TickStep == ASSUME AccountsInv, Tick PROVE AccountsInv'
<1> USE DEF AccountsInv
<1>1. /\ token' = {[t EXCEPT !.left = @ - 1] : t \in {s \in token : s.left > 1}}
      /\ UNCHANGED <<account, tag, req>>
      /\ adminSince' = [u \in Users |-> IF SaysAdmin(u) THEN 0 ELSE Later(adminSince[u])]
      /\ userSince' = [u \in Users |-> IF SaysUser(u) THEN 0 ELSE Later(userSince[u])]
    BY DEF Tick
<1>2. \A n \in 0..RefreshLife : Later(n) \in 0..RefreshLife /\ Later(n) <= n + 1
    BY Lives DEF Later
<1>3. ASSUME NEW t \in token'
      PROVE \E s \in token : /\ t \in Token /\ t.user = s.user /\ t.admin = s.admin
                             /\ s.left \in Nat /\ t.left = s.left - 1
    <2>1. PICK s \in token : s.left > 1 /\ t = [s EXCEPT !.left = @ - 1]
        BY <1>1
    <2>2. s \in Token
        BY DEF AccountsTypeOK
    <2> QED BY <2>1, <2>2, Lives DEF Token
<1>4. AccountsTypeOK'
    <2>1. adminSince' \in [Users -> 0..RefreshLife] /\ userSince' \in [Users -> 0..RefreshLife]
        BY <1>1, <1>2, Lives DEF AccountsTypeOK
    <2> QED BY <1>1, <1>3, <2>1 DEF AccountsTypeOK
<1>5. FreshIds'
    BY <1>1 DEF FreshIds
<1>6. \A u \in Users : (SaysAdmin(u)' <=> SaysAdmin(u)) /\ (SaysUser(u)' <=> SaysUser(u))
    BY <1>1 DEF SaysAdmin, SaysUser
<1>7. SaidJustNow'
    BY <1>1, <1>6 DEF SaidJustNow
<1>8. \A t \in token' : t.left \in Int /\ t.user \in Users
    BY <1>3 DEF Token
<1>9. AdminTokensShort'
    BY <1>3, Lives DEF AdminTokensShort
<1>10. AdminClaimExpires'
    <2> SUFFICES ASSUME NEW t \in token', t.admin, ~SaysAdmin(t.user)
                 PROVE t.left + adminSince'[t.user] <= AccessLife
        BY <1>6, <1>8 DEF AdminClaimExpires
    <2>1. PICK s \in token : t.user = s.user /\ t.admin = s.admin
                             /\ s.left \in Nat /\ t.left = s.left - 1
        BY <1>3
    <2>2. s.left + adminSince[t.user] <= AccessLife
        BY <2>1 DEF AdminClaimExpires
    <2>3. adminSince[t.user] \in 0..RefreshLife /\ adminSince'[t.user] = Later(adminSince[t.user])
        BY <1>1, <1>8 DEF AccountsTypeOK
    <2> QED BY <2>1, <2>2, <2>3, <1>2, Lives
<1>11. DeletedUserExpires'
    <2> SUFFICES ASSUME NEW t \in token', ~SaysUser(t.user)
                 PROVE t.left + userSince'[t.user] <= RefreshLife
        BY <1>6, <1>8 DEF DeletedUserExpires
    <2>1. PICK s \in token : t.user = s.user /\ s.left \in Nat /\ t.left = s.left - 1
        BY <1>3
    <2>2. s.left + userSince[t.user] <= RefreshLife
        BY <2>1 DEF DeletedUserExpires
    <2>3. userSince[t.user] \in 0..RefreshLife /\ userSince'[t.user] = Later(userSince[t.user])
        BY <1>1, <1>8 DEF AccountsTypeOK
    <2> QED BY <2>1, <2>2, <2>3, <1>2, Lives
<1> QED BY <1>1, <1>4, <1>5, <1>7, <1>9, <1>10, <1>11, TagsStay DEF Exists

-----------------------------------------------------------------------------
(* The admin panel. *)

LEMMA ToggleAdminStep ==
    ASSUME AccountsInv, NEW t \in token, NEW u \in Users, NEW admin \in BOOLEAN,
           ToggleAdmin(t, u, admin)
    PROVE AccountsInv'
<1> USE DEF AccountsInv
<1>1. /\ Exists(u) /\ UNCHANGED <<tag, token, req, userSince>>
      /\ account' \in [Users -> {"none", "user", "admin", "deleted"}]
      /\ account'[u] = IF admin THEN "admin" ELSE "user"
      /\ \A v \in Users \ {u} : account'[v] = account[v]
    BY DEF ToggleAdmin, AccountsTypeOK
<1>2. /\ adminSince' \in [Users -> 0..RefreshLife]
      /\ adminSince'[u] = IF admin THEN 0 ELSE adminSince[u]
      /\ \A v \in Users \ {u} : adminSince'[v] = adminSince[v]
    BY Lives DEF ToggleAdmin, AccountsTypeOK
<1>3. AccountsTypeOK'
    BY <1>1, <1>2 DEF AccountsTypeOK
<1>4. FreshIds'
    BY <1>1, ReqFacts DEF FreshIds, Exists, Registering
<1>5. TagsUnique'
    BY <1>1, TagsStay DEF Exists
<1>6. \A v \in Users : SaysUser(v)' => SaysUser(v)
    BY <1>1 DEF SaysUser, Exists
<1>7. CASE ~admin
    <2>1. \A v \in Users : SaysAdmin(v)' => SaysAdmin(v)
        BY <1>1, <1>7 DEF SaysAdmin
    <2>2. adminSince' = adminSince
        BY <1>2, <1>7 DEF AccountsTypeOK
    <2> QED BY <2>1, <2>2, <1>1, <1>3, <1>4, <1>5, <1>6, NothingNewSaid DEF Expiry
<1>8. CASE admin
    <2>1. SaysAdmin(u)' /\ adminSince'[u] = 0
        BY <1>1, <1>2, <1>8 DEF SaysAdmin
    <2>2. \A v \in Users \ {u} : SaysAdmin(v)' <=> SaysAdmin(v)
        BY <1>1 DEF SaysAdmin
    <2>3. \A v \in Users : SaysUser(v)' <=> SaysUser(v)
        BY <1>1, <1>6 DEF SaysUser, Exists
    <2>4. \A s \in token : s.user \in Users
        BY DEF AccountsTypeOK, Token
    <2>5. SaidJustNow'
        BY <2>1, <2>2, <2>3, <1>1, <1>2 DEF SaidJustNow
    <2>6. AdminTokensShort'
        BY <1>1 DEF AdminTokensShort
    <2>7. AdminClaimExpires'
        BY <2>1, <2>2, <2>4, <1>1, <1>2 DEF AdminClaimExpires
    <2>8. DeletedUserExpires'
        BY <2>3, <2>4, <1>1 DEF DeletedUserExpires
    <2> QED BY <2>5, <2>6, <2>7, <2>8, <1>3, <1>4, <1>5
<1> QED BY <1>7, <1>8

LEMMA DeleteUserStep ==
    ASSUME AccountsInv, NEW t \in token, NEW u \in Users, DeleteUser(t, u)
    PROVE AccountsInv'
<1> USE DEF AccountsInv
<1>1. /\ Exists(u) /\ UNCHANGED <<token, req, adminSince, userSince>>
      /\ account' \in [Users -> {"none", "user", "admin", "deleted"}]
      /\ account'[u] = "deleted" /\ \A v \in Users \ {u} : account'[v] = account[v]
      /\ tag' \in [Users -> Tags \cup {NoTag}]
      /\ \A v \in Users \ {u} : tag'[v] = tag[v]
    BY DEF DeleteUser, AccountsTypeOK
<1>2. AccountsTypeOK'
    BY <1>1 DEF AccountsTypeOK
<1>3. FreshIds'
    BY <1>1, ReqFacts DEF FreshIds, Exists, Registering
<1>4. TagsUnique'
    BY <1>1 DEF TagsUnique, Exists
<1>5. \A v \in Users : (SaysAdmin(v)' => SaysAdmin(v)) /\ (SaysUser(v)' => SaysUser(v))
    BY <1>1 DEF SaysAdmin, SaysUser
<1> QED BY <1>1, <1>2, <1>3, <1>4, <1>5, NothingNewSaid DEF Expiry

LEMMA AccountsInvInit == AccountsInit => AccountsInv
<1> SUFFICES ASSUME AccountsInit PROVE AccountsInv
    OBVIOUS
<1>1. /\ account \in [Users -> {"none", "admin"}] /\ token = {}
      /\ req = [q \in Requests |-> Idle]
      /\ adminSince = [u \in Users |-> IF account[u] = "admin" THEN 0 ELSE RefreshLife]
      /\ userSince = [u \in Users |-> 0]
    BY DEF AccountsInit
<1>s. SaidJustNow
    BY <1>1 DEF SaidJustNow, SaysAdmin, Idle
<1>2. AccountsTypeOK
    BY <1>1, Lives DEF AccountsInit, AccountsTypeOK
<1>3. FreshIds
    BY <1>1 DEF FreshIds, Idle
<1>4. TagsUnique
    BY <1>1 DEF AccountsInit, TagsUnique, Exists
<1> QED BY <1>1, <1>2, <1>3, <1>4, <1>s DEF AccountsInv, AdminTokensShort, AdminClaimExpires,
        DeletedUserExpires

LEMMA AccountsInvStep == AccountsInv /\ [AccountsNext]_accountsVars => AccountsInv'
<1> SUFFICES ASSUME AccountsInv, [AccountsNext]_accountsVars PROVE AccountsInv'
    OBVIOUS
<1>1. CASE UNCHANGED accountsVars
    <2>1. UNCHANGED <<account, tag, token, req, adminSince, userSince>>
        BY <1>1 DEF accountsVars
    <2>2. \A u \in Users : (SaysAdmin(u)' <=> SaysAdmin(u)) /\ (SaysUser(u)' <=> SaysUser(u))
        BY <2>1 DEF SaysAdmin, SaysUser
    <2> QED BY <2>1, <2>2, NothingNewSaid, TagsStay
            DEF AccountsInv, AccountsTypeOK, FreshIds, Exists, Expiry
<1>2. CASE RegisterNext
    BY <1>2, FindTagStep, InsertUserStep DEF RegisterNext
<1>3. ASSUME NEW q \in Requests, NEW u \in Users, LoginRead(q, u) PROVE AccountsInv'
    <2>1. (account[u] = "admin") \in BOOLEAN
        OBVIOUS
    <2> QED BY <1>3, <2>1, ReadRow DEF LoginRead
<1>4. ASSUME NEW q \in Requests, NEW t \in token, RefreshRead(q, t) PROVE AccountsInv'
    <2>1. t.user \in Users
        BY DEF AccountsInv, AccountsTypeOK, Token
    <2>2. (account[t.user] = "admin") \in BOOLEAN
        OBVIOUS
    <2> QED BY <2>1, <2>2, <1>4, ReadRow DEF RefreshRead
<1>d. ASSUME NEW q \in Requests, DemoRead(q) PROVE AccountsInv'
    BY <1>d, Lives, ReadRow DEF DemoRead
<1>5. CASE TokenNext
    BY <1>3, <1>4, <1>d, <1>5, IssueTokensStep, AbortedStep, DemoTokenStep, TickStep DEF TokenNext
<1>6. CASE AdminNext
    BY <1>6, ToggleAdminStep, DeleteUserStep DEF AdminNext
<1> QED BY <1>1, <1>2, <1>5, <1>6 DEF AccountsNext

LEMMA AccountsInvAlways == AccountsSpec => []AccountsInv
<1> QED BY AccountsInvInit, AccountsInvStep, PTL DEF AccountsSpec

\* Rows, tokens and requests are always of their types; no token has more than
\* RefreshLife left (auth_handler.go, issueTokens).
THEOREM AccountsTypeCorrect == AccountsSpec => []AccountsTypeOK
<1>1. AccountsInv => AccountsTypeOK
    BY DEF AccountsInv
<1> QED BY <1>1, AccountsInvAlways, PTL

\* Two users never share a tag, whatever registrations overlap
\* (auth_handler.go:60-78, migrations/004_user_tag.sql:24).
THEOREM TagsAlwaysUnique == AccountsSpec => []TagsUnique
<1>1. AccountsInv => TagsUnique
    BY DEF AccountsInv
<1> QED BY <1>1, AccountsInvAlways, PTL

\* A claim that the row no longer bears out is gone AccessLife later, for any
\* number of refreshes and of requests that read the row before
\* (auth_handler.go:126-158).
THEOREM AdminClaimAlwaysExpires == AccountsSpec => []AdminClaimExpires
<1>1. AccountsInv => AdminClaimExpires
    BY DEF AccountsInv
<1> QED BY <1>1, AccountsInvAlways, PTL

\* No token of a deleted user outlives RefreshLife (auth_handler.go:147).
THEOREM DeletedUserAlwaysExpires == AccountsSpec => []DeletedUserExpires
<1>1. AccountsInv => DeletedUserExpires
    BY DEF AccountsInv
<1> QED BY <1>1, AccountsInvAlways, PTL

\* What the admin panel does to a user is done by somebody else who was an admin
\* until AccessLife ago at most, whatever tokens are about (admin_handler.go:19,
\* :65, :195).
THEOREM PanelAlwaysInRecentHands == AccountsSpec => PanelInRecentHands
<1> DEFINE InRecentHands ==
        \A u \in Users : Exists(u) /\ account'[u] # account[u] =>
            \E v \in Users \ {u} : SaysAdmin(v) \/ adminSince[v] < AccessLife
<1>1. AccountsInv /\ [AccountsNext]_accountsVars => [InRecentHands]_accountsVars
    <2> SUFFICES ASSUME AccountsInv, AccountsNext PROVE InRecentHands
        OBVIOUS
    <2> USE DEF AccountsInv
    <2>1. CASE UNCHANGED account
        BY <2>1
    <2>2. ASSUME NEW q \in Requests, InsertUser(q) PROVE InRecentHands
        <3>1. req[q].user \in Users /\ account[req[q].user] = "none"
            BY <2>2, ReqFacts DEF InsertUser, Registering, FreshIds
        <3> QED BY <2>2, <3>1 DEF InsertUser, AccountsTypeOK, Exists
    <2>3. ASSUME NEW t \in token, NEW u \in Users, NEW admin \in BOOLEAN,
                 ToggleAdmin(t, u, admin) \/ DeleteUser(t, u)
          PROVE InRecentHands
        <3>1. t.admin /\ t.user \in Users \ {u} /\ t.left \in 1..RefreshLife
            BY <2>3 DEF ToggleAdmin, DeleteUser, AccountsTypeOK, Token
        <3>2. \A v \in Users \ {u} : account'[v] = account[v]
            BY <2>3 DEF ToggleAdmin, DeleteUser, AccountsTypeOK
        <3>3. SaysAdmin(t.user) \/ t.left + adminSince[t.user] <= AccessLife
            BY <3>1 DEF AdminClaimExpires
        <3>4. adminSince[t.user] \in 0..RefreshLife
            BY <3>1 DEF AccountsTypeOK
        <3>5. SaysAdmin(t.user) \/ adminSince[t.user] < AccessLife
            BY <3>1, <3>3, <3>4, Lives
        <3> QED BY <3>1, <3>2, <3>5
    <2>4. RegisterNext => UNCHANGED account \/ \E q \in Requests : InsertUser(q)
        BY DEF RegisterNext, FindTag
    <2>5. TokenNext => UNCHANGED account
        BY DEF TokenNext, LoginRead, RefreshRead, IssueTokens, Aborted, DemoRead, DemoToken, Tick
    <2> QED BY <2>1, <2>2, <2>3, <2>4, <2>5 DEF AccountsNext, AdminNext
<1> QED BY <1>1, AccountsInvAlways, PTL DEF AccountsSpec, PanelInRecentHands

-----------------------------------------------------------------------------
(***************************************************************************)
(* The limiter.  A bucket with n grants behind it and b.tokens left to     *)
(* give may give as many at once: the grants these would follow by         *)
(* Capacity must be RefillPer old (Covered), those the next refill would   *)
(* reach no later than the last one (Refilled).  No grant is later than a  *)
(* refill that was due (Recent).                                           *)
(***************************************************************************)
Bucket == [tokens : 0..Capacity, seen : 0..Horizon]

Refilled(g, b) == \A i \in 1..Len(g) : i <= Len(g) + b.tokens + 1 - Capacity => g[i] <= b.seen
Covered(g, b) == \A i \in 1..Len(g) : i <= Len(g) + b.tokens - Capacity => g[i] <= clock - RefillPer
Recent(g, b) == \A i \in 1..Len(g) : g[i] < b.seen + RefillPer
GrantedWhenSeen(g, b) == \E i \in 1..Len(g) : g[i] = b.seen

Good(k) ==
    IF bucket[k] = NoBucket
    THEN \A i \in 1..Len(granted[k]) : granted[k][i] <= clock - RefillPer
    ELSE /\ bucket[k].tokens < Capacity /\ bucket[k].seen <= clock
         /\ Refilled(granted[k], bucket[k]) /\ Covered(granted[k], bucket[k])
         /\ Recent(granted[k], bucket[k]) /\ GrantedWhenSeen(granted[k], bucket[k])

LimiterInv ==
    /\ LimiterTypeOK
    /\ \A k \in Keys : Good(k) /\ \A i \in 1..Len(granted[k]) : granted[k][i] <= clock
    /\ WindowBound /\ RefusedOnlyWhenBusy

LEMMA Limits == /\ Capacity \in Nat \ {0} /\ RefillPer \in Nat \ {0} /\ IdleLimit \in Nat
                /\ 2 * RefillPer <= IdleLimit /\ Horizon \in Nat
BY LimiterAssumption

LEMMA Times == ASSUME NEW p \in Nat, NEW d \in Nat, NEW e \in Nat, d >= e PROVE p * d >= p * e
<1>1. PICK f \in Nat : d = e + f
    <2>1. d - e \in Nat /\ d = e + (d - e)
        OBVIOUS
    <2> QED BY <2>1
<1>2. p * d = p * e + p * f
    BY <1>1
<1>3. p * f \in Nat /\ p * e \in Nat
    OBVIOUS
<1> QED BY <1>2, <1>3

\* How many whole periods p fit into a.
LEMMA WholePeriods ==
    ASSUME NEW a \in Nat, NEW p \in Nat \ {0}
    PROVE /\ a \div p \in Nat
          /\ a \div p = 0 <=> a < p
          /\ a \div p >= 2 => a >= 2 * p
<1>1. a \div p \in Nat
    OBVIOUS
<1>2. a = p * (a \div p) + (a % p) /\ a % p \in 0..(p - 1)
    OBVIOUS
<1> DEFINE d == a \div p
<1>3. d >= 2 => p * d >= p * 2
    BY <1>1, Times
<1>4. d >= 1 => p * d >= p * 1
    BY <1>1, Times
<1> QED BY <1>1, <1>2, <1>3, <1>4

LEMMA SeqFacts == ASSUME LimiterTypeOK, NEW k \in Keys
                  PROVE /\ granted[k] \in Seq(0..Horizon) /\ Len(granted[k]) \in Nat
                        /\ \A i \in 1..Len(granted[k]) : granted[k][i] \in 0..Horizon
                        /\ bucket[k] # NoBucket => bucket[k] \in Bucket
                        /\ clock \in 0..Horizon /\ clock \in Nat
BY Limits DEF LimiterTypeOK, Bucket

\* The bucket as `allow` sees it.
LEMMA CurrentFacts ==
    ASSUME LimiterInv, NEW k \in Keys
    PROVE LET c == Current(k) g == granted[k]
          IN  /\ c \in Bucket /\ c.seen <= clock /\ clock - c.seen < RefillPer
              /\ Refilled(g, c) /\ Covered(g, c) /\ Recent(g, c)
              /\ c.tokens = Capacity => c.seen = clock
              /\ c.seen = clock \/ (c = bucket[k] /\ bucket[k] # NoBucket)
              /\ c.tokens = 0 => c = bucket[k] /\ bucket[k] # NoBucket
<1> DEFINE c == Current(k)
           g == granted[k]
           n == Len(g)
<1>1. /\ n \in Nat /\ clock \in 0..Horizon /\ clock \in Nat
      /\ \A i \in 1..n : g[i] \in 0..Horizon /\ g[i] <= clock
    BY SeqFacts DEF LimiterInv
<1>2. CASE bucket[k] = NoBucket
    <2>1. c = [tokens |-> Capacity, seen |-> clock]
        BY <1>2 DEF Current
    <2>2. c \in Bucket /\ c.tokens = Capacity /\ c.seen = clock
        BY <2>1, <1>1, Limits DEF Bucket
    <2>3. \A i \in 1..n : g[i] <= clock - RefillPer
        BY <1>2 DEF LimiterInv, Good
    <2>4. Refilled(g, c) /\ Covered(g, c) /\ Recent(g, c)
        BY <2>2, <2>3, <1>1, Limits DEF Refilled, Covered, Recent
    <2> QED BY <2>2, <2>4, <1>1, Limits
<1>3. CASE bucket[k] # NoBucket
    <2> DEFINE b == bucket[k]
               new == (clock - b.seen) \div RefillPer
               all == b.tokens + new
    <2>1. b \in Bucket /\ b.tokens \in 0..Capacity /\ b.seen \in 0..Horizon
        BY <1>3, SeqFacts DEF LimiterInv, Bucket
    <2>2. /\ b.tokens < Capacity /\ b.seen <= clock
          /\ Refilled(g, b) /\ Covered(g, b) /\ Recent(g, b)
        BY <1>3 DEF LimiterInv, Good
    <2>3. clock - b.seen \in Nat
        BY <2>1, <2>2, <1>1
    <2>4. /\ new \in Nat
          /\ new = 0 <=> clock - b.seen < RefillPer
          /\ new >= 2 => clock - b.seen >= 2 * RefillPer
        BY <2>3, Limits, WholePeriods
    <2>5. c = IF new = 0 THEN b
              ELSE [tokens |-> IF all > Capacity THEN Capacity ELSE all, seen |-> clock]
        BY <1>3 DEF Current, Refill
    <2> HIDE DEF new
    <2>6. CASE new = 0
        BY <2>1, <2>2, <2>4, <2>5, <2>6, <1>3
    <2>7. CASE new # 0
        <3>0. all \in Nat /\ all >= 1
            BY <2>1, <2>4, <2>7
        <3> HIDE DEF all
        <3>1. c.tokens = (IF all > Capacity THEN Capacity ELSE all) /\ c.seen = clock /\ c \in Bucket
            BY <3>0, <2>5, <2>7, <1>1, Limits DEF Bucket
        <3>2. c.tokens \in 1..Capacity /\ c.tokens <= all
            BY <3>0, <3>1, Limits
        <3>3. Refilled(g, c) /\ Recent(g, c)
            BY <3>1, <1>1, Limits DEF Refilled, Recent
        <3>4. Covered(g, c)
            <4> SUFFICES ASSUME NEW i \in 1..n, i <= n + c.tokens - Capacity
                         PROVE g[i] <= clock - RefillPer
                BY DEF Covered
            <4>1. CASE new = 1
                <5>1. i <= n + b.tokens + 1 - Capacity
                    BY <4>1, <3>2, <2>1, <1>1, Limits DEF all
                <5>2. g[i] <= b.seen
                    BY <5>1, <2>2 DEF Refilled
                <5> QED BY <5>2, <2>1, <2>4, <2>7, <1>1, Limits
            <4>2. CASE new >= 2
                <5>1. g[i] < b.seen + RefillPer
                    BY <2>2 DEF Recent
                <5> QED BY <5>1, <4>2, <2>1, <2>4, <1>1, Limits
            <4>3. new = 1 \/ new >= 2
                BY <2>4, <2>7
            <4> QED BY <4>1, <4>2, <4>3
        <3> QED BY <3>1, <3>2, <3>3, <3>4, <1>1, Limits
    <2> QED BY <2>6, <2>7
<1> QED BY <1>2, <1>3

LEMMA AllowStep == ASSUME LimiterInv, NEW k \in Keys, Allow(k) PROVE LimiterInv'
<1> USE DEF LimiterInv
<1> DEFINE c == Current(k)
           g == granted[k]
           n == Len(g)
           h == Append(g, clock)
           b == [c EXCEPT !.tokens = @ - 1]
<1>1. /\ c \in Bucket /\ c.seen <= clock /\ clock - c.seen < RefillPer
      /\ Refilled(g, c) /\ Covered(g, c) /\ Recent(g, c)
      /\ c.tokens = Capacity => c.seen = clock
      /\ c.seen = clock \/ (c = bucket[k] /\ bucket[k] # NoBucket)
    BY CurrentFacts
<1>2. /\ c.tokens > 0 /\ UNCHANGED <<clock, refused>>
      /\ bucket' = [bucket EXCEPT ![k] = b] /\ granted' = [granted EXCEPT ![k] = h]
    BY DEF Allow
<1> HIDE DEF c
<1>3. /\ n \in Nat /\ clock \in 0..Horizon /\ clock \in Nat /\ g \in Seq(0..Horizon)
      /\ \A i \in 1..n : g[i] \in 0..Horizon /\ g[i] <= clock
    BY SeqFacts
<1>4. h \in Seq(0..Horizon) /\ Len(h) = n + 1 /\ h[n + 1] = clock /\ \A i \in 1..n : h[i] = g[i]
    BY <1>3
<1>5. /\ b \in Bucket /\ b.tokens = c.tokens - 1 /\ b.seen = c.seen
      /\ c.tokens \in 1..Capacity /\ c.seen \in 0..Horizon /\ b # NoBucket
    BY <1>1, <1>2, Limits DEF Bucket, NoBucket
<1> HIDE DEF b, h
<1>6. /\ bucket'[k] = b /\ granted'[k] = h
      /\ \A j \in Keys \ {k} : bucket'[j] = bucket[j] /\ granted'[j] = granted[j]
    BY <1>2 DEF LimiterTypeOK
<1>7. LimiterTypeOK'
    BY <1>2, <1>4, <1>5 DEF LimiterTypeOK, Bucket
<1>8. Refilled(h, b)
    <2> SUFFICES ASSUME NEW i \in 1..(n + 1), i <= n + 1 + b.tokens + 1 - Capacity
                 PROVE h[i] <= b.seen
        BY <1>4 DEF Refilled
    <2>1. i <= n + c.tokens + 1 - Capacity
        BY <1>3, <1>5, Limits
    <2>2. CASE i \in 1..n
        BY <2>1, <2>2, <1>1, <1>4, <1>5 DEF Refilled
    <2>3. CASE i = n + 1
        <3>1. c.tokens = Capacity
            BY <2>1, <2>3, <1>3, <1>5, Limits
        <3> QED BY <3>1, <2>3, <1>1, <1>3, <1>4, <1>5
    <2> QED BY <2>2, <2>3, <1>3
<1>9. Covered(h, b)
    <2> SUFFICES ASSUME NEW i \in 1..(n + 1), i <= n + 1 + b.tokens - Capacity
                 PROVE h[i] <= clock - RefillPer
        BY <1>4 DEF Covered
    <2>1. i <= n + c.tokens - Capacity
        BY <1>3, <1>5, Limits
    <2>2. i \in 1..n
        BY <2>1, <1>3, <1>5, Limits
    <2> QED BY <2>1, <2>2, <1>1, <1>4 DEF Covered
<1>10. Recent(h, b)
    <2>1. clock < b.seen + RefillPer
        BY <1>1, <1>3, <1>5, Limits
    <2> QED BY <2>1, <1>1, <1>3, <1>4, <1>5 DEF Recent
<1>11. GrantedWhenSeen(h, b)
    <2>1. CASE c.seen = clock
        BY <2>1, <1>3, <1>4, <1>5 DEF GrantedWhenSeen
    <2>2. CASE c = bucket[k] /\ bucket[k] # NoBucket
        <3>1. GrantedWhenSeen(g, c)
            BY <2>2 DEF Good
        <3> QED BY <3>1, <1>3, <1>4, <1>5 DEF GrantedWhenSeen
    <2> QED BY <2>1, <2>2, <1>1
<1>12. ASSUME NEW j \in Keys
       PROVE Good(j)' /\ \A i \in 1..Len(granted'[j]) : granted'[j][i] <= clock
    <2>1. CASE j = k
        <3>1. b.tokens < Capacity /\ b.seen <= clock
            BY <1>1, <1>5, Limits
        <3>2. Good(k)'
            BY <3>1, <1>2, <1>5, <1>6, <1>8, <1>9, <1>10, <1>11
               DEF Good, Refilled, Covered, Recent, GrantedWhenSeen
        <3>3. \A i \in 1..(n + 1) : h[i] <= clock
            BY <1>3, <1>4
        <3> QED BY <2>1, <3>2, <3>3, <1>4, <1>6
    <2>2. CASE j # k
        BY <2>2, <1>2, <1>6 DEF Good, Refilled, Covered, Recent, GrantedWhenSeen
    <2> QED BY <2>1, <2>2
<1>13. WindowBound'
    <2>1. \A j \in Keys \ {k} : granted'[j] = granted[j]
        BY <1>6
    <2>2. ASSUME NEW i \in 1..(n + 1), i + Capacity \in 1..(n + 1)
          PROVE h[i + Capacity] - h[i] >= RefillPer
        <3>1. CASE i + Capacity \in 1..n
            <4>1. i \in 1..n
                BY <3>1, <1>3, Limits
            <4>2. g[i + Capacity] - g[i] >= RefillPer
                BY <4>1, <3>1 DEF WindowBound
            <4> QED BY <3>1, <4>1, <4>2, <1>4
        <3>2. CASE i + Capacity = n + 1
            <4>1. i \in 1..n /\ i <= n + c.tokens - Capacity
                BY <3>2, <1>3, <1>5, Limits
            <4>2. g[i] <= clock - RefillPer /\ g[i] \in 0..Horizon
                BY <4>1, <1>1, <1>3 DEF Covered
            <4> QED BY <3>2, <4>1, <4>2, <1>3, <1>4, Limits
        <3> QED BY <3>1, <3>2, <2>2, <1>3
    <2> QED BY <2>1, <2>2, <1>4, <1>6 DEF WindowBound
<1>14. RefusedOnlyWhenBusy'
    <2>1. ASSUME NEW i \in 1..n PROVE i \in 1..(n + 1) /\ h[i] = g[i]
        BY <1>3, <1>4
    <2> QED BY <2>1, <1>2, <1>4, <1>6 DEF RefusedOnlyWhenBusy
<1> QED BY <1>2, <1>7, <1>12, <1>13, <1>14

\* A request is refused by the bucket as it is: every refill gives a token, and
\* the request that asked for the refill took it.
LEMMA RefuseStep == ASSUME LimiterInv, NEW k \in Keys, Refuse(k) PROVE LimiterInv'
<1> USE DEF LimiterInv
<1> DEFINE c == Current(k)
<1>1. /\ c = bucket[k] /\ bucket[k] # NoBucket /\ bucket[k] \in Bucket
      /\ bucket[k].seen <= clock /\ clock - bucket[k].seen < RefillPer
    BY CurrentFacts DEF Refuse
<1>2. /\ refused' = [refused EXCEPT ![k] = clock] /\ UNCHANGED <<clock, granted>>
      /\ bucket' = [bucket EXCEPT ![k] = c]
    BY DEF Refuse
<1> HIDE DEF c
<1>3. bucket' = bucket
    BY <1>1, <1>2 DEF LimiterTypeOK
<1>4. clock \in 0..Horizon
    BY DEF LimiterTypeOK
<1>5. LimiterTypeOK'
    BY <1>2, <1>3, <1>4 DEF LimiterTypeOK
<1>6. \A j \in Keys : Good(j)'
    BY <1>2, <1>3 DEF Good, Refilled, Covered, Recent, GrantedWhenSeen
<1>7. WindowBound'
    BY <1>2 DEF WindowBound
<1>8. RefusedOnlyWhenBusy'
    <2>1. refused'[k] = clock /\ \A j \in Keys \ {k} : refused'[j] = refused[j]
        BY <1>2 DEF LimiterTypeOK
    <2>2. PICK i \in 1..Len(granted[k]) : granted[k][i] = bucket[k].seen
        BY <1>1 DEF Good, GrantedWhenSeen
    <2>3. clock - RefillPer < granted[k][i] /\ granted[k][i] <= clock
        BY <1>1, <1>4, <2>2, Limits DEF Bucket
    <2> QED BY <1>2, <2>1, <2>2, <2>3 DEF RefusedOnlyWhenBusy
<1> QED BY <1>2, <1>5, <1>6, <1>7, <1>8

\* A bucket is forgotten when nothing it has let through counts any more.
LEMMA CleanupStep == ASSUME LimiterInv, Cleanup PROVE LimiterInv'
<1> USE DEF LimiterInv
<1>1. /\ UNCHANGED <<clock, granted, refused>>
      /\ bucket' = [k \in Keys |->
                        IF bucket[k] # NoBucket /\ clock - bucket[k].seen > IdleLimit
                        THEN NoBucket ELSE bucket[k]]
    BY DEF Cleanup
<1>2. LimiterTypeOK'
    BY <1>1 DEF LimiterTypeOK
<1>3. ASSUME NEW k \in Keys PROVE Good(k)'
    <2>1. CASE bucket'[k] = bucket[k]
        BY <2>1, <1>1 DEF Good, Refilled, Covered, Recent, GrantedWhenSeen
    <2>2. CASE bucket'[k] # bucket[k]
        <3>1. bucket'[k] = NoBucket /\ bucket[k] # NoBucket /\ clock - bucket[k].seen > IdleLimit
            BY <2>2, <1>1
        <3>2. /\ bucket[k].seen \in 0..Horizon /\ clock \in Nat
              /\ \A i \in 1..Len(granted[k]) : granted[k][i] \in 0..Horizon
            BY <3>1, SeqFacts DEF Bucket
        <3>3. ASSUME NEW i \in 1..Len(granted[k]) PROVE granted[k][i] <= clock - RefillPer
            <4>1. granted[k][i] < bucket[k].seen + RefillPer
                BY <3>1 DEF Good, Recent
            <4> QED BY <4>1, <3>1, <3>2, Limits
        <3> QED BY <3>1, <3>3, <1>1 DEF Good
    <2> QED BY <2>1, <2>2
<1>4. WindowBound' /\ RefusedOnlyWhenBusy'
    BY <1>1 DEF WindowBound, RefusedOnlyWhenBusy
<1> QED BY <1>1, <1>2, <1>3, <1>4

LEMMA ClockTickStep == ASSUME LimiterInv, ClockTick PROVE LimiterInv'
<1> USE DEF LimiterInv
<1>1. clock < Horizon /\ clock' = clock + 1 /\ UNCHANGED <<bucket, granted, refused>>
      /\ clock \in Nat
    BY Limits DEF ClockTick, LimiterTypeOK
<1>2. LimiterTypeOK'
    BY <1>1, Limits DEF LimiterTypeOK
<1>3. ASSUME NEW k \in Keys
      PROVE Good(k)' /\ \A i \in 1..Len(granted[k]) : granted[k][i] <= clock'
    <2>1. /\ \A i \in 1..Len(granted[k]) : granted[k][i] \in 0..Horizon
          /\ bucket[k] # NoBucket => bucket[k].seen \in 0..Horizon
        BY SeqFacts DEF Bucket
    <2>2. \A i \in 1..Len(granted[k]) :
            /\ granted[k][i] <= clock'
            /\ granted[k][i] <= clock - RefillPer => granted[k][i] <= clock' - RefillPer
        BY <2>1, <1>1, Limits
    <2>3. CASE bucket[k] = NoBucket
        BY <2>2, <2>3, <1>1 DEF Good
    <2>4. CASE bucket[k] # NoBucket
        <3>1. bucket[k].tokens < Capacity /\ bucket[k].seen <= clock'
            BY <2>1, <2>4, <1>1 DEF Good
        <3>2. Covered(granted[k], bucket[k])'
            BY <2>2, <2>4, <1>1 DEF Good, Covered
        <3>3. Refilled(granted[k], bucket[k])' /\ Recent(granted[k], bucket[k])'
              /\ GrantedWhenSeen(granted[k], bucket[k])'
            BY <2>4, <1>1 DEF Good, Refilled, Recent, GrantedWhenSeen
        <3> QED BY <2>2, <2>4, <3>1, <3>2, <3>3, <1>1 DEF Good
    <2> QED BY <2>3, <2>4
<1>4. WindowBound' /\ RefusedOnlyWhenBusy'
    BY <1>1 DEF WindowBound, RefusedOnlyWhenBusy
<1> QED BY <1>1, <1>2, <1>3, <1>4

LEMMA LimiterInvInit == LimiterInit => LimiterInv
<1> SUFFICES ASSUME LimiterInit PROVE LimiterInv
    OBVIOUS
<1>1. /\ clock = 0 /\ bucket = [k \in Keys |-> NoBucket] /\ granted = [k \in Keys |-> <<>>]
      /\ refused = [k \in Keys |-> Never]
    BY DEF LimiterInit
<1>2. LimiterTypeOK
    BY <1>1, Limits DEF LimiterTypeOK
<1>3. \A k \in Keys : Len(granted[k]) = 0 /\ bucket[k] = NoBucket /\ refused[k] = Never
    BY <1>1
<1> QED BY <1>2, <1>3 DEF LimiterInv, Good, WindowBound, RefusedOnlyWhenBusy

LEMMA LimiterInvStep == LimiterInv /\ [LimiterNext]_limiterVars => LimiterInv'
<1> SUFFICES ASSUME LimiterInv, [LimiterNext]_limiterVars PROVE LimiterInv'
    OBVIOUS
<1>1. CASE UNCHANGED limiterVars
    <2>1. UNCHANGED <<clock, bucket, granted, refused>>
        BY <1>1 DEF limiterVars
    <2> QED BY <2>1 DEF LimiterInv, LimiterTypeOK, Good, Refilled, Covered, Recent,
            GrantedWhenSeen, WindowBound, RefusedOnlyWhenBusy
<1>2. CASE LimiterNext
    BY <1>2, AllowStep, RefuseStep, CleanupStep, ClockTickStep DEF LimiterNext
<1> QED BY <1>1, <1>2

LEMMA LimiterInvAlways == LimiterSpec => []LimiterInv
<1> QED BY LimiterInvInit, LimiterInvStep, PTL DEF LimiterSpec

\* Buckets never hold more than Capacity, or a time that has not come
\* (ratelimit.go:46-72).
THEOREM LimiterTypeCorrect == LimiterSpec => []LimiterTypeOK
<1>1. LimiterInv => LimiterTypeOK
    BY DEF LimiterInv
<1> QED BY <1>1, LimiterInvAlways, PTL

\* Capacity requests of an address in any RefillPer, for every limit of
\* server.go:30-36, whatever is rounded, forgotten or refused
\* (ratelimit.go:30-72).
THEOREM WindowAlwaysBound == LimiterSpec => []WindowBound
<1>1. LimiterInv => WindowBound
    BY DEF LimiterInv
<1> QED BY <1>1, LimiterInvAlways, PTL

\* A refused attempt costs nothing: only a request that got through less than
\* RefillPer ago has the next one refused (ratelimit.go:57-70).
THEOREM AlwaysRefusedOnlyWhenBusy == LimiterSpec => []RefusedOnlyWhenBusy
<1>1. LimiterInv => RefusedOnlyWhenBusy
    BY DEF LimiterInv
<1> QED BY <1>1, LimiterInvAlways, PTL

=============================================================================

---------------------------- MODULE Rooms_proofs -----------------------------
(***************************************************************************)
(* The invariants of rooms, members and invites, for any number of rooms,  *)
(* users and concurrent requests.                                          *)
(*                                                                         *)
(* RolesInv adds to OwnerRoleIsOwners what each request has found out and  *)
(* still relies on (RequestsOK); InvitesInv adds to the invite properties  *)
(* what holds of an accept between its two statements (AcceptsOK).         *)
(***************************************************************************)
EXTENDS Rooms, TLAPS

Doing(q, op) == req[q].op = op

\* What a request has found out stays true until it uses it.
RequestOK(q) ==
    req[q] # Idle =>
        /\ Doing(q, "create") => req[q].by = OwnerOf[req[q].room]
        /\ Doing(q, "create") /\ req[q].next = "read" => room[req[q].room] = "none"
        /\ ~Doing(q, "create") \/ req[q].next = "add" => room[req[q].room] # "none"
        /\ Doing(q, "set_role") /\ req[q].next # "read" => req[q].role # "owner"
        /\ Doing(q, "set_role") /\ req[q].next = "write" => req[q].by = OwnerOf[req[q].room]
        /\ req[q].seen = "owner" => req[q].by = OwnerOf[req[q].room]
        /\ At(q, "ws_join", "add") => room[req[q].room] # "private"

RequestsOK == \A q \in Requests : RequestOK(q)

\* A room is created once.
CreatedOnce ==
    \A p, q \in Requests :
        /\ req[p] # Idle /\ Doing(p, "create") /\ req[q] # Idle /\ Doing(q, "create")
        /\ req[p].room = req[q].room
        => p = q

\* Only rooms that exist have rows that refer to them.
RowsLive ==
    \A r \in RoomIds : ~Live(r) =>
        /\ \A u \in Users : role[r][u] = "none" /\ \A v \in Users : invite[r][u][v] = "none"
        /\ kicked[r] = {}

\* No invite refers to a deleted user, and a user has one invite to a room at most.
InvitesRefer ==
    /\ \A r \in RoomIds, u, v \in Users : u \in gone \/ v \in gone => invite[r][u][v] = "none"
    /\ \A r \in RoomIds, u, v, w \in Users :
          invite[r][u][v] # "none" /\ invite[r][u][w] # "none" => v = w

LEMMA FinishReq == ASSUME NEW q \in Requests, TypeOK, Finish(q)
                   PROVE /\ req' \in [Requests -> Request \cup {Idle}]
                         /\ req'[q] = Idle
                         /\ \A p \in Requests \ {q} : req'[p] = req[p]
BY DEF Finish, TypeOK

LEMMA AtReq == ASSUME NEW q \in Requests, NEW op \in Operations, NEW next, TypeOK, At(q, op, next)
               PROVE req[q] \in Request
BY DEF At, TypeOK, Idle, Operations

LEMMA ContinueReq ==
    ASSUME NEW q \in Requests, TypeOK, req[q] \in Request,
           NEW next \in {"read", "check", "write", "add"}, Continue(q, next)
    PROVE /\ req' \in [Requests -> Request \cup {Idle}]
          /\ req'[q] \in Request
          /\ req'[q].op = req[q].op /\ req'[q].room = req[q].room /\ req'[q].by = req[q].by
          /\ req'[q].target = req[q].target /\ req'[q].role = req[q].role
          /\ req'[q].seen = "none" /\ req'[q].next = next
          /\ \A p \in Requests \ {q} : req'[p] = req[p]
BY DEF Continue, TypeOK, Request

LEMMA NotIdle == ASSUME NEW x \in Request PROVE x # Idle
BY DEF Request, Idle, Operations

\* What a handler calls the service with.
LEMMA BeginCalls ==
    ASSUME NEW q \in Requests, Begin(q)
    PROVE \E op \in Operations, r \in RoomIds, by, target \in Users, new \in Roles :
              Call(q, op, r, by, target, new)
BY DEF Begin, Roles

\* The new request of Call.
LEMMA CallReq ==
    ASSUME NEW q \in Requests, NEW op \in Operations, NEW r \in RoomIds, NEW by \in Users,
           NEW target \in Users, NEW new \in Roles, TypeOK, Call(q, op, r, by, target, new)
    PROVE /\ req' \in [Requests -> Request \cup {Idle}]
          /\ req'[q] \in Request
          /\ req'[q].op = op /\ req'[q].room = r /\ req'[q].by = by /\ req'[q].target = target
          /\ req'[q].role = new /\ req'[q].next = "read" /\ req'[q].seen = "none"
          /\ \A p \in Requests \ {q} : req'[p] = req[p]
BY DEF Call, TypeOK, Request

\* A request that has read its own role.
LEMMA ReadOwnRoleReq ==
    ASSUME NEW q \in Requests, TypeOK, ReadOwnRole(q)
    PROVE /\ req[q] \in Request
          /\ req' \in [Requests -> Request \cup {Idle}]
          /\ req'[q] \in Request
          /\ req'[q].op = req[q].op /\ req'[q].room = req[q].room /\ req'[q].by = req[q].by
          /\ req'[q].target = req[q].target /\ req'[q].role = req[q].role
          /\ req'[q].seen = role[req[q].room][req[q].by] /\ req'[q].next = "check"
          /\ \A p \in Requests \ {q} : req'[p] = req[p]
<1>1. req[q] \in Request
    BY DEF ReadOwnRole, At, TypeOK, Idle, Operations
<1>2. role[req[q].room][req[q].by] \in Roles
    BY <1>1 DEF ReadOwnRole, TypeOK, Request
<1> QED BY <1>1, <1>2 DEF ReadOwnRole, TypeOK, Request

\* Every variable keeps its type.
LEMMA RoomsTypeStep == TypeOK /\ [Next]_vars => TypeOK'
<1> SUFFICES ASSUME TypeOK, [Next]_vars PROVE TypeOK'
    OBVIOUS
<1>1. ASSUME NEW q \in Requests, NEW op \in Operations, NEW r \in RoomIds, NEW by \in Users,
             NEW target \in Users, NEW new \in Roles, Call(q, op, r, by, target, new)
      PROVE TypeOK'
    <2>1. req' \in [Requests -> Request \cup {Idle}]
        BY <1>1, CallReq
    <2>2. UNCHANGED <<room, role, invite, gone, kicked, cut, freed>>
        BY <1>1 DEF Call
    <2> QED BY <2>1, <2>2 DEF TypeOK
<1>2. ASSUME NEW q \in Requests, Statement(q) PROVE TypeOK'
    <2>1. ASSUME NEW op \in Operations, NEW next, At(q, op, next) PROVE req[q] \in Request
        BY <2>1, AtReq
    <2>2. CASE CreateRoom(q)
        BY <2>1, <2>2, ContinueReq DEF CreateRoom, TypeOK, Request, Operations
    <2>3. CASE CreateAddOwner(q)
        BY <2>1, <2>3, FinishReq DEF CreateAddOwner, AddMember, TypeOK, Request, Operations, Roles
    <2>4. CASE DeleteRoom(q)
        BY <2>1, <2>4, FinishReq DEF DeleteRoom, TypeOK, Request, Operations
    <2>5. CASE InviteRead(q) \/ InviteCheck(q)
        BY <2>1, <2>5, ContinueReq DEF InviteRead, InviteCheck, TypeOK, Operations
    <2>6. CASE InviteWrite(q)
        BY <2>1, <2>6, FinishReq DEF InviteWrite, TypeOK, Request, Operations
    <2>7. CASE InviteeReads(q)
        BY <2>1, <2>7, ContinueReq DEF InviteeReads, TypeOK, Operations
    <2>8. CASE AcceptWrite(q)
        <3>1. req[q] \in Request
            BY <2>1, <2>8 DEF AcceptWrite, Operations
        <3>2. req' \in [Requests -> Request \cup {Idle}]
            BY <2>8, <3>1, ContinueReq DEF AcceptWrite
        <3>3. invite' \in [RoomIds -> [Users -> [Users -> {"none", "pending", "accepted", "declined"}]]]
            BY <2>8, <3>1 DEF AcceptWrite, Decide, TypeOK, Request
        <3> QED BY <2>8, <3>2, <3>3 DEF AcceptWrite, TypeOK
    <2>9. CASE AcceptAdd(q)
        BY <2>1, <2>9, FinishReq DEF AcceptAdd, AddMember, TypeOK, Request, Operations, Roles
    <2>10. CASE DeclineWrite(q)
        BY <2>1, <2>10, FinishReq DEF DeclineWrite, Decide, TypeOK, Request, Operations
    <2>11. CASE ReadOwnRole(q)
        BY <2>11, ReadOwnRoleReq DEF ReadOwnRole, TypeOK
    <2>12. CASE SetRoleCheck(q) \/ KickCheck(q) \/ JoinRead(q)
        BY <2>1, <2>12, ContinueReq DEF SetRoleCheck, KickCheck, JoinRead, TypeOK, Operations
    <2>13. CASE SetRoleWrite(q)
        BY <2>1, <2>13, FinishReq DEF SetRoleWrite, SetMemberRole, TypeOK, Request, Operations
    <2>14. CASE KickWrite(q)
        BY <2>1, <2>14, FinishReq DEF KickWrite, RemoveMember, TypeOK, Request, Operations
    <2>15. CASE JoinAdd(q)
        BY <2>1, <2>15, FinishReq DEF JoinAdd, AddMember, TypeOK, Request, Operations, Roles
    <2>16. CASE Refused(q)
        BY <2>16, FinishReq DEF Refused, TypeOK
    <2>17. CASE Aborted(q)
        <3>1. req' \in [Requests -> Request \cup {Idle}]
            BY <2>17, FinishReq DEF Aborted
        <3>2. cut' \in [RoomIds -> SUBSET Users]
            <4>1. CASE At(q, "accept", "add")
                BY <2>1, <2>17, <4>1 DEF Aborted, TypeOK, Request, Operations
            <4>2. CASE ~At(q, "accept", "add")
                BY <2>17, <4>2 DEF Aborted, TypeOK
            <4> QED BY <4>1, <4>2
        <3> QED BY <2>17, <3>1, <3>2 DEF Aborted, TypeOK
    <2> QED BY <1>2, <2>2, <2>3, <2>4, <2>5, <2>6, <2>7, <2>8, <2>9, <2>10, <2>11, <2>12, <2>13,
               <2>14, <2>15, <2>16, <2>17 DEF Statement
<1>3. ASSUME NEW u \in Users, DeleteUser(u) PROVE TypeOK'
    <2>1. room' \in [RoomIds -> Types \cup {"none", "deleted"}] /\ req' = req /\ gone' \subseteq Users
        BY <1>3 DEF DeleteUser, TypeOK
    <2>2. role' \in [RoomIds -> [Users -> Roles \cup {"none"}]]
        BY <1>3 DEF DeleteUser, TypeOK
    <2>3. invite' \in [RoomIds -> [Users -> [Users -> {"none", "pending", "accepted", "declined"}]]]
        BY <1>3 DEF DeleteUser, TypeOK
    <2>4. kicked' \in [RoomIds -> SUBSET Users]
        BY <1>3 DEF DeleteUser, TypeOK
    <2>5. cut' \in [RoomIds -> SUBSET Users]
        BY <1>3 DEF DeleteUser, TypeOK
    <2>6. freed' \in [RoomIds -> SUBSET Users]
        BY <1>3 DEF DeleteUser, TypeOK
    <2> QED BY <2>1, <2>2, <2>3, <2>4, <2>5, <2>6 DEF TypeOK
<1>4. CASE UNCHANGED vars
    BY <1>4 DEF vars, TypeOK
<1> QED BY <1>1, <1>2, <1>3, <1>4, BeginCalls DEF Next

\* What the deletion of a user leaves of each row.
LEMMA DeleteUserRows ==
    ASSUME TypeOK, NEW d \in Users, DeleteUser(d), NEW r \in RoomIds
    PROVE /\ d \notin gone /\ gone' = gone \cup {d} /\ req' = req
          /\ \/ /\ Live(r) /\ room'[r] = "deleted" /\ kicked'[r] = {} /\ freed'[r] = {}
                /\ \A u \in Users : role'[r][u] = "none" /\ \A v \in Users : invite'[r][u][v] = "none"
             \/ /\ room'[r] = room[r]
                /\ \A u \in Users : role'[r][u] = IF u = d THEN "none" ELSE role[r][u]
                /\ \A u, v \in Users :
                      invite'[r][u][v] = IF u = d \/ v = d THEN "none" ELSE invite[r][u][v]
                /\ \A u \in Users \ {d} :
                      /\ u \in freed'[r] <=> u \in freed[r] \/ invite[r][u][d] = "accepted"
                      /\ u \in kicked'[r] <=> u \in kicked[r] /\ invite[r][u][d] # "accepted"
                      /\ u \in cut'[r] <=> u \in cut[r] /\ invite[r][u][d] # "accepted"
                /\ d \notin kicked'[r]
<1>1. d \notin gone /\ gone' = gone \cup {d} /\ req' = req
    BY DEF DeleteUser
<1>2. CASE Live(r) /\ OwnerOf[r] = d
    <2>1. room'[r] = "deleted" /\ kicked'[r] = {} /\ freed'[r] = {}
        BY <1>2 DEF DeleteUser
    <2>2. \A u \in Users : role'[r][u] = "none"
        BY <1>2 DEF DeleteUser
    <2>3. \A u, v \in Users : invite'[r][u][v] = "none"
        BY <1>2 DEF DeleteUser
    <2> QED BY <1>1, <1>2, <2>1, <2>2, <2>3
<1>3. CASE ~(Live(r) /\ OwnerOf[r] = d)
    <2>1. room'[r] = room[r]
        BY <1>3 DEF DeleteUser
    <2>2. \A u \in Users : role'[r][u] = IF u = d THEN "none" ELSE role[r][u]
        BY <1>3 DEF DeleteUser
    <2>3. \A u, v \in Users : invite'[r][u][v] = IF u = d \/ v = d THEN "none" ELSE invite[r][u][v]
        BY <1>3 DEF DeleteUser
    <2>4. \A u \in Users \ {d} : u \in freed'[r] <=> u \in freed[r] \/ invite[r][u][d] = "accepted"
        BY <1>3 DEF DeleteUser
    <2>5. /\ \A u \in Users \ {d} : u \in kicked'[r] <=> u \in kicked[r] /\ invite[r][u][d] # "accepted"
          /\ d \notin kicked'[r]
        BY <1>3 DEF DeleteUser
    <2>6. \A u \in Users \ {d} : u \in cut'[r] <=> u \in cut[r] /\ invite[r][u][d] # "accepted"
        BY <1>3 DEF DeleteUser
    <2> QED BY <1>1, <2>1, <2>2, <2>3, <2>4, <2>5, <2>6
<1> QED BY <1>2, <1>3

\* The rows of rooms only go from "none" to a type and from there to "deleted".
LEMMA RoomSteps ==
    ASSUME TypeOK, RequestsOK, NEW q \in Requests, Statement(q), NEW r \in RoomIds
    PROVE \/ room'[r] = room[r]
          \/ room[r] = "none" /\ At(q, "create", "read") /\ req[q].room = r /\ room'[r] \in Types
          \/ room[r] # "none" /\ room'[r] = "deleted"
<1>1. CASE CreateRoom(q)
    <2>1. req[q] \in Request
        BY <1>1, AtReq DEF CreateRoom, Operations
    <2>2. room[req[q].room] = "none"
        BY <1>1, <2>1, NotIdle DEF CreateRoom, At, RequestsOK, RequestOK, Doing
    <2> QED BY <1>1, <2>1, <2>2 DEF CreateRoom, TypeOK
<1>2. CASE DeleteRoom(q)
    BY <1>2, RoomsAssumption DEF DeleteRoom, Live, TypeOK
<1>3. CASE UNCHANGED room
    BY <1>3
<1> QED BY <1>1, <1>2, <1>3 DEF Statement, CreateAddOwner, InviteRead, InviteCheck, InviteWrite,
           InviteeReads, AcceptWrite, AcceptAdd, DeclineWrite, ReadOwnRole, SetRoleCheck,
           SetRoleWrite, KickCheck, KickWrite, JoinRead, JoinAdd, Refused, Aborted

\* What the other requests have found out stays true (no id is used twice).
LEMMA OthersOK ==
    ASSUME TypeOK, RequestsOK, CreatedOnce, NEW q \in Requests, Statement(q),
           NEW p \in Requests, p # q, req'[p] = req[p], req[p] # Idle
    PROVE /\ Doing(p, "create") /\ req[p].next = "read" => room'[req[p].room] = "none"
          /\ ~Doing(p, "create") \/ req[p].next = "add" => room'[req[p].room] # "none"
          /\ At(p, "ws_join", "add") => room'[req[p].room] # "private"
<1>1. req[p] \in Request /\ req[p].room \in RoomIds
    BY DEF TypeOK, Request
<1>2. Types \subseteq {"public", "private", "dm", "voice"}
    BY RoomsAssumption
<1>3. room[req[p].room] = "none" => Doing(p, "create") /\ req[p].next # "add"
    BY DEF RequestsOK, RequestOK
<1>4. ~(At(q, "create", "read") /\ Doing(p, "create") /\ req[q].room = req[p].room)
    BY DEF At, CreatedOnce, Doing
<1>5. CASE room'[req[p].room] = room[req[p].room]
    BY <1>5 DEF RequestsOK, RequestOK
<1>6. CASE room[req[p].room] = "none" /\ At(q, "create", "read") /\ req[q].room = req[p].room
    BY <1>3, <1>4, <1>6
<1>7. CASE room[req[p].room] # "none" /\ room'[req[p].room] = "deleted"
    BY <1>7 DEF RequestsOK, RequestOK
<1> QED BY <1>1, <1>5, <1>6, <1>7, RoomSteps

\* A request that goes on with its next statement, another value of `seen`
\* aside.
GoesOn(q, next) ==
    /\ req[q] \in Request /\ req'[q] \in Request
    /\ req'[q].op = req[q].op /\ req'[q].room = req[q].room /\ req'[q].by = req[q].by
    /\ req'[q].role = req[q].role /\ req'[q].next = next
    /\ \A p \in Requests \ {q} : req'[p] = req[p]

\* The statements, by what becomes of the request.
LEMMA StatementReq ==
    ASSUME TypeOK, NEW q \in Requests, Statement(q)
    PROVE \/ req'[q] = Idle /\ \A p \in Requests \ {q} : req'[p] = req[p]
          \/ CreateRoom(q) /\ GoesOn(q, "add") /\ req'[q].seen = "none"
          \/ InviteRead(q) /\ (GoesOn(q, "check") \/ GoesOn(q, "write")) /\ req'[q].seen = "none"
          \/ InviteCheck(q) /\ GoesOn(q, "write") /\ req'[q].seen = "none"
          \/ InviteeReads(q) /\ GoesOn(q, "write") /\ req'[q].seen = "none"
          \/ AcceptWrite(q) /\ GoesOn(q, "add") /\ req'[q].seen = "none"
          \/ ReadOwnRole(q) /\ GoesOn(q, "check") /\ req'[q].seen = role[req[q].room][req[q].by]
          \/ SetRoleCheck(q) /\ GoesOn(q, "write") /\ req'[q].seen = "none"
          \/ KickCheck(q) /\ GoesOn(q, "write") /\ req'[q].seen = "none"
          \/ JoinRead(q) /\ GoesOn(q, "add") /\ req'[q].seen = "none"
<1>1. ASSUME NEW next \in {"read", "check", "write", "add"}, req[q] \in Request, Continue(q, next)
      PROVE GoesOn(q, next) /\ req'[q].seen = "none"
    BY <1>1, ContinueReq DEF GoesOn
<1>2. CASE Finish(q)
    BY <1>2, FinishReq
<1>3. ASSUME NEW op \in Operations, NEW next, At(q, op, next) PROVE req[q] \in Request
    BY <1>3, AtReq
<1>4. CASE CreateRoom(q)
    BY <1>1, <1>3, <1>4 DEF CreateRoom, Operations
<1>5. CASE InviteRead(q)
    BY <1>1, <1>3, <1>5 DEF InviteRead, Operations
<1>6. CASE InviteCheck(q)
    BY <1>1, <1>3, <1>6 DEF InviteCheck, Operations
<1>7. CASE InviteeReads(q)
    BY <1>1, <1>3, <1>7 DEF InviteeReads, Operations
<1>8. CASE AcceptWrite(q)
    BY <1>1, <1>3, <1>8 DEF AcceptWrite, Operations
<1>9. CASE ReadOwnRole(q)
    BY <1>9, ReadOwnRoleReq DEF GoesOn
<1>10. CASE SetRoleCheck(q)
    BY <1>1, <1>3, <1>10 DEF SetRoleCheck, Operations
<1>11. CASE KickCheck(q)
    BY <1>1, <1>3, <1>11 DEF KickCheck, Operations
<1>12. CASE JoinRead(q)
    BY <1>1, <1>3, <1>12 DEF JoinRead, Operations
<1> QED BY <1>2, <1>4, <1>5, <1>6, <1>7, <1>8, <1>9, <1>10, <1>11, <1>12
       DEF Statement, CreateAddOwner, DeleteRoom, InviteWrite, AcceptAdd, DeclineWrite,
           SetRoleWrite, KickWrite, JoinAdd, Refused, Aborted

\* One creation per room id (room_service.go:25).
LEMMA CreatedOnceStep == TypeOK /\ CreatedOnce /\ [Next]_vars => CreatedOnce'
<1> SUFFICES ASSUME TypeOK, CreatedOnce, [Next]_vars PROVE CreatedOnce'
    OBVIOUS
<1>1. ASSUME NEW q \in Requests, NEW op \in Operations, NEW r \in RoomIds, NEW by \in Users,
             NEW target \in Users, NEW new \in Roles, Call(q, op, r, by, target, new)
      PROVE CreatedOnce'
    BY <1>1, CallReq DEF Call, CreatedOnce, Doing
<1>2. ASSUME NEW q \in Requests, Statement(q) PROVE CreatedOnce'
    BY <1>2, StatementReq, NotIdle DEF GoesOn, CreatedOnce, Doing
<1>3. CASE UNCHANGED req
    BY <1>3 DEF CreatedOnce, Doing
<1> QED BY <1>1, <1>2, <1>3, BeginCalls DEF Next, vars, DeleteUser

\* What a request has checked holds until its last statement, although other
\* requests run between its statements (room_service.go:138-181).
LEMMA RequestsStep ==
    TypeOK /\ RequestsOK /\ CreatedOnce /\ OwnerRoleIsOwners /\ [Next]_vars => RequestsOK'
<1> SUFFICES ASSUME TypeOK, RequestsOK, CreatedOnce, OwnerRoleIsOwners, [Next]_vars
             PROVE RequestsOK'
    OBVIOUS
<1>1. ASSUME NEW q \in Requests, NEW op \in Operations, NEW r \in RoomIds, NEW by \in Users,
             NEW target \in Users, NEW new \in Roles, Call(q, op, r, by, target, new)
      PROVE RequestsOK'
    BY <1>1, CallReq DEF Call, RequestsOK, RequestOK, Doing, At
<1>2. ASSUME NEW q \in Requests, Statement(q) PROVE RequestsOK'
    <2>1. ASSUME NEW p \in Requests, p # q PROVE RequestOK(p)'
        <3>1. req'[p] = req[p]
            BY <1>2, <2>1, StatementReq DEF GoesOn
        <3> QED BY <1>2, <2>1, <3>1, OthersOK DEF RequestsOK, RequestOK, Doing, At
    <2>2. RequestOK(q)'
        <3>1. CASE req'[q] = Idle
            BY <3>1 DEF RequestOK
        <3>2. CASE CreateRoom(q) /\ GoesOn(q, "add") /\ req'[q].seen = "none"
            <4>1. room'[req'[q].room] \in Types
                BY <3>2 DEF GoesOn, CreateRoom, TypeOK, Request
            <4>2. Doing(q, "create") /\ req[q] # Idle /\ RequestOK(q)
                BY <3>2 DEF CreateRoom, At, Doing, RequestsOK
            <4> QED BY <3>2, <4>1, <4>2, RoomsAssumption DEF GoesOn, RequestOK, Doing, At
        <3>3. CASE /\ InviteRead(q) \/ InviteCheck(q) \/ InviteeReads(q) \/ AcceptWrite(q) \/ KickCheck(q)
                   /\ \E next \in {"check", "write", "add"} : GoesOn(q, next)
                   /\ req'[q].seen = "none"
            <4>1. UNCHANGED room /\ req[q] # Idle /\ RequestOK(q)
                  /\ ~Doing(q, "create") /\ ~Doing(q, "set_role") /\ ~Doing(q, "ws_join")
                BY <3>3 DEF InviteRead, InviteCheck, InviteeReads, AcceptWrite, KickCheck, At, Doing,
                   RequestsOK
            <4> QED BY <3>3, <4>1 DEF GoesOn, RequestOK, Doing, At
        <3>4. CASE /\ ReadOwnRole(q) /\ GoesOn(q, "check")
                   /\ req'[q].seen = role[req[q].room][req[q].by]
            <4>1. /\ UNCHANGED room /\ req[q] # Idle /\ RequestOK(q)
                  /\ Doing(q, "set_role") \/ Doing(q, "kick")
                  /\ Doing(q, "set_role") => req[q].role # "owner"
                BY <3>4 DEF ReadOwnRole, At, Doing, RequestsOK
            <4>2. role[req[q].room][req[q].by] = "owner" => req[q].by = OwnerOf[req[q].room]
                BY <3>4 DEF OwnerRoleIsOwners, GoesOn, Request
            <4> QED BY <3>4, <4>1, <4>2 DEF GoesOn, RequestOK, Doing, At
        <3>5. CASE SetRoleCheck(q) /\ GoesOn(q, "write") /\ req'[q].seen = "none"
            <4>1. /\ UNCHANGED room /\ req[q] # Idle /\ RequestOK(q) /\ Doing(q, "set_role")
                  /\ req[q].next = "check"
                  /\ req[q].seen = "owner" \/ OwnerOf[req[q].room] = req[q].by
                BY <3>5 DEF SetRoleCheck, At, Doing, RequestsOK
            <4> QED BY <3>5, <4>1 DEF GoesOn, RequestOK, Doing, At
        <3>6. CASE JoinRead(q) /\ GoesOn(q, "add") /\ req'[q].seen = "none"
            <4>1. /\ UNCHANGED room /\ req[q] # Idle /\ RequestOK(q) /\ Doing(q, "ws_join")
                  /\ room[req[q].room] \in {"public", "voice"}
                BY <3>6 DEF JoinRead, At, Doing, RequestsOK
            <4> QED BY <3>6, <4>1 DEF GoesOn, RequestOK, Doing, At
        <3> QED BY <1>2, <3>1, <3>2, <3>3, <3>4, <3>5, <3>6, StatementReq
    <2> QED BY <2>1, <2>2 DEF RequestsOK
<1>3. ASSUME NEW d \in Users, DeleteUser(d) PROVE RequestsOK'
    <2> SUFFICES ASSUME NEW q \in Requests, req[q] # Idle PROVE RequestOK(q)'
        BY <1>3 DEF RequestsOK, RequestOK, DeleteUser
    <2>1. req' = req /\ RequestOK(q) /\ req[q].room \in RoomIds
        BY <1>3 DEF DeleteUser, RequestsOK, TypeOK, Request
    <2>2. \/ room'[req[q].room] = room[req[q].room]
          \/ room[req[q].room] \in Types /\ room'[req[q].room] = "deleted"
        BY <1>3, <2>1, DeleteUserRows DEF Live
    <2>3. "none" \notin Types
        BY RoomsAssumption
    <2> QED BY <2>1, <2>2, <2>3 DEF RequestOK, Doing, At
<1>4. CASE UNCHANGED vars
    BY <1>4 DEF vars, RequestsOK, RequestOK, Doing, At
<1> QED BY <1>1, <1>2, <1>3, <1>4, BeginCalls DEF Next

\* The statements that write roles (room_service.go:35-37, :101, :154, :180,
\* hub.go:147).
LEMMA RoleWrites ==
    ASSUME TypeOK, RequestsOK, NEW q \in Requests, Statement(q), role' # role
    PROVE /\ req[q] \in Request /\ RequestOK(q)
          /\ \/ At(q, "create", "add") /\ AddMember(req[q].room, req[q].by, "owner")
             \/ At(q, "accept", "add") /\ AddMember(req[q].room, req[q].by, "member")
             \/ At(q, "ws_join", "add") /\ AddMember(req[q].room, req[q].by, "member")
             \/ At(q, "set_role", "write") /\ SetMemberRole(req[q].room, req[q].target, req[q].role)
             \/ At(q, "kick", "write") /\ RemoveMember(req[q].room, req[q].target)
             \/ DeleteRoom(q)
<1>1. \/ CreateAddOwner(q) \/ AcceptAdd(q) \/ JoinAdd(q) \/ SetRoleWrite(q) \/ KickWrite(q)
      \/ DeleteRoom(q)
    BY DEF Statement, CreateRoom, InviteRead, InviteCheck, InviteWrite, InviteeReads, AcceptWrite,
       DeclineWrite, ReadOwnRole, SetRoleCheck, KickCheck, JoinRead, Refused, Aborted
<1>2. \E op \in Operations, next \in {"read", "write", "add"} : At(q, op, next)
    BY <1>1 DEF CreateAddOwner, AcceptAdd, JoinAdd, SetRoleWrite, KickWrite, DeleteRoom, Operations
<1>3. req[q] \in Request
    BY <1>2, AtReq
<1> QED BY <1>1, <1>3 DEF CreateAddOwner, AcceptAdd, JoinAdd, SetRoleWrite, KickWrite, RequestsOK

\* Nobody is given the role owner but the owner.
LEMMA OwnerRoleStep ==
    TypeOK /\ RequestsOK /\ OwnerRoleIsOwners /\ [Next]_vars => OwnerRoleIsOwners'
<1> SUFFICES ASSUME TypeOK, RequestsOK, OwnerRoleIsOwners, [Next]_vars PROVE OwnerRoleIsOwners'
    OBVIOUS
<1>1. CASE UNCHANGED role
    BY <1>1 DEF OwnerRoleIsOwners
<1>2. ASSUME NEW q \in Requests, Statement(q), role' # role PROVE OwnerRoleIsOwners'
    <2>1. CASE At(q, "create", "add") /\ AddMember(req[q].room, req[q].by, "owner")
        <3>1. req[q].by = OwnerOf[req[q].room]
            BY <1>2, <2>1, RoleWrites DEF RequestOK, At, Doing
        <3> QED BY <1>2, <2>1, <3>1, RoleWrites DEF AddMember, OwnerRoleIsOwners, TypeOK, Request
    <2>2. CASE AddMember(req[q].room, req[q].by, "member")
        BY <1>2, <2>2, RoleWrites DEF AddMember, OwnerRoleIsOwners, TypeOK, Request
    <2>3. CASE At(q, "set_role", "write") /\ SetMemberRole(req[q].room, req[q].target, req[q].role)
        <3>1. req[q].role # "owner"
            BY <1>2, <2>3, RoleWrites DEF RequestOK, At, Doing
        <3> QED BY <1>2, <2>3, <3>1, RoleWrites DEF SetMemberRole, OwnerRoleIsOwners, TypeOK, Request
    <2>4. CASE RemoveMember(req[q].room, req[q].target)
        BY <1>2, <2>4, RoleWrites DEF RemoveMember, OwnerRoleIsOwners, TypeOK, Request
    <2>5. CASE DeleteRoom(q)
        BY <1>2, <2>5, RoleWrites DEF DeleteRoom, OwnerRoleIsOwners, TypeOK, Request
    <2> QED BY <1>2, <2>1, <2>2, <2>3, <2>4, <2>5, RoleWrites
<1>3. ASSUME NEW d \in Users, DeleteUser(d) PROVE OwnerRoleIsOwners'
    BY <1>3, DeleteUserRows DEF OwnerRoleIsOwners
<1>4. CASE UNCHANGED vars
    BY <1>1, <1>4 DEF vars
<1> QED BY <1>1, <1>2, <1>3, <1>4, BeginCalls DEF Next, Call

\* The inductive invariant about roles.
RolesInv == TypeOK /\ RequestsOK /\ CreatedOnce /\ OwnerRoleIsOwners

LEMMA RolesInit == Init => RolesInv
BY RoomsAssumption DEF Init, RolesInv, TypeOK, Roles, RequestsOK, RequestOK, CreatedOnce, OwnerRoleIsOwners

LEMMA RolesStep == RolesInv /\ [Next]_vars => RolesInv'
BY RoomsTypeStep, RequestsStep, CreatedOnceStep, OwnerRoleStep DEF RolesInv

\* The role owner never leaves the owner, whatever requests race each other.
THEOREM OwnerRoleAlwaysOwners == Spec => []OwnerRoleIsOwners
<1>1. RolesInv => OwnerRoleIsOwners
    BY DEF RolesInv
<1> QED BY <1>1, RolesInit, RolesStep, PTL DEF Spec

\* Admins are made by the owner only, however long ago a request was checked
\* (room_service.go:138-155).
THEOREM AdminsAreMadeByOwner == Spec => AdminsByOwner
<1>1. RolesInv /\ [Next]_vars =>
          [\A r \in RoomIds, u \in Users :
              role'[r][u] = "admin" /\ role[r][u] # "admin" =>
                  \E q \in Requests : /\ At(q, "set_role", "write")
                                      /\ req[q].room = r /\ req[q].by = OwnerOf[r]
                                      /\ req[q].target = u /\ req[q].role = "admin"]_vars
    <2> SUFFICES ASSUME RolesInv, [Next]_vars, NEW r \in RoomIds, NEW u \in Users,
                        role'[r][u] = "admin", role[r][u] # "admin"
                 PROVE \E q \in Requests : /\ At(q, "set_role", "write")
                                           /\ req[q].room = r /\ req[q].by = OwnerOf[r]
                                           /\ req[q].target = u /\ req[q].role = "admin"
        OBVIOUS
    <2>1. PICK q \in Requests : Statement(q) /\ role' # role
        <3>1. \A d \in Users : ~DeleteUser(d)
            BY DeleteUserRows DEF RolesInv
        <3> QED BY <3>1 DEF Next, Begin, Call, vars
    <2>2. TypeOK /\ RequestsOK /\ req[q] \in Request /\ RequestOK(q)
        BY <2>1, RoleWrites DEF RolesInv
    <2>3. CASE \E new \in {"owner", "member"} : AddMember(req[q].room, req[q].by, new)
        BY <2>2, <2>3 DEF AddMember, TypeOK, Request
    <2>4. CASE At(q, "set_role", "write") /\ SetMemberRole(req[q].room, req[q].target, req[q].role)
        <3>1. req[q].room = r /\ req[q].target = u /\ req[q].role = "admin"
            BY <2>2, <2>4 DEF SetMemberRole, TypeOK, Request
        <3> QED BY <2>2, <2>4, <3>1 DEF RequestOK, At, Doing
    <2>5. CASE RemoveMember(req[q].room, req[q].target)
        BY <2>2, <2>5 DEF RemoveMember, TypeOK, Request
    <2>6. CASE DeleteRoom(q)
        BY <2>2, <2>6 DEF DeleteRoom, TypeOK, Request
    <2> QED BY <2>1, <2>2, <2>3, <2>4, <2>5, <2>6, RoleWrites
<1> QED BY <1>1, RolesInit, RolesStep, PTL DEF Spec, AdminsByOwner

-----------------------------------------------------------------------------
(* Invites. *)

Accepting(q, r, u, v) ==
    At(q, "accept", "add") /\ req[q].room = r /\ req[q].by = u /\ req[q].target = v

\* An accept that is between its statements: the invite is accepted, or went with
\* its inviter, and the membership is still to come.
AcceptOK(r, u, v) ==
    /\ Live(r) /\ u \notin gone /\ v \notin gone => invite[r][u][v] = "accepted"
    /\ Live(r) /\ u \notin gone /\ v \in gone => u \in freed[r]
    /\ room[r] = "private" /\ u # OwnerOf[r] /\ u \notin gone =>
          u \in freed[r] \/ (role[r][u] = "none" /\ u \notin kicked[r])

AcceptsOK == \A q \in Requests, r \in RoomIds, u, v \in Users : Accepting(q, r, u, v) => AcceptOK(r, u, v)

\* One accept per invite gets past its first statement (invite_repo.go:53).
AcceptedOnce ==
    \A p, q \in Requests, r \in RoomIds, u, v \in Users :
        Accepting(p, r, u, v) /\ Accepting(q, r, u, v) => p = q

KickedAccepted == \A r \in RoomIds : \A u \in kicked[r] : Accepted(r, u)

\* AcceptedIsMember, with an accept as the only request that may be adding.
AcceptedLeads ==
    \A r \in RoomIds, u \in Users : Accepted(r, u) =>
        \/ role[r][u] # "none" \/ u \in kicked[r] \/ u \in cut[r]
        \/ \E q \in Requests, v \in Users : Accepting(q, r, u, v)

InvitesInv ==
    /\ RowsLive /\ InvitesRefer /\ AcceptsOK /\ AcceptedOnce /\ KickedAccepted
    /\ PrivateByInvite /\ KickIsFinal /\ AcceptedLeads

\* Steps that change no rows and leave the accepts where they are.
LEMMA QuietInvites ==
    ASSUME InvitesInv, UNCHANGED <<room, role, invite, gone, kicked, cut, freed>>,
           \A p \in Requests, r \in RoomIds, u, v \in Users : Accepting(p, r, u, v)' <=> Accepting(p, r, u, v)
    PROVE InvitesInv'
<1>1. \A r \in RoomIds : (Live(r)' <=> Live(r)) /\ \A u \in Users : Accepted(r, u)' <=> Accepted(r, u)
    BY DEF Live, Accepted
<1>2. RowsLive' /\ InvitesRefer'
    BY <1>1 DEF InvitesInv, RowsLive, InvitesRefer
<1>3. AcceptsOK' /\ AcceptedOnce'
    BY <1>1 DEF InvitesInv, AcceptsOK, AcceptOK, AcceptedOnce
<1>4. KickedAccepted'
    BY DEF InvitesInv, KickedAccepted, Accepted
<1>5. PrivateByInvite' /\ KickIsFinal'
    BY <1>1 DEF InvitesInv, PrivateByInvite, KickIsFinal
<1>6. AcceptedLeads'
    BY <1>1 DEF InvitesInv, AcceptedLeads
<1> QED BY <1>2, <1>3, <1>4, <1>5, <1>6 DEF InvitesInv

\* A new room has no rows yet.
LEMMA CreateRoomInvites ==
    ASSUME RolesInv, InvitesInv, NEW q \in Requests, CreateRoom(q) PROVE InvitesInv'
<1>1. req[q] \in Request /\ TypeOK /\ room[req[q].room] = "none"
    BY AtReq DEF RolesInv, CreateRoom, RequestsOK, RequestOK, At, Doing, Operations
<1>2. PICK r0 \in RoomIds : r0 = req[q].room
    BY <1>1 DEF Request
<1>3. room[r0] = "none" /\ ~Live(r0)
    BY <1>1, <1>2, RoomsAssumption DEF Live
<1>4. \A p \in Requests, r \in RoomIds, u, v \in Users :
          /\ Accepting(p, r, u, v)' <=> Accepting(p, r, u, v)
          /\ Accepting(p, r, u, v) => r # r0
    <2>1. \A p \in Requests : req[p] # Idle /\ req[p].op = "accept" => req[p].room # r0
        BY <1>3 DEF RolesInv, RequestsOK, RequestOK, Doing
    <2> QED BY <1>1, <2>1, ContinueReq DEF CreateRoom, Accepting, At
<1>5. /\ \A r \in RoomIds \ {r0} : room'[r] = room[r] /\ (Live(r)' <=> Live(r))
      /\ UNCHANGED <<role, invite, gone, kicked, cut, freed>>
    BY <1>1, <1>2 DEF CreateRoom, TypeOK, Live
<1>6. /\ \A u \in Users : role[r0][u] = "none" /\ \A v \in Users : invite[r0][u][v] = "none"
      /\ kicked[r0] = {}
    BY <1>3 DEF InvitesInv, RowsLive
<1>7. RowsLive' /\ InvitesRefer'
    BY <1>5, <1>6 DEF InvitesInv, RowsLive, InvitesRefer
<1>8. AcceptsOK' /\ AcceptedOnce'
    BY <1>4, <1>5 DEF InvitesInv, AcceptsOK, AcceptOK, AcceptedOnce
<1>9. KickedAccepted' /\ AcceptedLeads'
    BY <1>4, <1>5 DEF InvitesInv, KickedAccepted, AcceptedLeads, Accepted
<1>10. PrivateByInvite' /\ KickIsFinal'
    BY <1>5, <1>6 DEF InvitesInv, PrivateByInvite, KickIsFinal, Accepted
<1> QED BY <1>7, <1>8, <1>9, <1>10 DEF InvitesInv

\* A deleted room loses its rows.
LEMMA DeleteRoomInvites ==
    ASSUME RolesInv, InvitesInv, NEW q \in Requests, DeleteRoom(q) PROVE InvitesInv'
<1>1. req[q] \in Request /\ TypeOK
    BY AtReq DEF RolesInv, DeleteRoom, Operations
<1>2. PICK r0 \in RoomIds : r0 = req[q].room
    BY <1>1 DEF Request
<1>3. \A p \in Requests, r \in RoomIds, u, v \in Users : Accepting(p, r, u, v)' <=> Accepting(p, r, u, v)
    BY <1>1, FinishReq DEF DeleteRoom, Accepting, At
<1>4. /\ \A r \in RoomIds \ {r0} : /\ room'[r] = room[r] /\ role'[r] = role[r] /\ invite'[r] = invite[r]
                                   /\ kicked'[r] = kicked[r] /\ cut'[r] = cut[r] /\ freed'[r] = freed[r]
      /\ room'[r0] = "deleted" /\ kicked'[r0] = {}
      /\ gone' = gone
    BY <1>1, <1>2 DEF DeleteRoom, TypeOK
<1>5. \A u \in Users : role'[r0][u] = "none" /\ \A v \in Users : invite'[r0][u][v] = "none"
    BY <1>1, <1>2 DEF DeleteRoom, TypeOK
<1>6. ~Live(r0)' /\ \A r \in RoomIds \ {r0} : Live(r)' <=> Live(r)
    BY <1>4, RoomsAssumption DEF Live
<1>7. /\ \A u \in Users : ~Accepted(r0, u)'
      /\ \A r \in RoomIds \ {r0}, u \in Users : Accepted(r, u)' <=> Accepted(r, u)
    BY <1>4, <1>5 DEF Accepted
<1>8. RowsLive' /\ InvitesRefer'
    BY <1>4, <1>5, <1>6 DEF InvitesInv, RowsLive, InvitesRefer
<1>9. AcceptsOK' /\ AcceptedOnce'
    <2>1. ASSUME NEW r \in RoomIds, NEW u \in Users, NEW v \in Users, AcceptOK(r, u, v)
          PROVE AcceptOK(r, u, v)'
        BY <2>1, <1>4, <1>6 DEF AcceptOK
    <2> QED BY <1>3, <2>1 DEF InvitesInv, AcceptsOK, AcceptedOnce
<1>10. KickedAccepted' /\ AcceptedLeads'
    <2>1. KickedAccepted'
        BY <1>1, <1>4, <1>7 DEF InvitesInv, KickedAccepted, TypeOK
    <2>2. AcceptedLeads'
        BY <1>3, <1>4, <1>7 DEF InvitesInv, AcceptedLeads
    <2> QED BY <2>1, <2>2
<1>11. PrivateByInvite' /\ KickIsFinal'
    BY <1>4, <1>5, <1>7 DEF InvitesInv, PrivateByInvite, KickIsFinal
<1> QED BY <1>8, <1>9, <1>10, <1>11 DEF InvitesInv

\* The foreign keys of a deleted user: who was in a room by an invite of his stays,
\* and is in `freed` now (005_room_invites.sql:4-5).
LEMMA DeleteUserInvites ==
    ASSUME RolesInv, InvitesInv, NEW d \in Users, DeleteUser(d) PROVE InvitesInv'
<1>1. TypeOK
    BY DEF RolesInv
<1>2. \A p \in Requests, r \in RoomIds, u, v \in Users : Accepting(p, r, u, v)' <=> Accepting(p, r, u, v)
    BY DEF DeleteUser, Accepting, At
<1> DEFINE Ended(r) ==
              /\ room'[r] = "deleted" /\ kicked'[r] = {}
              /\ \A u \in Users : role'[r][u] = "none" /\ \A v \in Users : invite'[r][u][v] = "none"
           Kept(r) ==
              /\ room'[r] = room[r]
              /\ \A u \in Users : role'[r][u] = IF u = d THEN "none" ELSE role[r][u]
              /\ \A u, v \in Users :
                    invite'[r][u][v] = IF u = d \/ v = d THEN "none" ELSE invite[r][u][v]
              /\ \A u \in Users \ {d} :
                    /\ u \in freed'[r] <=> u \in freed[r] \/ invite[r][u][d] = "accepted"
                    /\ u \in kicked'[r] <=> u \in kicked[r] /\ invite[r][u][d] # "accepted"
                    /\ u \in cut'[r] <=> u \in cut[r] /\ invite[r][u][d] # "accepted"
              /\ d \notin kicked'[r]
<1>3. \A r \in RoomIds : Ended(r) \/ Kept(r)
    BY <1>1, DeleteUserRows
<1>4. d \notin gone /\ gone' = gone \cup {d}
    BY DEF DeleteUser
<1>5. \A r \in RoomIds : (Ended(r) => ~Live(r)') /\ (Kept(r) => (Live(r)' <=> Live(r)))
    BY RoomsAssumption DEF Live
<1>6. \A r \in RoomIds, u \in Users : Accepted(r, u)' =>
          Kept(r) /\ u # d /\ Accepted(r, u) /\ invite[r][u][d] # "accepted"
    <2> SUFFICES ASSUME NEW r \in RoomIds, NEW u \in Users, NEW v \in Users, invite'[r][u][v] = "accepted"
                 PROVE Kept(r) /\ u # d /\ Accepted(r, u) /\ invite[r][u][d] # "accepted"
        BY DEF Accepted
    <2>1. Kept(r)
        BY <1>3
    <2>2. u # d /\ v # d /\ invite[r][u][v] = "accepted"
        BY <2>1
    <2>3. invite[r][u][d] # "accepted"
        BY <2>2 DEF InvitesInv, InvitesRefer
    <2> QED BY <2>1, <2>2, <2>3 DEF Accepted
<1>7. RowsLive'
    <2> SUFFICES ASSUME NEW r \in RoomIds, ~Live(r)'
                 PROVE /\ \A u \in Users : role'[r][u] = "none" /\ \A v \in Users : invite'[r][u][v] = "none"
                       /\ kicked'[r] = {}
        BY DEF RowsLive
    <2>1. CASE Kept(r)
        <3>1. ~Live(r)
            BY <1>5, <2>1
        <3>2. (\A u \in Users : role[r][u] = "none" /\ \A v \in Users : invite[r][u][v] = "none") /\ kicked[r] = {}
            BY <3>1 DEF InvitesInv, RowsLive
        <3>3. kicked'[r] \subseteq Users
            BY <1>1, RoomsTypeStep DEF Next, TypeOK
        <3> QED BY <2>1, <3>2, <3>3
    <2> QED BY <1>3, <2>1
<1>8. InvitesRefer'
    <2>1. \A r \in RoomIds, u, v \in Users : invite'[r][u][v] # "none" =>
              u # d /\ v # d /\ invite[r][u][v] # "none"
        BY <1>3
    <2> QED BY <1>4, <2>1 DEF InvitesInv, InvitesRefer
<1>9. AcceptsOK'
    <2> SUFFICES ASSUME NEW p \in Requests, NEW r \in RoomIds, NEW u \in Users, NEW v \in Users,
                        Accepting(p, r, u, v)
                 PROVE AcceptOK(r, u, v)'
        BY <1>2 DEF AcceptsOK
    <2>1. AcceptOK(r, u, v)
        BY DEF InvitesInv, AcceptsOK
    <2>2. CASE Ended(r)
        BY <1>5, <2>2 DEF AcceptOK
    <2>3. CASE Kept(r)
        <3>1. Live(r)' /\ u \notin gone' /\ v \notin gone' => invite'[r][u][v] = "accepted"
            BY <1>4, <1>5, <2>1, <2>3 DEF AcceptOK
        <3>2. Live(r)' /\ u \notin gone' /\ v \in gone' => u \in freed'[r]
            BY <1>4, <1>5, <2>1, <2>3 DEF AcceptOK
        <3>3. room'[r] = "private" /\ u # OwnerOf[r] /\ u \notin gone' =>
                  u \in freed'[r] \/ (role'[r][u] = "none" /\ u \notin kicked'[r])
            BY <1>4, <2>1, <2>3 DEF AcceptOK
        <3> QED BY <3>1, <3>2, <3>3 DEF AcceptOK
    <2> QED BY <1>3, <2>2, <2>3
<1>10. AcceptedOnce'
    BY <1>2 DEF InvitesInv, AcceptedOnce
<1>11. KickedAccepted'
    <2> SUFFICES ASSUME NEW r \in RoomIds, NEW u \in kicked'[r] PROVE Accepted(r, u)'
        BY DEF KickedAccepted
    <2>1. Kept(r) /\ u \in Users \ {d}
        <3>1. kicked'[r] \subseteq Users
            BY <1>1, RoomsTypeStep DEF Next, TypeOK
        <3> QED BY <1>3, <3>1
    <2>2. u \in kicked[r] /\ invite[r][u][d] # "accepted"
        BY <2>1
    <2>3. PICK v \in Users : invite[r][u][v] = "accepted"
        BY <2>2 DEF InvitesInv, KickedAccepted, Accepted
    <2>4. invite'[r][u][v] = "accepted"
        BY <2>1, <2>2, <2>3
    <2> QED BY <2>4 DEF Accepted
<1>12. PrivateByInvite'
    <2> SUFFICES ASSUME NEW r \in RoomIds, NEW u \in Users, room'[r] = "private", role'[r][u] # "none"
                 PROVE u = OwnerOf[r] \/ Accepted(r, u)' \/ u \in freed'[r]
        BY DEF PrivateByInvite
    <2>1. Kept(r) /\ u # d /\ room[r] = "private" /\ role[r][u] # "none"
        BY <1>3
    <2>2. CASE Accepted(r, u)
        <3>1. PICK v \in Users : invite[r][u][v] = "accepted"
            BY <2>2 DEF Accepted
        <3>2. CASE v = d
            BY <2>1, <3>1, <3>2
        <3>3. CASE v # d
            <4>1. invite'[r][u][v] = "accepted"
                BY <2>1, <3>1, <3>3
            <4> QED BY <4>1 DEF Accepted
        <3> QED BY <3>2, <3>3
    <2>3. CASE u = OwnerOf[r] \/ u \in freed[r]
        BY <2>1, <2>3
    <2> QED BY <2>1, <2>2, <2>3 DEF InvitesInv, PrivateByInvite
<1>13. KickIsFinal'
    <2> SUFFICES ASSUME NEW r \in RoomIds, NEW u \in kicked'[r] \ {OwnerOf[r]}, room'[r] = "private",
                        role'[r][u] # "none"
                 PROVE u \in freed'[r]
        BY DEF KickIsFinal
    <2>1. Kept(r) /\ u \in Users \ {d}
        <3>1. kicked'[r] \subseteq Users
            BY <1>1, RoomsTypeStep DEF Next, TypeOK
        <3> QED BY <1>3, <3>1
    <2>2. u \in kicked[r] /\ role[r][u] # "none" /\ room[r] = "private"
        BY <2>1
    <2>3. u \in freed[r]
        BY <2>2 DEF InvitesInv, KickIsFinal
    <2> QED BY <2>1, <2>3
<1>14. AcceptedLeads'
    <2> SUFFICES ASSUME NEW r \in RoomIds, NEW u \in Users, Accepted(r, u)'
                 PROVE \/ role'[r][u] # "none" \/ u \in kicked'[r] \/ u \in cut'[r]
                       \/ \E q \in Requests, v \in Users : Accepting(q, r, u, v)'
        BY DEF AcceptedLeads
    <2>1. Kept(r) /\ u # d /\ Accepted(r, u) /\ invite[r][u][d] # "accepted"
        BY <1>6
    <2>2. \/ role[r][u] # "none" \/ u \in kicked[r] \/ u \in cut[r]
          \/ \E q \in Requests, v \in Users : Accepting(q, r, u, v)
        BY <2>1 DEF InvitesInv, AcceptedLeads
    <2>3. /\ role'[r][u] = role[r][u] /\ (u \in kicked[r] => u \in kicked'[r])
          /\ u \in cut[r] => u \in cut'[r]
        BY <2>1
    <2> QED BY <1>2, <2>2, <2>3
<1> QED BY <1>7, <1>8, <1>9, <1>10, <1>11, <1>12, <1>13, <1>14 DEF InvitesInv

\* Statements that change neither rooms nor rows, and are not of an accept's
\* second half.
LEMMA ReadInvites ==
    ASSUME RolesInv, InvitesInv, NEW q \in Requests, Statement(q),
           \/ InviteRead(q) \/ InviteCheck(q) \/ InviteeReads(q) \/ ReadOwnRole(q) \/ SetRoleCheck(q)
           \/ KickCheck(q) \/ JoinRead(q) \/ Refused(q) \/ (Aborted(q) /\ ~At(q, "accept", "add"))
    PROVE InvitesInv'
<1>1. UNCHANGED <<room, role, invite, gone, kicked, cut, freed>>
    BY DEF InviteRead, InviteCheck, InviteeReads, ReadOwnRole, SetRoleCheck, KickCheck, JoinRead,
       Refused, Aborted
<1>2. TypeOK
    BY DEF RolesInv
<1>3. \A p \in Requests \ {q} : req'[p] = req[p]
    BY <1>2, StatementReq DEF GoesOn
<1>4. ~At(q, "accept", "add")
    BY DEF InviteRead, InviteCheck, InviteeReads, ReadOwnRole, SetRoleCheck, KickCheck, JoinRead,
       Refused, Aborted, At
<1>5. ~At(q, "accept", "add")'
    <2>1. CASE Finish(q)
        BY <1>2, <2>1, FinishReq DEF At
    <2>2. CASE InviteRead(q) \/ InviteCheck(q) \/ InviteeReads(q) \/ ReadOwnRole(q)
               \/ SetRoleCheck(q) \/ KickCheck(q)
        <3>1. req'[q] = Idle \/ \E next \in {"check", "write"} : GoesOn(q, next)
            BY <1>2, <2>2, StatementReq DEF CreateRoom, InviteRead, InviteCheck, InviteeReads, ReadOwnRole,
               SetRoleCheck, KickCheck, AcceptWrite, JoinRead, At
        <3> QED BY <3>1 DEF At, GoesOn
    <2>3. CASE JoinRead(q)
        <3>1. req[q].op = "ws_join" /\ req[q] \in Request
            BY <1>2, <2>3, AtReq DEF JoinRead, At, Operations
        <3>2. Continue(q, "add")
            BY <2>3 DEF JoinRead
        <3> QED BY <1>2, <3>1, <3>2, ContinueReq DEF At
    <2> QED BY <2>1, <2>2, <2>3 DEF Refused, Aborted
<1>6. \A p \in Requests, r \in RoomIds, u, v \in Users : Accepting(p, r, u, v)' <=> Accepting(p, r, u, v)
    BY <1>3, <1>4, <1>5 DEF Accepting, At
<1> QED BY <1>1, <1>6, QuietInvites

\* A request that ends without being an accept.
LEMMA EndsQuietly ==
    ASSUME TypeOK, NEW q \in Requests, Finish(q), ~At(q, "accept", "add")
    PROVE \A p \in Requests, r \in RoomIds, u, v \in Users : Accepting(p, r, u, v)' <=> Accepting(p, r, u, v)
BY FinishReq DEF Accepting, At

\* An invite is sent or declined.
LEMMA InviteChanges ==
    ASSUME TypeOK, InvitesInv, NEW q \in Requests, Finish(q), ~At(q, "accept", "add"),
           NEW r0 \in RoomIds, NEW u0 \in Users, NEW v0 \in Users,
           \/ invite' = [invite EXCEPT ![r0][u0][v0] = "pending"] /\ MayInsert(r0, u0, v0)
           \/ invite' = [invite EXCEPT ![r0][u0][v0] = "declined"] /\ invite[r0][u0][v0] = "pending",
           UNCHANGED <<room, role, gone, kicked, cut, freed>>
    PROVE InvitesInv'
<1>1. PICK st \in {"pending", "declined"} :
          /\ \A r \in RoomIds, u, v \in Users :
                invite'[r][u][v] = IF r = r0 /\ u = u0 /\ v = v0 THEN st ELSE invite[r][u][v]
          /\ \/ st = "pending" /\ MayInsert(r0, u0, v0)
             \/ st = "declined" /\ invite[r0][u0][v0] = "pending"
    BY DEF TypeOK
<1>2. \A p \in Requests, r \in RoomIds, u, v \in Users : Accepting(p, r, u, v)' <=> Accepting(p, r, u, v)
    BY EndsQuietly
<1>3. /\ Live(r0) /\ u0 \notin gone /\ v0 \notin gone
      /\ \A w \in Users \ {v0} : invite[r0][u0][w] = "none"
      /\ invite[r0][u0][v0] # "accepted"
    <2>1. CASE MayInsert(r0, u0, v0)
        BY <2>1 DEF MayInsert
    <2>2. CASE invite[r0][u0][v0] = "pending"
        BY <2>2 DEF InvitesInv, RowsLive, InvitesRefer
    <2> QED BY <1>1, <2>1, <2>2
<1>4. \A r \in RoomIds, u \in Users : (Live(r)' <=> Live(r)) /\ (Accepted(r, u)' <=> Accepted(r, u))
    <2>1. \A r \in RoomIds, u, v \in Users : invite'[r][u][v] = "accepted" <=> invite[r][u][v] = "accepted"
        BY <1>1, <1>3
    <2> QED BY <2>1 DEF Live, Accepted
<1>5. RowsLive'
    BY <1>1, <1>3, <1>4 DEF InvitesInv, RowsLive
<1>6. InvitesRefer'
    BY <1>1, <1>3 DEF InvitesInv, InvitesRefer
<1>7. AcceptsOK'
    <2> SUFFICES ASSUME NEW p \in Requests, NEW r \in RoomIds, NEW u \in Users, NEW v \in Users,
                        Accepting(p, r, u, v)
                 PROVE AcceptOK(r, u, v)'
        BY <1>2 DEF AcceptsOK
    <2>1. AcceptOK(r, u, v)
        BY DEF InvitesInv, AcceptsOK
    <2> QED BY <1>1, <1>3, <1>4, <2>1 DEF AcceptOK
<1>8. AcceptedOnce' /\ KickIsFinal'
    BY <1>2 DEF InvitesInv, AcceptedOnce, KickIsFinal
<1>9. KickedAccepted' /\ PrivateByInvite'
    <2>1. KickedAccepted'
        BY <1>4 DEF InvitesInv, KickedAccepted, TypeOK
    <2>2. PrivateByInvite'
        BY <1>4 DEF InvitesInv, PrivateByInvite
    <2> QED BY <2>1, <2>2
<1>10. AcceptedLeads'
    BY <1>2, <1>4 DEF InvitesInv, AcceptedLeads
<1> QED BY <1>5, <1>6, <1>7, <1>8, <1>9, <1>10 DEF InvitesInv

\* A role is given to somebody who needs no invite for it.
LEMMA RoleChanges ==
    ASSUME TypeOK, InvitesInv, NEW q \in Requests, Finish(q), ~At(q, "accept", "add"),
           NEW r0 \in RoomIds, NEW u0 \in Users, NEW new \in Roles,
           Live(r0), role[r0][u0] # "none" \/ u0 = OwnerOf[r0] \/ room[r0] # "private",
           role' = [role EXCEPT ![r0][u0] = new], UNCHANGED <<room, invite, gone, kicked, cut, freed>>
    PROVE InvitesInv'
<1>1. \A r \in RoomIds, u \in Users : role'[r][u] = IF r = r0 /\ u = u0 THEN new ELSE role[r][u]
    BY DEF TypeOK
<1>2. \A p \in Requests, r \in RoomIds, u, v \in Users : Accepting(p, r, u, v)' <=> Accepting(p, r, u, v)
    BY EndsQuietly
<1>3. new # "none"
    BY DEF Roles
<1>4. \A r \in RoomIds, u \in Users : (Live(r)' <=> Live(r)) /\ (Accepted(r, u)' <=> Accepted(r, u))
    BY DEF Live, Accepted
<1>5. RowsLive' /\ InvitesRefer'
    BY <1>1, <1>4 DEF InvitesInv, RowsLive, InvitesRefer
<1>6. AcceptsOK'
    <2> SUFFICES ASSUME NEW p \in Requests, NEW r \in RoomIds, NEW u \in Users, NEW v \in Users,
                        Accepting(p, r, u, v)
                 PROVE AcceptOK(r, u, v)'
        BY <1>2 DEF AcceptsOK
    <2>1. AcceptOK(r, u, v)
        BY DEF InvitesInv, AcceptsOK
    <2> QED BY <1>1, <1>4, <2>1 DEF AcceptOK
<1>7. AcceptedOnce' /\ KickedAccepted'
    <2>1. KickedAccepted'
        BY <1>4 DEF InvitesInv, KickedAccepted, TypeOK
    <2> QED BY <1>2, <2>1 DEF InvitesInv, AcceptedOnce
<1>8. PrivateByInvite'
    BY <1>1, <1>4 DEF InvitesInv, PrivateByInvite
<1>9. KickIsFinal'
    <2> SUFFICES ASSUME NEW r \in RoomIds, NEW u \in kicked[r] \ {OwnerOf[r]}, room[r] = "private",
                        role'[r][u] # "none"
                 PROVE u \in freed[r]
        BY DEF KickIsFinal
    <2>1. u \in Users
        BY DEF TypeOK
    <2>2. role[r][u] # "none"
        BY <1>1, <2>1
    <2> QED BY <2>2 DEF InvitesInv, KickIsFinal
<1>10. AcceptedLeads'
    BY <1>1, <1>2, <1>3, <1>4 DEF InvitesInv, AcceptedLeads
<1> QED BY <1>5, <1>6, <1>7, <1>8, <1>9, <1>10 DEF InvitesInv

\* The first half of an accept (room_service.go:98).
LEMMA AcceptWriteInvites ==
    ASSUME RolesInv, InvitesInv, NEW q \in Requests, AcceptWrite(q) PROVE InvitesInv'
<1>1. req[q] \in Request /\ TypeOK
    BY AtReq DEF RolesInv, AcceptWrite, Operations
<1>2. PICK r0 \in RoomIds, u0 \in Users, v0 \in Users :
          r0 = req[q].room /\ u0 = req[q].by /\ v0 = req[q].target
    BY <1>1 DEF Request
<1>3. /\ invite[r0][u0][v0] = "pending"
      /\ \A r \in RoomIds, u, v \in Users :
            invite'[r][u][v] = IF r = r0 /\ u = u0 /\ v = v0 THEN "accepted" ELSE invite[r][u][v]
    BY <1>1, <1>2 DEF AcceptWrite, Decide, TypeOK
<1>4. \A p \in Requests, r \in RoomIds, u, v \in Users :
          Accepting(p, r, u, v)' <=> Accepting(p, r, u, v) \/ (p = q /\ r = r0 /\ u = u0 /\ v = v0)
    BY <1>1, <1>2, ContinueReq, NotIdle DEF AcceptWrite, Accepting, At
<1>5. /\ Live(r0) /\ u0 \notin gone /\ v0 \notin gone
      /\ \A w \in Users \ {v0} : invite[r0][u0][w] = "none"
    BY <1>3 DEF InvitesInv, RowsLive, InvitesRefer
<1>6. \A p \in Requests : ~Accepting(p, r0, u0, v0)
    BY <1>3, <1>5 DEF InvitesInv, AcceptsOK, AcceptOK
<1>7. UNCHANGED <<room, role, gone, kicked, cut, freed>>
    BY DEF AcceptWrite
<1>8. /\ \A r \in RoomIds : Live(r)' <=> Live(r)
      /\ \A r \in RoomIds, u \in Users : Accepted(r, u)' <=> Accepted(r, u) \/ (r = r0 /\ u = u0)
      /\ ~Accepted(r0, u0)
    <2>1. ~Accepted(r0, u0)
        BY <1>3, <1>5 DEF Accepted
    <2>2. Accepted(r0, u0)'
        BY <1>3 DEF Accepted
    <2>3. \A r \in RoomIds, u \in Users : ~(r = r0 /\ u = u0) => (Accepted(r, u)' <=> Accepted(r, u))
        BY <1>3 DEF Accepted
    <2> QED BY <1>7, <2>1, <2>2, <2>3 DEF Live
<1>9. RowsLive' /\ InvitesRefer'
    <2>1. RowsLive'
        BY <1>3, <1>5, <1>7, <1>8 DEF InvitesInv, RowsLive
    <2>2. InvitesRefer'
        BY <1>3, <1>5, <1>7 DEF InvitesInv, InvitesRefer
    <2> QED BY <2>1, <2>2
<1>10. AcceptsOK'
    <2>1. u0 \notin kicked[r0]
        BY <1>8 DEF InvitesInv, KickedAccepted
    <2>2. u0 # OwnerOf[r0] /\ room[r0] = "private" => role[r0][u0] = "none" \/ u0 \in freed[r0]
        BY <1>8 DEF InvitesInv, PrivateByInvite
    <2>3. AcceptOK(r0, u0, v0)'
        BY <1>3, <1>5, <1>7, <2>1, <2>2 DEF AcceptOK
    <2>4. ASSUME NEW r \in RoomIds, NEW u \in Users, NEW v \in Users, AcceptOK(r, u, v)
          PROVE AcceptOK(r, u, v)'
        BY <1>3, <1>7, <1>8, <2>4 DEF AcceptOK
    <2> QED BY <1>4, <2>3, <2>4 DEF InvitesInv, AcceptsOK
<1>11. AcceptedOnce'
    BY <1>4, <1>6 DEF InvitesInv, AcceptedOnce
<1>12. KickedAccepted' /\ PrivateByInvite' /\ KickIsFinal'
    <2>1. KickedAccepted'
        BY <1>1, <1>7, <1>8 DEF InvitesInv, KickedAccepted, TypeOK
    <2>2. PrivateByInvite'
        BY <1>7, <1>8 DEF InvitesInv, PrivateByInvite
    <2>3. KickIsFinal'
        BY <1>7 DEF InvitesInv, KickIsFinal
    <2> QED BY <2>1, <2>2, <2>3
<1>13. AcceptedLeads'
    BY <1>4, <1>7, <1>8 DEF InvitesInv, AcceptedLeads
<1> QED BY <1>9, <1>10, <1>11, <1>12, <1>13 DEF InvitesInv

\* The second half of an accept (room_service.go:101), or its failure.
LEMMA AcceptAddInvites ==
    ASSUME RolesInv, InvitesInv, NEW q \in Requests,
           AcceptAdd(q) \/ (Aborted(q) /\ At(q, "accept", "add"))
    PROVE InvitesInv'
<1>1. req[q] \in Request /\ TypeOK /\ At(q, "accept", "add") /\ Finish(q)
    BY AtReq DEF RolesInv, AcceptAdd, Aborted, Operations
<1>2. PICK r0 \in RoomIds, u0 \in Users, v0 \in Users :
          r0 = req[q].room /\ u0 = req[q].by /\ v0 = req[q].target
    BY <1>1 DEF Request
<1>3. \A p \in Requests, r \in RoomIds, u, v \in Users :
          Accepting(p, r, u, v)' <=> Accepting(p, r, u, v) /\ p # q
    BY <1>1, FinishReq DEF Accepting, At
<1>4. Accepting(q, r0, u0, v0) /\ AcceptOK(r0, u0, v0)
    BY <1>1, <1>2 DEF Accepting, InvitesInv, AcceptsOK
<1>5. \A r \in RoomIds, u, v \in Users : Accepting(q, r, u, v) => r = r0 /\ u = u0 /\ v = v0
    BY <1>2 DEF Accepting
<1>6. UNCHANGED <<room, invite, gone, kicked, freed>>
    BY DEF AcceptAdd, Aborted
<1>7. \A r \in RoomIds, u \in Users : (Live(r)' <=> Live(r)) /\ (Accepted(r, u)' <=> Accepted(r, u))
    BY <1>6 DEF Live, Accepted
<1>8. InvitesRefer' /\ AcceptedOnce' /\ KickedAccepted'
    <2>1. KickedAccepted'
        BY <1>1, <1>6, <1>7 DEF InvitesInv, KickedAccepted, TypeOK
    <2> QED BY <1>3, <1>6, <2>1 DEF InvitesInv, InvitesRefer, AcceptedOnce
<1>9. CASE AcceptAdd(q) /\ Live(r0) /\ u0 \notin gone
    <2>1. \A r \in RoomIds, u \in Users : role'[r][u] = IF r = r0 /\ u = u0 THEN "member" ELSE role[r][u]
        BY <1>1, <1>2, <1>9 DEF AcceptAdd, AddMember, TypeOK
    <2>2. UNCHANGED cut
        BY <1>9 DEF AcceptAdd
    <2>3. Accepted(r0, u0) \/ u0 \in freed[r0]
        BY <1>4, <1>9 DEF AcceptOK, Accepted
    <2>4. room[r0] = "private" /\ u0 # OwnerOf[r0] => u0 \in freed[r0] \/ u0 \notin kicked[r0]
        BY <1>4, <1>9 DEF AcceptOK
    <2>5. RowsLive'
        BY <1>6, <1>7, <1>9, <2>1 DEF InvitesInv, RowsLive
    <2>6. AcceptsOK'
        <3> SUFFICES ASSUME NEW p \in Requests \ {q}, NEW r \in RoomIds, NEW u \in Users, NEW v \in Users,
                            Accepting(p, r, u, v)
                     PROVE AcceptOK(r, u, v)'
            BY <1>3 DEF AcceptsOK
        <3>1. AcceptOK(r, u, v)
            BY DEF InvitesInv, AcceptsOK
        <3>2. r = r0 /\ u = u0 => v # v0
            BY <1>4 DEF InvitesInv, AcceptedOnce
        <3>3. r = r0 /\ u = u0 => u0 \in freed[r0]
            <4> SUFFICES ASSUME r = r0, u = u0, u0 \notin freed[r0] PROVE FALSE
                OBVIOUS
            <4>1. v0 \notin gone /\ v \notin gone
                BY <1>4, <1>9, <3>1 DEF AcceptOK
            <4>2. invite[r0][u0][v0] = "accepted" /\ invite[r0][u0][v] = "accepted"
                BY <1>4, <1>9, <3>1, <4>1 DEF AcceptOK
            <4> QED BY <3>2, <4>2 DEF InvitesInv, InvitesRefer
        <3> QED BY <1>6, <1>7, <2>1, <3>1, <3>3 DEF AcceptOK
    <2>7. PrivateByInvite' /\ KickIsFinal'
        <3>1. PrivateByInvite'
            BY <1>6, <1>7, <2>1, <2>3 DEF InvitesInv, PrivateByInvite
        <3>2. KickIsFinal'
            <4> SUFFICES ASSUME NEW r \in RoomIds, NEW u \in kicked[r] \ {OwnerOf[r]}, room[r] = "private",
                                role'[r][u] # "none"
                         PROVE u \in freed[r]
                BY <1>6 DEF KickIsFinal
            <4>1. u \in Users
                BY <1>1 DEF TypeOK
            <4> QED BY <2>1, <2>4, <4>1 DEF InvitesInv, KickIsFinal
        <3> QED BY <3>1, <3>2
    <2>8. AcceptedLeads'
        BY <1>3, <1>5, <1>6, <1>7, <2>1, <2>2 DEF InvitesInv, AcceptedLeads
    <2> QED BY <1>8, <2>5, <2>6, <2>7, <2>8 DEF InvitesInv
<1>10. CASE /\ UNCHANGED role
            /\ \/ UNCHANGED cut /\ (~Live(r0) \/ u0 \in gone)
               \/ \A r \in RoomIds : cut'[r] = IF r = r0 THEN cut[r] \cup {u0} ELSE cut[r]
    <2>1. RowsLive'
        BY <1>6, <1>7, <1>10 DEF InvitesInv, RowsLive
    <2>2. AcceptsOK'
        <3>1. ASSUME NEW r \in RoomIds, NEW u \in Users, NEW v \in Users, AcceptOK(r, u, v)
              PROVE AcceptOK(r, u, v)'
            BY <1>6, <1>7, <1>10, <3>1 DEF AcceptOK
        <3> QED BY <1>3, <3>1 DEF InvitesInv, AcceptsOK
    <2>3. PrivateByInvite' /\ KickIsFinal'
        BY <1>6, <1>7, <1>10 DEF InvitesInv, PrivateByInvite, KickIsFinal
    <2>4. AcceptedLeads'
        <3>1. CASE UNCHANGED cut /\ (~Live(r0) \/ u0 \in gone)
            <4>1. ~Accepted(r0, u0)
                BY <3>1 DEF InvitesInv, RowsLive, InvitesRefer, Accepted
            <4> QED BY <1>3, <1>5, <1>6, <1>7, <1>10, <3>1, <4>1 DEF InvitesInv, AcceptedLeads
        <3>2. CASE \A r \in RoomIds : cut'[r] = IF r = r0 THEN cut[r] \cup {u0} ELSE cut[r]
            <4>1. (\A r \in RoomIds : cut[r] \subseteq cut'[r]) /\ u0 \in cut'[r0]
                BY <3>2
            <4> QED BY <1>3, <1>5, <1>6, <1>7, <1>10, <4>1 DEF InvitesInv, AcceptedLeads
        <3> QED BY <1>10, <3>1, <3>2
    <2> QED BY <1>8, <2>1, <2>2, <2>3, <2>4 DEF InvitesInv
<1> QED BY <1>1, <1>2, <1>9, <1>10 DEF AcceptAdd, AddMember, Aborted, TypeOK

\* A member is kicked (room_service.go:180).
LEMMA KickWriteInvites ==
    ASSUME RolesInv, InvitesInv, NEW q \in Requests, KickWrite(q) PROVE InvitesInv'
<1>1. req[q] \in Request /\ TypeOK /\ Finish(q) /\ ~At(q, "accept", "add")
    BY AtReq DEF RolesInv, KickWrite, At, Operations
<1>2. PICK r0 \in RoomIds, u0 \in Users : r0 = req[q].room /\ u0 = req[q].target
    BY <1>1 DEF Request
<1>3. \A p \in Requests, r \in RoomIds, u, v \in Users : Accepting(p, r, u, v)' <=> Accepting(p, r, u, v)
    BY <1>1, EndsQuietly
<1>4. \A r \in RoomIds, u \in Users : role'[r][u] = IF r = r0 /\ u = u0 THEN "none" ELSE role[r][u]
    BY <1>1, <1>2 DEF KickWrite, RemoveMember, TypeOK
<1>5. \A r \in RoomIds :
          kicked'[r] = IF r = r0 /\ role[r0][u0] # "none" /\ Accepted(r0, u0)
                       THEN kicked[r] \cup {u0} ELSE kicked[r]
    BY <1>1, <1>2 DEF KickWrite, RemoveMember, TypeOK
<1>6. UNCHANGED <<room, invite, gone, cut, freed>>
    BY DEF KickWrite
<1>7. \A r \in RoomIds, u \in Users : (Live(r)' <=> Live(r)) /\ (Accepted(r, u)' <=> Accepted(r, u))
    BY <1>6 DEF Live, Accepted
<1>8. RowsLive' /\ InvitesRefer'
    <2>1. RowsLive'
        <3> SUFFICES ASSUME NEW r \in RoomIds, ~Live(r)
                     PROVE /\ \A u \in Users : /\ role'[r][u] = "none"
                                               /\ \A v \in Users : invite[r][u][v] = "none"
                           /\ kicked'[r] = {}
            BY <1>6, <1>7 DEF RowsLive
        <3>1. /\ \A u \in Users : role[r][u] = "none" /\ \A v \in Users : invite[r][u][v] = "none"
              /\ kicked[r] = {}
            BY DEF InvitesInv, RowsLive
        <3> QED BY <1>4, <1>5, <3>1
    <2> QED BY <1>6, <2>1 DEF InvitesInv, InvitesRefer
<1>9. AcceptsOK'
    <2> SUFFICES ASSUME NEW p \in Requests, NEW r \in RoomIds, NEW u \in Users, NEW v \in Users,
                        Accepting(p, r, u, v)
                 PROVE AcceptOK(r, u, v)'
        BY <1>3 DEF AcceptsOK
    <2>1. AcceptOK(r, u, v)
        BY DEF InvitesInv, AcceptsOK
    <2>2. ASSUME role[r][u] = "none"
          PROVE role'[r][u] = "none" /\ (u \in kicked'[r] => u \in kicked[r])
        <3>1. role'[r][u] = "none"
            BY <1>4, <2>2
        <3>2. CASE r = r0 /\ role[r0][u0] # "none" /\ Accepted(r0, u0)
            <4>1. u # u0 /\ kicked'[r] = kicked[r] \cup {u0}
                BY <1>5, <2>2, <3>2
            <4> QED BY <3>1, <4>1
        <3>3. CASE ~(r = r0 /\ role[r0][u0] # "none" /\ Accepted(r0, u0))
            BY <1>5, <3>1, <3>3
        <3> QED BY <3>2, <3>3
    <2> QED BY <1>6, <1>7, <2>1, <2>2 DEF AcceptOK
<1>10. AcceptedOnce'
    BY <1>3 DEF InvitesInv, AcceptedOnce
<1>11. KickedAccepted'
    <2> SUFFICES ASSUME NEW r \in RoomIds, NEW u \in kicked'[r] PROVE Accepted(r, u)'
        BY DEF KickedAccepted
    <2>1. u \in kicked[r] \/ (r = r0 /\ u = u0 /\ Accepted(r0, u0))
        BY <1>5
    <2>2. Accepted(r, u)
        BY <2>1 DEF InvitesInv, KickedAccepted
    <2> QED BY <1>6, <2>2 DEF Accepted
<1>12. PrivateByInvite'
    BY <1>4, <1>6, <1>7 DEF InvitesInv, PrivateByInvite
<1>13. KickIsFinal'
    <2> SUFFICES ASSUME NEW r \in RoomIds, NEW u \in kicked'[r] \ {OwnerOf[r]}, room[r] = "private",
                        role'[r][u] # "none"
                 PROVE u \in freed[r]
        BY <1>6 DEF KickIsFinal
    <2>1. CASE r = r0 /\ u = u0
        BY <1>4, <2>1
    <2>2. CASE ~(r = r0 /\ u = u0)
        <3>1. u \in kicked[r]
            BY <1>5, <2>2
        <3>2. u \in Users
            BY <1>1, <3>1 DEF TypeOK
        <3>3. role[r][u] # "none"
            BY <1>4, <2>2, <3>2
        <3> QED BY <3>1, <3>3 DEF InvitesInv, KickIsFinal
    <2> QED BY <2>1, <2>2
<1>14. AcceptedLeads'
    BY <1>3, <1>4, <1>5, <1>6, <1>7 DEF InvitesInv, AcceptedLeads
<1> QED BY <1>8, <1>9, <1>10, <1>11, <1>12, <1>13, <1>14 DEF InvitesInv

\* The statements that write a role other than by an accept or a kick.
LEMMA RoleWriteInvites ==
    ASSUME RolesInv, InvitesInv, NEW q \in Requests,
           CreateAddOwner(q) \/ JoinAdd(q) \/ SetRoleWrite(q)
    PROVE InvitesInv'
<1>1. req[q] \in Request /\ TypeOK /\ Finish(q) /\ ~At(q, "accept", "add") /\ RequestOK(q) /\ req[q] # Idle
    BY AtReq DEF RolesInv, RequestsOK, CreateAddOwner, JoinAdd, SetRoleWrite, At, Operations
<1>2. PICK r0 \in RoomIds : r0 = req[q].room
    BY <1>1 DEF Request
<1>3. UNCHANGED <<room, invite, gone, kicked, cut, freed>>
    BY DEF CreateAddOwner, JoinAdd, SetRoleWrite
<1>4. CASE UNCHANGED role
    BY <1>1, <1>3, <1>4, EndsQuietly, QuietInvites
<1>5. CASE CreateAddOwner(q) /\ Live(r0) /\ req[q].by \notin gone
    <2>1. req[q].by = OwnerOf[r0] /\ req[q].by \in Users
        BY <1>1, <1>2, <1>5 DEF CreateAddOwner, RequestOK, At, Doing, Request
    <2>2. role' = [role EXCEPT ![r0][req[q].by] = "owner"]
        BY <1>2, <1>5 DEF CreateAddOwner, AddMember
    <2> QED BY <1>1, <1>3, <1>5, <2>1, <2>2, RoleChanges DEF Roles
<1>6. CASE JoinAdd(q) /\ Live(r0) /\ req[q].by \notin gone
    <2>1. room[r0] # "private" /\ req[q].by \in Users
        BY <1>1, <1>2, <1>6 DEF JoinAdd, RequestOK, Request
    <2>2. role' = [role EXCEPT ![r0][req[q].by] = "member"]
        BY <1>2, <1>6 DEF JoinAdd, AddMember
    <2> QED BY <1>1, <1>3, <1>6, <2>1, <2>2, RoleChanges DEF Roles
<1>7. CASE SetRoleWrite(q) /\ role[r0][req[q].target] # "none"
    <2>1. req[q].target \in Users /\ req[q].role \in Roles
        BY <1>1 DEF Request
    <2>2. role' = [role EXCEPT ![r0][req[q].target] = req[q].role]
        BY <1>2, <1>7 DEF SetRoleWrite, SetMemberRole
    <2>3. Live(r0)
        BY <1>7, <2>1 DEF InvitesInv, RowsLive
    <2> QED BY <1>1, <1>3, <1>7, <2>1, <2>2, <2>3, RoleChanges
<1>8. CASE ~(Live(r0) /\ req[q].by \notin gone) /\ (CreateAddOwner(q) \/ JoinAdd(q))
    BY <1>2, <1>4, <1>8 DEF CreateAddOwner, JoinAdd, AddMember
<1>9. CASE SetRoleWrite(q) /\ role[r0][req[q].target] = "none"
    BY <1>2, <1>4, <1>9 DEF SetRoleWrite, SetMemberRole
<1> QED BY <1>5, <1>6, <1>7, <1>8, <1>9

\* An invite is sent, or declined (room_service.go:68-88, :107-113).
LEMMA InviteWriteInvites ==
    ASSUME RolesInv, InvitesInv, NEW q \in Requests, InviteWrite(q) \/ DeclineWrite(q)
    PROVE InvitesInv'
<1>1. req[q] \in Request /\ TypeOK /\ Finish(q) /\ ~At(q, "accept", "add")
    BY AtReq DEF RolesInv, InviteWrite, DeclineWrite, At, Operations
<1>2. req[q].room \in RoomIds /\ req[q].by \in Users /\ req[q].target \in Users
    BY <1>1 DEF Request
<1>3. CASE InviteWrite(q)
    BY <1>1, <1>2, <1>3, InviteChanges DEF InviteWrite
<1>4. CASE DeclineWrite(q)
    BY <1>1, <1>2, <1>4, InviteChanges DEF DeclineWrite, Decide
<1> QED BY <1>3, <1>4

\* Every statement of every request, and the deletion of a user, keep the invites
\* in order.
LEMMA InvitesStep == RolesInv /\ InvitesInv /\ [Next]_vars => InvitesInv'
<1> SUFFICES ASSUME RolesInv, InvitesInv, [Next]_vars PROVE InvitesInv'
    OBVIOUS
<1>1. ASSUME NEW q \in Requests, NEW op \in Operations, NEW r \in RoomIds, NEW by \in Users,
             NEW target \in Users, NEW new \in Roles, Call(q, op, r, by, target, new)
      PROVE InvitesInv'
    <2>1. UNCHANGED <<room, role, invite, gone, kicked, cut, freed>> /\ req[q] = Idle
        BY <1>1 DEF Call
    <2>2. \A p \in Requests, s \in RoomIds, u, v \in Users : Accepting(p, s, u, v)' <=> Accepting(p, s, u, v)
        BY <1>1, <2>1, CallReq DEF RolesInv, Accepting, At
    <2> QED BY <2>1, <2>2, QuietInvites
<1>2. ASSUME NEW q \in Requests, Statement(q) PROVE InvitesInv'
    BY <1>2, CreateRoomInvites, DeleteRoomInvites, ReadInvites, AcceptWriteInvites, AcceptAddInvites,
       KickWriteInvites, RoleWriteInvites, InviteWriteInvites DEF Statement
<1>3. ASSUME NEW d \in Users, DeleteUser(d) PROVE InvitesInv'
    BY <1>3, DeleteUserInvites
<1>4. CASE UNCHANGED vars
    <2>1. \A p \in Requests, s \in RoomIds, u, v \in Users : Accepting(p, s, u, v)' <=> Accepting(p, s, u, v)
        BY <1>4 DEF vars, Accepting, At
    <2> QED BY <1>4, <2>1, QuietInvites DEF vars
<1> QED BY <1>1, <1>2, <1>3, <1>4, BeginCalls DEF Next

LEMMA InvitesInit == Init => InvitesInv
BY DEF Init, InvitesInv, RowsLive, InvitesRefer, AcceptsOK, AcceptedOnce, KickedAccepted, PrivateByInvite,
   KickIsFinal, AcceptedLeads, Accepting, Accepted, At

LEMMA InvitesHold == Spec => [](RolesInv /\ InvitesInv)
BY RolesInit, RolesStep, InvitesInit, InvitesStep, PTL DEF Spec

-----------------------------------------------------------------------------

\* The rows, the requests and the history variables keep their types.
THEOREM RoomsTypeCorrect == Spec => []TypeOK
BY InvitesHold, PTL DEF RolesInv

\* Members of a private room are its owner and those who accepted an invite,
\* whatever requests run at once (room_service.go:90-113).
THEOREM PrivateIsAlwaysByInvite == Spec => []PrivateByInvite
BY InvitesHold, PTL DEF InvitesInv

\* No late or repeated accept brings back who was kicked (room_service.go:98,
\* :180).
THEOREM KickIsAlwaysFinal == Spec => []KickIsFinal
BY InvitesHold, PTL DEF InvitesInv

\* An accepted invite leads to the membership (room_service.go:98-101).
THEOREM AcceptedIsAlwaysMember == Spec => []AcceptedIsMember
<1>1. RolesInv /\ InvitesInv => AcceptedIsMember
    BY DEF RolesInv, InvitesInv, AcceptedLeads, AcceptedIsMember, Accepting, Adding, At
<1> QED BY <1>1, InvitesHold, PTL

\* Racing decisions leave the first one (invite_repo.go:51-75).
THEOREM InviteIsDecidedOnce == Spec => DecidedOnce
<1>1. RolesInv /\ InvitesInv /\ [Next]_vars =>
          [\A r \in RoomIds, u, v \in Users :
              invite[r][u][v] \in {"accepted", "declined"} /\ room'[r] # "deleted" /\ {u, v} \cap gone' = {}
                  => invite'[r][u][v] = invite[r][u][v]]_vars
    <2> SUFFICES ASSUME RolesInv, InvitesInv, [Next]_vars, NEW r \in RoomIds, NEW u \in Users,
                        NEW v \in Users, invite[r][u][v] \in {"accepted", "declined"},
                        room'[r] # "deleted", {u, v} \cap gone' = {}, invite' # invite
                 PROVE invite'[r][u][v] = invite[r][u][v]
        OBVIOUS
    <2>1. TypeOK
        BY DEF RolesInv
    <2>2. ASSUME NEW d \in Users, DeleteUser(d) PROVE invite'[r][u][v] = invite[r][u][v]
        BY <2>1, <2>2, DeleteUserRows
    <2>3. ASSUME NEW q \in Requests, Statement(q) PROVE invite'[r][u][v] = invite[r][u][v]
        <3>1. CASE \E st \in {"accepted", "declined"} : Decide(req[q].room, req[q].by, req[q].target, st)
            BY <2>1, <3>1 DEF Decide, TypeOK
        <3>2. CASE InviteWrite(q)
            BY <2>1, <3>2 DEF InviteWrite, MayInsert, TypeOK
        <3>3. CASE DeleteRoom(q)
            BY <2>1, <3>3 DEF DeleteRoom, TypeOK
        <3> QED BY <2>3, <3>1, <3>2, <3>3 DEF Statement, CreateRoom, CreateAddOwner, InviteRead,
               InviteCheck, InviteeReads, AcceptWrite, AcceptAdd, DeclineWrite, ReadOwnRole, SetRoleCheck,
               SetRoleWrite, KickCheck, KickWrite, JoinRead, JoinAdd, Refused, Aborted
    <2> QED BY <2>2, <2>3 DEF Next, Begin, Call, vars
<1> QED BY <1>1, InvitesHold, PTL DEF Spec, DecidedOnce

=============================================================================

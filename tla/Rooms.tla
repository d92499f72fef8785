------------------------------- MODULE Rooms --------------------------------
(***************************************************************************)
(* Rooms, members, roles and invites: internal/app/room_service.go over    *)
(* the statements of postgres/{room,invite}_repo.go.                       *)
(*                                                                         *)
(* A request of the API (or a join_room of the hub) runs a few statements, *)
(* each a transaction of its own, and decides between them from what it    *)
(* has read.  Any number of requests, on any pod, interleave statement by  *)
(* statement.  A request stops in the middle when a statement fails or its *)
(* client goes away (the statements run under r.Context()).  A site admin   *)
(* deletes accounts meanwhile, and the foreign keys take along what refers *)
(* to them (adapter/inbound/http/admin_handler.go, migrations/).           *)
(***************************************************************************)
EXTENDS Naturals, FiniteSets

CONSTANTS
    RoomIds, Users, Requests,
    Types,          \* the room types that are created
    OwnerOf,        \* RoomIds -> Users: rooms.owner_id
    Ops,            \* the operations that are called
    Invitees,       \* a bound: the users that are invited
    MaxDeletions,   \* a bound: how many accounts are deleted
    Failures        \* whether statements may fail

Operations == {"create", "delete", "invite", "accept", "decline", "set_role", "kick", "ws_join"}
Roles == {"owner", "admin", "member"}

ASSUME RoomsAssumption ==
    /\ Types \subseteq {"public", "private", "dm", "voice"}
    /\ OwnerOf \in [RoomIds -> Users]
    /\ Ops \subseteq Operations
    /\ Invitees \subseteq Users
    /\ MaxDeletions \in Nat
    /\ Failures \in BOOLEAN

VARIABLES
    room,       \* rooms.type, "none" before and "deleted" after
    role,       \* room_members.role, "none" without a row
    invite,     \* room_invites.status by room, invitee and inviter, "none" without a row
    gone,       \* the users whose row was deleted
    req,        \* what each request is doing
    kicked,     \* history: users with an accepted invite whom a kick took out
    cut,        \* history: users whose accept failed before its second statement
    freed       \* history: users whose accepted invite went with its inviter

vars == <<room, role, invite, gone, req, kicked, cut, freed>>

\* A request: its operation and arguments, the statement it runs next, and the
\* requester's role it has read.  The target of an answer is the inviter: with
\* the room and the invitee that is the id of the invite, as an inviter whose row
\* went with his account never invites again.
Request == [op : Operations, room : RoomIds, by : Users, target : Users,
            role : Roles, next : {"read", "check", "write", "add"}, seen : Roles \cup {"none"}]
Idle == [op |-> "idle"]

TypeOK ==
    /\ room \in [RoomIds -> Types \cup {"none", "deleted"}]
    /\ role \in [RoomIds -> [Users -> Roles \cup {"none"}]]
    /\ invite \in [RoomIds -> [Users -> [Users -> {"none", "pending", "accepted", "declined"}]]]
    /\ gone \subseteq Users
    /\ req \in [Requests -> Request \cup {Idle}]
    /\ kicked \in [RoomIds -> SUBSET Users]
    /\ cut \in [RoomIds -> SUBSET Users]
    /\ freed \in [RoomIds -> SUBSET Users]

Init ==
    /\ room = [r \in RoomIds |-> "none"]
    /\ role = [r \in RoomIds |-> [u \in Users |-> "none"]]
    /\ invite = [r \in RoomIds |-> [u \in Users |-> [v \in Users |-> "none"]]]
    /\ gone = {}
    /\ req = [q \in Requests |-> Idle]
    /\ kicked = [r \in RoomIds |-> {}]
    /\ cut = [r \in RoomIds |-> {}]
    /\ freed = [r \in RoomIds |-> {}]

-----------------------------------------------------------------------------
(* The statements. *)

Live(r) == room[r] \in Types
Accepted(r, u) == \E v \in Users : invite[r][u][v] = "accepted"

\* Mutant: the upsert does nothing when there is no row yet.
AddMemberUpdates(r, u, new) ==
    role' = IF role[r][u] # "none" THEN [role EXCEPT ![r][u] = new] ELSE role

\* INSERT INTO room_members ... ON CONFLICT DO UPDATE SET role = EXCLUDED.role;
\* the foreign keys refuse a room or a user that is gone.
AddMember(r, u, new) ==
    role' = IF Live(r) /\ u \notin gone THEN [role EXCEPT ![r][u] = new] ELSE role

\* DELETE FROM room_members
RemoveMember(r, u) ==
    /\ role' = [role EXCEPT ![r][u] = "none"]
    /\ kicked' = IF role[r][u] # "none" /\ Accepted(r, u)
                 THEN [kicked EXCEPT ![r] = @ \cup {u}] ELSE kicked

\* UPDATE room_members SET role: no row, no effect.
SetMemberRole(r, u, new) ==
    role' = IF role[r][u] = "none" THEN role ELSE [role EXCEPT ![r][u] = new]

\* Mutant: without AND status = 'pending'.
DecideAlways(r, u, v, status) ==
    /\ invite[r][u][v] # "none"
    /\ invite' = [invite EXCEPT ![r][u][v] = status]

\* UPDATE room_invites SET status WHERE id AND status = 'pending'.
Decide(r, u, v, status) ==
    /\ invite[r][u][v] = "pending"
    /\ invite' = [invite EXCEPT ![r][u][v] = status]

Finish(q) == req' = [req EXCEPT ![q] = Idle]
Continue(q, next) == req' = [req EXCEPT ![q].next = next, ![q].seen = "none"]

-----------------------------------------------------------------------------
(* Requests. *)

\* A handler has parsed the request of user `by` and calls the service.
Call(q, op, r, by, target, new) ==
    /\ req[q] = Idle /\ op \in Ops
    /\ op = "create" => room[r] = "none" /\ by = OwnerOf[r] \* a fresh id
    /\ op # "create" => room[r] # "none"                    \* ids clients have seen
    /\ op \in {"create", "delete", "ws_join"} => target = by
    /\ op = "invite" => target \in Invitees
    /\ op \in {"accept", "decline"} => invite[r][by][target] # "none"
    /\ \A p \in Requests : req[p] # Idle /\ req[p].op = "create" /\ op = "create" => req[p].room # r
    /\ req' = [req EXCEPT ![q] = [op |-> op, room |-> r, by |-> by, target |-> target,
                                  role |-> new, next |-> "read", seen |-> "none"]]
    /\ UNCHANGED <<room, role, invite, kicked, cut, gone, freed>>

Begin(q) ==
    /\ req[q] = Idle
    /\ \E op \in Operations, r \in RoomIds, by, target \in Users :
        \E new \in IF op = "set_role" THEN Roles ELSE {"member"} :
            Call(q, op, r, by, target, new)

At(q, op, next) == req[q] # Idle /\ req[q].op = op /\ req[q].next = next

\* Create: INSERT INTO rooms ...
CreateRoom(q) ==
    /\ At(q, "create", "read")
    /\ req[q].by \notin gone
    /\ \E t \in Types : room' = [room EXCEPT ![req[q].room] = t]
    /\ Continue(q, "add")
    /\ UNCHANGED <<role, invite, kicked, cut, gone, freed>>

\* ... then the owner becomes a member; the error is ignored.
CreateAddOwner(q) ==
    /\ At(q, "create", "add")
    /\ AddMember(req[q].room, req[q].by, "owner")
    /\ Finish(q)
    /\ UNCHANGED <<room, invite, kicked, cut, gone, freed>>

\* DELETE FROM rooms, by the owner or a site admin: members and invites go with
\* it.
DeleteRoom(q) ==
    LET r == req[q].room
    IN  /\ At(q, "delete", "read")
        /\ Live(r)
        /\ room' = [room EXCEPT ![r] = "deleted"]
        /\ role' = [role EXCEPT ![r] = [u \in Users |-> "none"]]
        /\ invite' = [invite EXCEPT ![r] = [u \in Users |-> [v \in Users |-> "none"]]]
        /\ kicked' = [kicked EXCEPT ![r] = {}]
        /\ cut' = [cut EXCEPT ![r] = {}]
        /\ freed' = [freed EXCEPT ![r] = {}]
        /\ Finish(q)
        /\ UNCHANGED gone

\* A site admin deletes an account: its rooms go with all that refers to them, its
\* memberships, and the invites it was sent or has sent, decided ones too.
DeleteUser(u) ==
    LET owned == {r \in RoomIds : Live(r) /\ OwnerOf[r] = u}
        lost(r) == {x \in Users : invite[r][x][u] = "accepted"}
    IN  /\ u \notin gone /\ Cardinality(gone) < MaxDeletions
        /\ gone' = gone \cup {u}
        /\ room' = [r \in RoomIds |-> IF r \in owned THEN "deleted" ELSE room[r]]
        /\ role' = [r \in RoomIds |-> [x \in Users |->
                        IF r \in owned \/ x = u THEN "none" ELSE role[r][x]]]
        /\ invite' = [r \in RoomIds |-> [x \in Users |-> [v \in Users |->
                        IF r \in owned \/ u \in {x, v} THEN "none" ELSE invite[r][x][v]]]]
        /\ freed' = [r \in RoomIds |-> IF r \in owned THEN {} ELSE (freed[r] \cup lost(r)) \ {u}]
        /\ kicked' = [r \in RoomIds |-> IF r \in owned THEN {} ELSE kicked[r] \ (lost(r) \cup {u})]
        /\ cut' = [r \in RoomIds |-> IF r \in owned THEN {} ELSE cut[r] \ (lost(r) \cup {u})]
        /\ UNCHANGED req

\* InviteUser: the room must be private; its owner needs no membership.
InviteRead(q) ==
    LET r == req[q].room
    IN  /\ At(q, "invite", "read")
        /\ room[r] = "private"
        /\ Continue(q, IF OwnerOf[r] = req[q].by THEN "write" ELSE "check")
        /\ UNCHANGED <<room, role, invite, kicked, cut, gone, freed>>

InviteCheck(q) ==
    /\ At(q, "invite", "check")
    /\ role[req[q].room][req[q].by] # "none"
    /\ Continue(q, "write")
    /\ UNCHANGED <<room, role, invite, kicked, cut, gone, freed>>

\* UNIQUE (room_id, invitee_id): one invite at a time; the foreign keys refuse a
\* room or a user that is gone.
MayInsert(r, u, v) ==
    Live(r) /\ {u, v} \cap gone = {} /\ \A w \in Users : invite[r][u][w] = "none"

InviteWrite(q) ==
    LET r == req[q].room
        u == req[q].target
    IN  /\ At(q, "invite", "write")
        /\ MayInsert(r, u, req[q].by)
        /\ invite' = [invite EXCEPT ![r][u][req[q].by] = "pending"]
        /\ Finish(q)
        /\ UNCHANGED <<room, role, kicked, cut, gone, freed>>

\* AcceptInvite and DeclineInvite read the invite, whatever its status.
InviteeReads(q) ==
    /\ At(q, "accept", "read") \/ At(q, "decline", "read")
    /\ invite[req[q].room][req[q].by][req[q].target] # "none"
    /\ Continue(q, "write")
    /\ UNCHANGED <<room, role, invite, kicked, cut, gone, freed>>

\* Mutant: does not look at RowsAffected.
AcceptWriteUnchecked(q) ==
    /\ At(q, "accept", "write")
    /\ Decide(req[q].room, req[q].by, req[q].target, "accepted") \/ UNCHANGED invite
    /\ Continue(q, "add")
    /\ UNCHANGED <<room, role, kicked, cut, gone, freed>>

AcceptWrite(q) ==
    /\ At(q, "accept", "write")
    /\ Decide(req[q].room, req[q].by, req[q].target, "accepted")
    /\ Continue(q, "add")
    /\ UNCHANGED <<room, role, kicked, cut, gone, freed>>

AcceptAdd(q) ==
    /\ At(q, "accept", "add")
    /\ AddMember(req[q].room, req[q].by, "member")
    /\ Finish(q)
    /\ UNCHANGED <<room, invite, kicked, cut, gone, freed>>

DeclineWrite(q) ==
    /\ At(q, "decline", "write")
    /\ Decide(req[q].room, req[q].by, req[q].target, "declined")
    /\ Finish(q)
    /\ UNCHANGED <<room, role, kicked, cut, gone, freed>>

\* Mutant: the role owner can be given away.
ReadOwnRoleAnyRole(q) ==
    LET mine == role[req[q].room][req[q].by]
    IN  /\ At(q, "set_role", "read") \/ At(q, "kick", "read")
        /\ mine # "none"
        /\ req[q].op = "kick" => req[q].target # req[q].by
        /\ req' = [req EXCEPT ![q].next = "check", ![q].seen = mine]
        /\ UNCHANGED <<room, role, invite, kicked, cut, gone, freed>>

\* GetMemberRole of the requester: without a row the request is refused.
ReadOwnRole(q) ==
    LET mine == role[req[q].room][req[q].by]
    IN  /\ At(q, "set_role", "read") \/ At(q, "kick", "read")
        /\ mine # "none"
        /\ req[q].op = "kick" => req[q].target # req[q].by
        /\ req[q].op = "set_role" => req[q].role # "owner"
        /\ req' = [req EXCEPT ![q].next = "check", ![q].seen = mine]
        /\ UNCHANGED <<room, role, invite, kicked, cut, gone, freed>>

\* Mutant: admins may set roles too.
SetRoleCheckAdmins(q) ==
    LET r == req[q].room
    IN  /\ At(q, "set_role", "check")
        /\ Live(r)
        /\ req[q].seen \in {"owner", "admin"} \/ OwnerOf[r] = req[q].by
        /\ Continue(q, "write")
        /\ UNCHANGED <<room, role, invite, kicked, cut, gone, freed>>

\* SetRole: only the owner, by role or by the room's row.
SetRoleCheck(q) ==
    LET r == req[q].room
    IN  /\ At(q, "set_role", "check")
        /\ Live(r)
        /\ req[q].seen = "owner" \/ OwnerOf[r] = req[q].by
        /\ Continue(q, "write")
        /\ UNCHANGED <<room, role, invite, kicked, cut, gone, freed>>

SetRoleWrite(q) ==
    /\ At(q, "set_role", "write")
    /\ SetMemberRole(req[q].room, req[q].target, req[q].role)
    /\ Finish(q)
    /\ UNCHANGED <<room, invite, kicked, cut, gone, freed>>

\* KickMember: GetMemberRole of the target, and the decision.
KickCheck(q) ==
    LET theirs == role[req[q].room][req[q].target]
    IN  /\ At(q, "kick", "check")
        /\ theirs # "none"
        /\ req[q].seen = "owner" \/ (req[q].seen = "admin" /\ theirs = "member")
        /\ Continue(q, "write")
        /\ UNCHANGED <<room, role, invite, kicked, cut, gone, freed>>

KickWrite(q) ==
    /\ At(q, "kick", "write")
    /\ RemoveMember(req[q].room, req[q].target)
    /\ Finish(q)
    /\ UNCHANGED <<room, invite, cut, gone, freed>>

\* The hub's joinRoom, as far as it writes: GetRoom, then AddMember with role
\* member in the rooms that are open to everybody.
JoinRead(q) ==
    /\ At(q, "ws_join", "read")
    /\ room[req[q].room] \in {"public", "voice"}
    /\ Continue(q, "add")
    /\ UNCHANGED <<room, role, invite, kicked, cut, gone, freed>>

JoinAdd(q) ==
    /\ At(q, "ws_join", "add")
    /\ AddMember(req[q].room, req[q].by, "member")
    /\ Finish(q)
    /\ UNCHANGED <<room, invite, kicked, cut, gone, freed>>

\* A check refuses the request: none of its statements can go on.
Refused(q) ==
    LET r == req[q].room
        by == req[q].by
        mine == invite[r][by][req[q].target]
        their == role[r][req[q].target]
    IN  /\ req[q] # Idle
        /\ \/ At(q, "create", "read") /\ by \in gone
           \/ At(q, "delete", "read") /\ ~Live(r)
           \/ At(q, "invite", "read") /\ room[r] # "private"
           \/ At(q, "invite", "check") /\ role[r][by] = "none"
           \/ At(q, "invite", "write") /\ ~MayInsert(r, req[q].target, by)
           \/ (At(q, "accept", "read") \/ At(q, "decline", "read")) /\ mine = "none"
           \/ (At(q, "accept", "write") \/ At(q, "decline", "write")) /\ mine # "pending"
           \/ At(q, "set_role", "read") /\ (role[r][by] = "none" \/ req[q].role = "owner")
           \/ At(q, "set_role", "check") /\ ~(Live(r) /\ (req[q].seen = "owner" \/ OwnerOf[r] = by))
           \/ At(q, "kick", "read") /\ (role[r][by] = "none" \/ req[q].target = by)
           \/ At(q, "kick", "check") /\ (their = "none" \/ req[q].seen = "member"
                                         \/ (req[q].seen = "admin" /\ their # "member"))
           \/ At(q, "ws_join", "read") /\ room[r] \notin {"public", "voice"}
        /\ Finish(q)
        /\ UNCHANGED <<room, role, invite, kicked, cut, gone, freed>>

\* A statement fails, the pod stops or the client goes away.
Aborted(q) ==
    /\ Failures
    /\ req[q] # Idle
    /\ cut' = IF At(q, "accept", "add") THEN [cut EXCEPT ![req[q].room] = @ \cup {req[q].by}] ELSE cut
    /\ Finish(q)
    /\ UNCHANGED <<room, role, invite, kicked, gone, freed>>

Statement(q) ==
    \/ CreateRoom(q) \/ CreateAddOwner(q) \/ DeleteRoom(q)
    \/ InviteRead(q) \/ InviteCheck(q) \/ InviteWrite(q)
    \/ InviteeReads(q) \/ AcceptWrite(q) \/ AcceptAdd(q) \/ DeclineWrite(q)
    \/ ReadOwnRole(q) \/ SetRoleCheck(q) \/ SetRoleWrite(q) \/ KickCheck(q) \/ KickWrite(q)
    \/ JoinRead(q) \/ JoinAdd(q)
    \/ Refused(q) \/ Aborted(q)

Next ==
    \/ \E q \in Requests :
        \/ Begin(q) \/ Statement(q)
    \/ \E u \in Users : DeleteUser(u)

Spec == Init /\ [][Next]_vars

-----------------------------------------------------------------------------

Adding(r, u) == \E q \in Requests :
    req[q] # Idle /\ req[q].room = r /\ req[q].by = u /\ req[q].next = "add"

\* A member of a private room is its owner or has accepted an invite, which is
\* still there unless its inviter's account was deleted; a declined or pending
\* invite never made anybody a member, whatever raced it (room_service.go:90-113,
\* 005_room_invites.sql:4).
PrivateByInvite ==
    \A r \in RoomIds, u \in Users :
        room[r] = "private" /\ role[r][u] # "none" =>
            u = OwnerOf[r] \/ Accepted(r, u) \/ u \in freed[r]

\* An invite is decided once: accepts and declines that race each other, from
\* one user or several pods, leave the first decision, until the room, the
\* inviter or the invitee is deleted (invite_repo.go:51-75).
DecidedOnce ==
    [][\A r \in RoomIds, u, v \in Users :
          invite[r][u][v] \in {"accepted", "declined"} /\ room'[r] # "deleted" /\ {u, v} \cap gone' = {}
              => invite'[r][u][v] = invite[r][u][v]]_vars

\* Who was kicked from a private room stays out: no accept that is late,
\* repeated or concurrent brings the membership back (room_service.go:90-102
\* against :157-181).  Only the deletion of the inviter, which frees the place of
\* the invite, lets him be invited again.  (The owner may be added by a Create
\* that is still under way.)
KickIsFinal ==
    \A r \in RoomIds : \A u \in kicked[r] \ {OwnerOf[r]} :
        room[r] = "private" /\ role[r][u] # "none" => u \in freed[r]

\* Nobody but the owner of a room ever has the role owner, so the role a request
\* has read stands for the ownership it is used for (room_service.go:139-151,
\* :170-172).
OwnerRoleIsOwners ==
    \A r \in RoomIds, u \in Users : role[r][u] = "owner" => u = OwnerOf[r]

\* A user becomes admin of a room only by a request of its owner for this user,
\* however long ago that request was checked (room_service.go:138-155).
AdminsByOwner ==
    [][\A r \in RoomIds, u \in Users :
          role'[r][u] = "admin" /\ role[r][u] # "admin" =>
              \E q \in Requests : /\ At(q, "set_role", "write")
                                  /\ req[q].room = r /\ req[q].by = OwnerOf[r]
                                  /\ req[q].target = u /\ req[q].role = "admin"]_vars

\* An accepted invite is a membership, until a kick; it is lost only by a failure
\* right between the two statements of the accept, never by what other requests
\* do meanwhile (room_service.go:98-101).
AcceptedIsMember ==
    \A r \in RoomIds, u \in Users :
        Accepted(r, u) =>
            role[r][u] # "none" \/ u \in kicked[r] \/ u \in cut[r] \/ Adding(r, u)

-----------------------------------------------------------------------------
(* A comment of the code that the code does not keep. *)

\* "Add owner as member with owner role" (room_service.go:35).
OwnerHasOwnerRole ==
    \A r \in RoomIds : Live(r) /\ ~Adding(r, OwnerOf[r]) => role[r][OwnerOf[r]] = "owner"

=============================================================================

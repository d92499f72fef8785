------------------------------ MODULE Friends -------------------------------
(***************************************************************************)
(* Friendships and direct messages: postgres/friend_repo.go under          *)
(* friend_service.go and friend_handler.go.                                *)
(*                                                                         *)
(* The operations on friendships are one statement each.  GetOrCreateDM    *)
(* looks for a room and, in a second transaction, makes one: calls of any  *)
(* users, on any pod, interleave in between.                               *)
(***************************************************************************)
EXTENDS Naturals, FiniteSets

CONSTANTS
    Users,
    RowIds,     \* ids of friendships (a bound), never used twice
    DmIds,      \* ids of rooms of type dm (a bound), never used twice
    Calls       \* calls of GetOrCreateDM at a time

VARIABLES
    users,      \* the rows of users
    friendships,\* the rows of friendships
    usedIds,    \* ids of friendships given out so far
    agreed,     \* ids of the rows their addressee has accepted (a history variable)
    dms,        \* the rooms of type dm and their members
    call,       \* what each call of GetOrCreateDM is doing
    raced       \* pairs whose room was looked for while it was being made, or in
                \* vain although it may have been there (a history variable)

friendVars == <<friendships, usedIds, agreed>>
dmVars == <<dms, call, raced>>
friendsVars == <<users, friendVars, dmVars>>

Friendship == [id : RowIds, requester : Users, addressee : Users, status : {"pending", "accepted"}]
Dm == [owner : Users, members : SUBSET Users]
NoRoom == [owner |-> "none"]
Deleted == [owner |-> "deleted"]
Idle == [next |-> "idle"]
Call == [by : Users, other : Users, next : {"lookup", "insert", "answered"},
         room : DmIds \cup {"none"}, with : SUBSET Users]

FriendsTypeOK ==
    /\ users \subseteq Users
    /\ friendships \subseteq Friendship
    /\ \A f \in friendships : {f.requester, f.addressee} \subseteq users /\ f.id \in usedIds
    /\ usedIds \subseteq RowIds
    /\ agreed \subseteq usedIds
    /\ dms \in [DmIds -> Dm \cup {NoRoom, Deleted}]
    /\ call \in [Calls -> Call \cup {Idle}]
    /\ raced \subseteq SUBSET Users

FriendsInit ==
    /\ users = Users
    /\ friendships = {} /\ usedIds = {} /\ agreed = {}
    /\ dms = [r \in DmIds |-> NoRoom]
    /\ call = [q \in Calls |-> Idle]
    /\ raced = {}

-----------------------------------------------------------------------------
(* Friendships. *)

\* Mutant: ON CONFLICT DO UPDATE SET status = 'pending'.
SendRequestAgain(u, v) ==
    /\ u # v /\ {u, v} \subseteq users
    /\ LET same == {f \in friendships : f.requester = u /\ f.addressee = v}
       IN  IF same # {}
           THEN /\ friendships' = (friendships \ same)
                                    \cup {[f EXCEPT !.status = "pending"] : f \in same}
                /\ UNCHANGED usedIds
           ELSE \E id \in RowIds \ usedIds :
                /\ friendships' = friendships \cup
                        {[id |-> id, requester |-> u, addressee |-> v, status |-> "pending"]}
                /\ usedIds' = usedIds \cup {id}
    /\ UNCHANGED <<users, agreed, dmVars>>

\* INSERT INTO friendships ... ON CONFLICT (requester_id, addressee_id) DO
\* NOTHING.  The other direction is another row.  A request to oneself is
\* refused by the service, one to a user who is gone by the foreign key.
SendRequest(u, v) ==
    /\ u # v /\ {u, v} \subseteq users
    /\ ~\E f \in friendships : f.requester = u /\ f.addressee = v
    /\ \E id \in RowIds \ usedIds :
        /\ friendships' = friendships \cup
                {[id |-> id, requester |-> u, addressee |-> v, status |-> "pending"]}
        /\ usedIds' = usedIds \cup {id}
    /\ UNCHANGED <<users, agreed, dmVars>>

\* Mutant: without AND addressee_id.
AcceptAnyone(u, id) ==
    \E f \in friendships :
        /\ f.id = id /\ f.status = "pending"
        /\ friendships' = (friendships \ {f}) \cup {[f EXCEPT !.status = "accepted"]}
        /\ agreed' = IF f.addressee = u THEN agreed \cup {id} ELSE agreed
        /\ UNCHANGED <<users, usedIds, dmVars>>

\* UPDATE friendships SET status = 'accepted' WHERE id AND addressee_id AND
\* status = 'pending': not found otherwise, for an old id as well.
Accept(u, id) ==
    \E f \in friendships :
        /\ f.id = id /\ f.addressee = u /\ f.status = "pending"
        /\ friendships' = (friendships \ {f}) \cup {[f EXCEPT !.status = "accepted"]}
        /\ agreed' = agreed \cup {id}
        /\ UNCHANGED <<users, usedIds, dmVars>>

\* DELETE FROM friendships WHERE id, by either party.
RemoveFriendship(u, id) ==
    \E f \in friendships :
        /\ f.id = id /\ u \in {f.requester, f.addressee}
        /\ friendships' = friendships \ {f}
        /\ UNCHANGED <<users, usedIds, agreed, dmVars>>

\* ListFriends, and the friends of a user in the admin panel.
FriendsOf(u) ==
    {v \in users : \E f \in friendships :
        f.status = "accepted" /\ <<f.requester, f.addressee>> \in {<<u, v>>, <<v, u>>}}

-----------------------------------------------------------------------------
(* Direct messages. *)

Exists(r) == dms[r] \notin {NoRoom, Deleted}

\* Mutant: only rooms the caller owns.
RoomsOwned(u, v) == {r \in DmIds : Exists(r) /\ {u, v} \subseteq dms[r].members /\ dms[r].owner = u}

\* Mutant: without the EXISTS for the other user.
RoomsOfCaller(u, v) == {r \in DmIds : Exists(r) /\ u \in dms[r].members}

\* The rooms the SELECT finds: both are members.  For a user who asks for a room
\* with themself that is every room they are in.
RoomsOf(u, v) == {r \in DmIds : Exists(r) /\ {u, v} \subseteq dms[r].members}

CallDm(q, u, v) ==
    /\ call[q] = Idle
    /\ call' = [call EXCEPT ![q] = [by |-> u, other |-> v, next |-> "lookup", room |-> "none", with |-> {}]]
    /\ UNCHANGED <<users, friendVars, dms, raced>>

Answered(q, r, members) ==
    call' = [call EXCEPT ![q].next = "answered", ![q].room = r, ![q].with = members]

\* LIMIT 1, in no order.
LookupFinds(q) ==
    /\ call[q].next = "lookup"
    /\ \E r \in RoomsOf(call[q].by, call[q].other) : Answered(q, r, dms[r].members)
    /\ UNCHANGED <<users, friendVars, dms, raced>>

\* No row; the code takes every other error for the same.
LookupMisses(q) ==
    LET pair == {call[q].by, call[q].other}
        failed == RoomsOf(call[q].by, call[q].other) # {}
        overlaps == \E p \in Calls \ {q} : /\ call[p].next = "insert"
                                           /\ {call[p].by, call[p].other} = pair
    IN  /\ call[q].next = "lookup"
        /\ raced' = IF failed \/ overlaps THEN raced \cup {pair} ELSE raced
        /\ call' = [call EXCEPT ![q].next = "insert"]
        /\ UNCHANGED <<users, friendVars, dms>>

\* One transaction: the room and its two members.  The foreign keys want both
\* users, the primary key of room_members two different ones.
InsertDm(q) ==
    LET pair == {call[q].by, call[q].other}
    IN  /\ call[q].next = "insert"
        /\ call[q].by # call[q].other /\ pair \subseteq users
        /\ \E r \in DmIds :
            /\ dms[r] = NoRoom
            /\ dms' = [dms EXCEPT ![r] = [owner |-> call[q].by, members |-> pair]]
            /\ Answered(q, r, pair)
        /\ UNCHANGED <<users, friendVars, raced>>

\* A room of two is a room: its owner or a site admin deletes it, whatever its
\* type.
DeleteDm(r) ==
    /\ Exists(r)
    /\ dms' = [dms EXCEPT ![r] = Deleted]
    /\ UNCHANGED <<users, friendVars, call, raced>>

\* KickMember by an admin of the room, whom its owner makes one with SetRole.  Who
\* may kick whom is decided statement by statement (Rooms), so that even both
\* members may be kicked.  Nobody comes back: joins and invites add nobody here.
KickFromDm(r, u) ==
    /\ Exists(r) /\ u \in dms[r].members
    /\ dms' = [dms EXCEPT ![r].members = @ \ {u}]
    /\ UNCHANGED <<users, friendVars, call, raced>>

\* The call returns, or a statement fails and the transaction is rolled back.
EndCall(q) ==
    /\ call[q] # Idle
    /\ call' = [call EXCEPT ![q] = Idle]
    /\ UNCHANGED <<users, friendVars, dms, raced>>

-----------------------------------------------------------------------------

\* The admin panel deletes a user: friendships, memberships and the rooms the
\* user owns go along.
DeleteUser(u) ==
    /\ users' = users \ {u}
    /\ friendships' = {f \in friendships : u \notin {f.requester, f.addressee}}
    /\ dms' = [r \in DmIds |->
                IF ~Exists(r) THEN dms[r]
                ELSE IF dms[r].owner = u THEN Deleted
                ELSE [dms[r] EXCEPT !.members = @ \ {u}]]
    /\ UNCHANGED <<usedIds, agreed, call, raced>>

FriendshipNext ==
    \E u \in users :
        \/ \E v \in Users : SendRequest(u, v)
        \/ \E id \in usedIds : Accept(u, id) \/ RemoveFriendship(u, id)

DmNext ==
    \/ \E q \in Calls :
        \/ \E u \in users, v \in Users : CallDm(q, u, v)
        \/ LookupFinds(q) \/ LookupMisses(q) \/ InsertDm(q) \/ EndCall(q)
    \/ \E r \in DmIds : DeleteDm(r) \/ \E u \in users : KickFromDm(r, u)

FriendsNext ==
    \/ FriendshipNext
    \/ DmNext
    \/ \E u \in users : DeleteUser(u)

FriendsSpec == FriendsInit /\ [][FriendsNext]_friendsVars

-----------------------------------------------------------------------------

\* Two users are friends only through a request of one that the other accepted
\* -- that very request: after it was removed and sent again the old id accepts
\* nothing (friend_repo.go:29).  Only the seeds of main.go make friends without.
FriendsByConsent ==
    \A u \in users : \A v \in FriendsOf(u) :
        \E f \in friendships :
            {f.requester, f.addressee} = {u, v} /\ f.status = "accepted" /\ f.id \in agreed

\* Asking a friend again, or an admin deleting others, does not end a
\* friendship: an accepted row stays accepted until it is gone
\* (friend_repo.go:22).
AcceptedStays ==
    [][\A f \in friendships : f.status = "accepted" =>
        f \in friendships' \/ ~\E g \in friendships' : g.id = f.id]_friendsVars

\* Whoever asks for a room with another user gets a room of just the two, found
\* or made (friend_repo.go:111).
DmIsPrivate ==
    \A q \in Calls : call[q].next = "answered" /\ call[q].by # call[q].other =>
        call[q].with = {call[q].by, call[q].other}

\* Two users have two rooms only when two calls overlapped or a lookup failed:
\* nothing in the schema prevents it (friend_repo.go:117), but one call after
\* the other, whoever calls, finds the room that is there.
SecondDmOnlyByRace ==
    \A r, s \in DmIds, u, v \in Users :
        /\ r # s /\ Exists(r) /\ Exists(s)
        /\ u # v /\ dms[r].members = {u, v} /\ dms[s].members = {u, v}
        => {u, v} \in raced

=============================================================================

--------------------------- MODULE Friends_proofs ----------------------------
(***************************************************************************)
(* Friends by consent, and direct messages of two, for any users and any   *)
(* number of calls of GetOrCreateDM at a time; then the seeding of demo    *)
(* users, friendship and rooms, for any number of pods.                    *)
(*                                                                         *)
(* SecondDmOnlyByRace is not inductive: it says nothing of a call that has *)
(* looked in vain and is about to make a room.  RacedAtInsert adds what    *)
(* such a call knows, DmOfTwo that a room never had a third member.        *)
(*                                                                         *)
(* SeedsComplete looks at the end only.  SeedsGoOn says of the way there   *)
(* that, while nothing fails, what is missing behind a pod is about to be  *)
(* added by another.                                                       *)
(***************************************************************************)
EXTENDS Friends, Seeding, TLAPS

IdsUnique == \A f, g \in friendships : f.id = g.id => f = g

AcceptedAgreed == \A f \in friendships : f.status = "accepted" => f.id \in agreed

DmOfTwo == \A r \in DmIds : Exists(r) =>
    \E u, v \in Users : dms[r].members \subseteq {u, v}

\* Call q looks for, or makes, the room of u and v.
Inserting(q, u, v) == call[q].next = "insert" /\ {call[q].by, call[q].other} = {u, v}

RacedAtInsert ==
    \A q \in Calls, u, v \in Users : u # v /\ Inserting(q, u, v) =>
        /\ \A r \in DmIds : Exists(r) /\ dms[r].members = {u, v} => {u, v} \in raced
        /\ \A p \in Calls \ {q} : Inserting(p, u, v) => {u, v} \in raced

FriendsInv ==
    /\ FriendsTypeOK
    /\ IdsUnique /\ AcceptedAgreed
    /\ DmOfTwo /\ DmIsPrivate
    /\ RacedAtInsert /\ SecondDmOnlyByRace

LEMMA CallFacts == ASSUME FriendsTypeOK, NEW q \in Calls, call[q] # Idle
                   PROVE /\ call[q] \in Call
                         /\ call[q].by \in Users /\ call[q].other \in Users
BY DEF FriendsTypeOK, Call

LEMMA BusyCall == ASSUME NEW q \in Calls,
                         call[q].next \in {"lookup", "insert", "answered"}
                  PROVE call[q] # Idle
BY DEF Idle

LEMMA DmFacts == ASSUME FriendsTypeOK, NEW r \in DmIds, Exists(r)
                 PROVE dms[r] \in Dm
BY DEF FriendsTypeOK, Exists

-----------------------------------------------------------------------------
(* Friendships: the rooms stay as they are. *)

LEMMA DmsUnchanged ==
    ASSUME FriendsInv, UNCHANGED dmVars
    PROVE DmOfTwo' /\ DmIsPrivate' /\ RacedAtInsert' /\ SecondDmOnlyByRace'
<1>1. UNCHANGED <<dms, call, raced>>
    BY DEF dmVars
<1> QED BY <1>1 DEF FriendsInv, DmOfTwo, DmIsPrivate, RacedAtInsert, Inserting,
        SecondDmOnlyByRace, Exists

LEMMA FriendshipsUnchanged ==
    ASSUME FriendsInv, UNCHANGED friendVars
    PROVE IdsUnique' /\ AcceptedAgreed'
<1>1. UNCHANGED <<friendships, usedIds, agreed>>
    BY DEF friendVars
<1> QED BY <1>1 DEF FriendsInv, IdsUnique, AcceptedAgreed

LEMMA SendRequestStep ==
    ASSUME FriendsInv, NEW u \in users, NEW v \in Users, SendRequest(u, v)
    PROVE FriendsInv'
<1> USE DEF FriendsInv
<1>1. PICK id \in RowIds \ usedIds :
        /\ friendships' = friendships \cup
                {[id |-> id, requester |-> u, addressee |-> v, status |-> "pending"]}
        /\ usedIds' = usedIds \cup {id}
    BY DEF SendRequest
<1>2. UNCHANGED <<users, agreed, dms, call, raced>> /\ UNCHANGED dmVars /\ v \in users
    BY DEF SendRequest, dmVars
<1>3. [id |-> id, requester |-> u, addressee |-> v, status |-> "pending"] \in Friendship
    BY <1>1 DEF Friendship, FriendsTypeOK
<1>4. FriendsTypeOK'
    BY <1>1, <1>2, <1>3 DEF FriendsTypeOK
<1>5. IdsUnique' /\ AcceptedAgreed'
    BY <1>1, <1>2 DEF IdsUnique, AcceptedAgreed, FriendsTypeOK
<1> QED BY <1>2, <1>4, <1>5, DmsUnchanged

LEMMA AcceptStep ==
    ASSUME FriendsInv, NEW u \in users, NEW id \in usedIds, Accept(u, id)
    PROVE FriendsInv'
<1> USE DEF FriendsInv
<1>1. PICK f \in friendships :
        /\ f.id = id /\ f.addressee = u /\ f.status = "pending"
        /\ friendships' = (friendships \ {f}) \cup {[f EXCEPT !.status = "accepted"]}
        /\ agreed' = agreed \cup {id}
        /\ UNCHANGED <<users, usedIds, dmVars>>
    BY DEF Accept
<1> DEFINE g == [f EXCEPT !.status = "accepted"]
<1>2. f \in Friendship
    BY <1>1 DEF FriendsTypeOK
<1>3. g \in Friendship /\ g.id = f.id /\ g.requester = f.requester /\ g.addressee = f.addressee
    BY <1>2 DEF Friendship
<1>4. UNCHANGED <<users, usedIds, dms, call, raced>>
    BY <1>1 DEF dmVars
<1>5. FriendsTypeOK'
    BY <1>1, <1>3, <1>4 DEF FriendsTypeOK
<1>6. IdsUnique' /\ AcceptedAgreed'
    BY <1>1, <1>3 DEF IdsUnique, AcceptedAgreed
<1> QED BY <1>1, <1>5, <1>6, DmsUnchanged

LEMMA RemoveStep ==
    ASSUME FriendsInv, NEW u \in users, NEW id \in usedIds, RemoveFriendship(u, id)
    PROVE FriendsInv'
<1> USE DEF FriendsInv
<1>1. /\ friendships' \subseteq friendships
      /\ UNCHANGED <<users, usedIds, agreed, dmVars>>
    BY DEF RemoveFriendship
<1>2. UNCHANGED <<dms, call, raced>>
    BY <1>1 DEF dmVars
<1>3. FriendsTypeOK'
    BY <1>1, <1>2 DEF FriendsTypeOK
<1>4. IdsUnique' /\ AcceptedAgreed'
    BY <1>1 DEF IdsUnique, AcceptedAgreed
<1> QED BY <1>1, <1>3, <1>4, DmsUnchanged

-----------------------------------------------------------------------------
(* Direct messages. *)

\* A call that is not about to make a room when it is done.
LEMMA OtherCall ==
    ASSUME FriendsInv, NEW q \in Calls,
           UNCHANGED <<users, friendVars, dms, raced>>,
           call' \in [Calls -> Call \cup {Idle}],
           \A p \in Calls \ {q} : call'[p] = call[p],
           call'[q].next # "insert",
           call'[q].next = "answered" /\ call'[q].by # call'[q].other =>
                call'[q].with = {call'[q].by, call'[q].other}
    PROVE FriendsInv'
<1> USE DEF FriendsInv
<1>1. UNCHANGED <<friendships, usedIds, agreed>> /\ UNCHANGED friendVars
    BY DEF friendVars
<1>2. FriendsTypeOK'
    BY <1>1 DEF FriendsTypeOK
<1>3. DmOfTwo' /\ SecondDmOnlyByRace'
    BY DEF DmOfTwo, SecondDmOnlyByRace, Exists
<1>4. DmIsPrivate'
    BY DEF DmIsPrivate
<1>5. RacedAtInsert'
    <2>1. \A p \in Calls, u, v \in Users : Inserting(p, u, v)' => Inserting(p, u, v)
        BY DEF Inserting
    <2> QED BY <2>1 DEF RacedAtInsert, Exists
<1> QED BY <1>1, <1>2, <1>3, <1>4, <1>5, FriendshipsUnchanged

LEMMA CallDmStep ==
    ASSUME FriendsInv, NEW q \in Calls, NEW u \in users, NEW v \in Users, CallDm(q, u, v)
    PROVE FriendsInv'
<1> DEFINE c == [by |-> u, other |-> v, next |-> "lookup", room |-> "none", with |-> {}]
<1>1. call' = [call EXCEPT ![q] = c] /\ UNCHANGED <<users, friendVars, dms, raced>>
    BY DEF CallDm
<1>2. c \in Call /\ call \in [Calls -> Call \cup {Idle}]
    BY DEF FriendsInv, FriendsTypeOK, Call
<1>3. call' \in [Calls -> Call \cup {Idle}] /\ call'[q] = c
      /\ \A p \in Calls \ {q} : call'[p] = call[p]
    BY <1>1, <1>2
<1> QED BY <1>1, <1>3, OtherCall

LEMMA EndCallStep == ASSUME FriendsInv, NEW q \in Calls, EndCall(q) PROVE FriendsInv'
<1>1. call' = [call EXCEPT ![q] = Idle] /\ UNCHANGED <<users, friendVars, dms, raced>>
    BY DEF EndCall
<1>2. call' \in [Calls -> Call \cup {Idle}] /\ call'[q] = Idle
      /\ \A p \in Calls \ {q} : call'[p] = call[p]
    BY <1>1 DEF FriendsInv, FriendsTypeOK
<1> QED BY <1>1, <1>2, OtherCall DEF Idle

\* The room that is found has no third member.
LEMMA LookupFindsStep == ASSUME FriendsInv, NEW q \in Calls, LookupFinds(q) PROVE FriendsInv'
<1> USE DEF FriendsInv
<1>1. PICK r \in RoomsOf(call[q].by, call[q].other) : Answered(q, r, dms[r].members)
    BY DEF LookupFinds
<1>2. UNCHANGED <<users, friendVars, dms, raced>> /\ call[q] # Idle
    BY BusyCall DEF LookupFinds
<1>3. call[q] \in Call /\ call[q].by \in Users /\ call[q].other \in Users
    BY <1>2, CallFacts
<1>4. r \in DmIds /\ Exists(r) /\ {call[q].by, call[q].other} \subseteq dms[r].members
    BY DEF RoomsOf
<1>5. dms[r].members \in SUBSET Users
    BY <1>4, DmFacts DEF Dm
<1>6. call[q].by # call[q].other => dms[r].members = {call[q].by, call[q].other}
    BY <1>3, <1>4 DEF DmOfTwo
<1> DEFINE c == [call[q] EXCEPT !.next = "answered", !.room = r, !.with = dms[r].members]
<1>7. c \in Call /\ c.next = "answered" /\ c.by = call[q].by /\ c.other = call[q].other
      /\ c.with = dms[r].members
    BY <1>3, <1>4, <1>5 DEF Call
<1>8. call' \in [Calls -> Call \cup {Idle}] /\ call'[q] = c
      /\ \A p \in Calls \ {q} : call'[p] = call[p]
    BY <1>1, <1>3, <1>7 DEF Answered, FriendsTypeOK
<1>9. call'[q].next # "insert" /\ call'[q].by = call[q].by /\ call'[q].other = call[q].other
      /\ call'[q].with = dms[r].members
    BY <1>7, <1>8
<1> HIDE DEF c
<1> QED BY <1>2, <1>6, <1>8, <1>9, OtherCall

\* A call that looks in vain while the room is there, or while another is about
\* to make it, races.
LEMMA LookupMissesStep == ASSUME FriendsInv, NEW q \in Calls, LookupMisses(q) PROVE FriendsInv'
<1> USE DEF FriendsInv
<1> DEFINE pair == {call[q].by, call[q].other}
<1>1. call[q] # Idle /\ call[q].next = "lookup"
    BY BusyCall DEF LookupMisses
<1>2. call[q] \in Call /\ call[q].by \in Users /\ call[q].other \in Users
    BY <1>1, CallFacts
<1>3. UNCHANGED <<users, friendVars, dms>> /\ UNCHANGED <<friendships, usedIds, agreed>>
    BY DEF LookupMisses, friendVars
<1>4. raced \subseteq raced' /\ raced' \subseteq SUBSET Users
    BY <1>2 DEF LookupMisses, FriendsTypeOK
<1>5. /\ call' \in [Calls -> Call \cup {Idle}]
      /\ call'[q].by = call[q].by /\ call'[q].other = call[q].other /\ call'[q].next = "insert"
      /\ \A p \in Calls \ {q} : call'[p] = call[p]
    BY <1>2 DEF LookupMisses, FriendsTypeOK, Call
<1>6. ASSUME NEW r \in DmIds, Exists(r), dms[r].members = pair PROVE pair \in raced'
    BY <1>6 DEF LookupMisses, RoomsOf
<1>7. ASSUME NEW p \in Calls \ {q}, call[p].next = "insert", {call[p].by, call[p].other} = pair
      PROVE pair \in raced'
    BY <1>7 DEF LookupMisses
<1>8. FriendsTypeOK'
    BY <1>3, <1>4, <1>5 DEF FriendsTypeOK
<1>9. DmOfTwo' /\ SecondDmOnlyByRace'
    BY <1>3, <1>4 DEF DmOfTwo, SecondDmOnlyByRace, Exists
<1>10. DmIsPrivate'
    BY <1>5 DEF DmIsPrivate
<1>11. RacedAtInsert'
    <2>1. \A p \in Calls \ {q}, u, v \in Users : Inserting(p, u, v)' <=> Inserting(p, u, v)
        BY <1>5 DEF Inserting
    <2>2. \A u, v \in Users : Inserting(q, u, v)' => {u, v} = pair
        BY <1>5 DEF Inserting
    <2> SUFFICES ASSUME NEW p \in Calls, NEW u \in Users, NEW v \in Users, u # v, Inserting(p, u, v)'
                 PROVE /\ \A r \in DmIds : Exists(r) /\ dms[r].members = {u, v} => {u, v} \in raced'
                       /\ \A s \in Calls \ {p} : Inserting(s, u, v)' => {u, v} \in raced'
        BY <1>3 DEF RacedAtInsert, Exists
    <2>3. CASE p = q
        <3>1. pair = {u, v}
            BY <2>3, <2>2
        <3>2. ASSUME NEW s \in Calls \ {p}, Inserting(s, u, v)' PROVE {u, v} \in raced'
            <4>1. Inserting(s, u, v) /\ s \in Calls \ {q}
                BY <2>3, <3>2, <2>1
            <4> QED BY <4>1, <3>1, <1>7 DEF Inserting
        <3> QED BY <3>1, <3>2, <1>6
    <2>4. CASE p # q
        <3>1. Inserting(p, u, v)
            BY <2>4, <2>1
        <3>2. \A r \in DmIds : Exists(r) /\ dms[r].members = {u, v} => {u, v} \in raced'
            BY <3>1, <1>4 DEF RacedAtInsert
        <3>3. ASSUME NEW s \in Calls \ {p}, Inserting(s, u, v)' PROVE {u, v} \in raced'
            <4>1. CASE s = q
                BY <4>1, <3>1, <3>3, <2>2, <2>4, <1>7 DEF Inserting
            <4>2. CASE s # q
                BY <4>2, <3>1, <3>3, <2>1, <1>4 DEF RacedAtInsert
            <4> QED BY <4>1, <4>2
        <3> QED BY <3>2, <3>3
    <2> QED BY <2>3, <2>4
<1> QED BY <1>3, <1>8, <1>9, <1>10, <1>11, FriendshipsUnchanged

LEMMA InsertDmStep == ASSUME FriendsInv, NEW q \in Calls, InsertDm(q) PROVE FriendsInv'
<1> USE DEF FriendsInv
<1> DEFINE pair == {call[q].by, call[q].other}
<1>1. PICK n \in DmIds :
        /\ dms[n] = NoRoom
        /\ dms' = [dms EXCEPT ![n] = [owner |-> call[q].by, members |-> pair]]
        /\ Answered(q, n, pair)
    BY DEF InsertDm
<1>2. /\ call[q].next = "insert" /\ call[q] # Idle /\ call[q].by # call[q].other
      /\ UNCHANGED <<users, friendVars, raced>> /\ UNCHANGED <<friendships, usedIds, agreed>>
    BY BusyCall DEF InsertDm, friendVars
<1>3. call[q] \in Call /\ call[q].by \in Users /\ call[q].other \in Users
    BY <1>2, CallFacts
<1> DEFINE new == [owner |-> call[q].by, members |-> pair]
<1>4. new \in Dm /\ new.members = pair
    BY <1>3 DEF Dm
<1>5. /\ dms' \in [DmIds -> Dm \cup {NoRoom, Deleted}]
      /\ dms'[n] = new /\ \A r \in DmIds \ {n} : dms'[r] = dms[r]
    BY <1>1, <1>4 DEF FriendsTypeOK
<1>6. \A r \in DmIds \ {n} : Exists(r)' <=> Exists(r)
    BY <1>5 DEF Exists
<1> DEFINE c == [call[q] EXCEPT !.next = "answered", !.room = n, !.with = pair]
<1>7. c \in Call /\ c.next = "answered" /\ c.by = call[q].by /\ c.other = call[q].other
      /\ c.with = pair
    BY <1>3 DEF Call
<1>8. call' \in [Calls -> Call \cup {Idle}] /\ call'[q] = c
      /\ \A p \in Calls \ {q} : call'[p] = call[p]
    BY <1>1, <1>3, <1>7 DEF Answered, FriendsTypeOK
<1>9. Inserting(q, call[q].by, call[q].other)
    BY <1>2 DEF Inserting
<1>10. FriendsTypeOK'
    BY <1>2, <1>5, <1>8 DEF FriendsTypeOK
<1>11. DmOfTwo'
    BY <1>3, <1>4, <1>5, <1>6 DEF DmOfTwo
<1>12. DmIsPrivate'
    BY <1>7, <1>8 DEF DmIsPrivate
<1>13. RacedAtInsert'
    <2>1. \A p \in Calls, u, v \in Users : Inserting(p, u, v)' => p # q /\ Inserting(p, u, v)
        BY <1>7, <1>8 DEF Inserting
    <2> SUFFICES ASSUME NEW p \in Calls, NEW u \in Users, NEW v \in Users, u # v, Inserting(p, u, v)'
                 PROVE /\ \A r \in DmIds : Exists(r)' /\ dms'[r].members = {u, v} => {u, v} \in raced
                       /\ \A s \in Calls \ {p} : Inserting(s, u, v)' => {u, v} \in raced
        BY <1>2 DEF RacedAtInsert
    <2>2. pair = {u, v} => Inserting(q, u, v)
        BY <1>2 DEF Inserting
    <2>3. pair = {u, v} => {u, v} \in raced
        BY <2>1, <2>2 DEF RacedAtInsert
    <2> QED BY <2>1, <2>3, <1>4, <1>5, <1>6 DEF RacedAtInsert
<1>14. SecondDmOnlyByRace'
    <2> SUFFICES ASSUME NEW r \in DmIds, NEW s \in DmIds, NEW u \in Users, NEW v \in Users,
                        r # s, Exists(r)', Exists(s)', u # v,
                        dms'[r].members = {u, v}, dms'[s].members = {u, v}
                 PROVE {u, v} \in raced
        BY <1>2 DEF SecondDmOnlyByRace
    <2>1. ASSUME NEW t \in DmIds, t # n, Exists(t)', dms'[t].members = pair PROVE pair \in raced
        BY <2>1, <1>2, <1>3, <1>5, <1>6, <1>9 DEF RacedAtInsert
    <2>2. CASE r = n \/ s = n
        BY <2>1, <2>2, <1>4, <1>5
    <2>3. CASE r # n /\ s # n
        BY <2>3, <1>5, <1>6 DEF SecondDmOnlyByRace
    <2> QED BY <2>2, <2>3
<1> QED BY <1>2, <1>10, <1>11, <1>12, <1>13, <1>14, FriendshipsUnchanged

-----------------------------------------------------------------------------

\* A room that loses a member is no longer a room of two.
LEMMA RoomsShrink ==
    ASSUME FriendsInv, UNCHANGED <<call, raced>>,
           \A r \in DmIds : Exists(r)' => Exists(r) /\ dms'[r].members \subseteq dms[r].members
    PROVE DmOfTwo' /\ DmIsPrivate' /\ RacedAtInsert' /\ SecondDmOnlyByRace'
<1> USE DEF FriendsInv
<1>1. DmOfTwo'
    <2> SUFFICES ASSUME NEW r \in DmIds, Exists(r)'
                 PROVE \E u, v \in Users : dms'[r].members \subseteq {u, v}
        BY DEF DmOfTwo
    <2>1. PICK u, v \in Users : dms[r].members \subseteq {u, v}
        BY DEF DmOfTwo
    <2> QED BY <2>1
<1>2. DmIsPrivate'
    BY DEF DmIsPrivate
<1>3. \A r \in DmIds, u, v \in Users :
        Exists(r)' /\ u # v /\ dms'[r].members = {u, v} => Exists(r) /\ dms[r].members = {u, v}
    <2> SUFFICES ASSUME NEW r \in DmIds, NEW u \in Users, NEW v \in Users,
                        Exists(r)', u # v, dms'[r].members = {u, v}
                 PROVE Exists(r) /\ dms[r].members = {u, v}
        OBVIOUS
    <2>1. Exists(r) /\ {u, v} \subseteq dms[r].members
        OBVIOUS
    <2>2. PICK a, b \in Users : dms[r].members \subseteq {a, b}
        BY <2>1 DEF DmOfTwo
    <2> QED BY <2>1, <2>2
<1>4. RacedAtInsert'
    BY <1>3 DEF RacedAtInsert, Inserting
<1>5. SecondDmOnlyByRace'
    BY <1>3 DEF SecondDmOnlyByRace
<1> QED BY <1>1, <1>2, <1>4, <1>5

LEMMA DeleteUserStep == ASSUME FriendsInv, NEW d \in users, DeleteUser(d) PROVE FriendsInv'
<1> USE DEF FriendsInv
<1>1. /\ users' = users \ {d}
      /\ friendships' = {f \in friendships : d \notin {f.requester, f.addressee}}
      /\ UNCHANGED <<usedIds, agreed, call, raced>>
    BY DEF DeleteUser
<1>2. \A r \in DmIds : dms'[r] = IF ~Exists(r) THEN dms[r]
                                 ELSE IF dms[r].owner = d THEN Deleted
                                 ELSE [dms[r] EXCEPT !.members = @ \ {d}]
    BY DEF DeleteUser
<1>3. \A r \in DmIds : Exists(r) => dms[r] \in Dm
    BY DmFacts
<1>4. \A r \in DmIds : Exists(r) =>
        [dms[r] EXCEPT !.members = @ \ {d}] \in Dm
    BY <1>3 DEF Dm
<1>5. dms' \in [DmIds -> Dm \cup {NoRoom, Deleted}]
    BY <1>2, <1>4 DEF DeleteUser, FriendsTypeOK
<1>6. \A r \in DmIds : Exists(r)' => Exists(r) /\ dms'[r].members \subseteq dms[r].members
    <2>1. \A r \in DmIds : Exists(r)' => Exists(r) /\ dms'[r].members = dms[r].members \ {d}
        BY <1>2, <1>3 DEF Exists, Dm
    <2> QED BY <2>1
<1>7. FriendsTypeOK'
    BY <1>1, <1>5 DEF FriendsTypeOK
<1>8. IdsUnique' /\ AcceptedAgreed'
    BY <1>1 DEF IdsUnique, AcceptedAgreed
<1> QED BY <1>1, <1>6, <1>7, <1>8, RoomsShrink

LEMMA DeleteDmStep == ASSUME FriendsInv, NEW d \in DmIds, DeleteDm(d) PROVE FriendsInv'
<1> USE DEF FriendsInv
<1>1. dms' = [dms EXCEPT ![d] = Deleted] /\ UNCHANGED <<users, friendVars, call, raced>>
      /\ UNCHANGED <<friendships, usedIds, agreed>>
    BY DEF DeleteDm, friendVars
<1>2. \A r \in DmIds : Exists(r)' => Exists(r) /\ dms'[r].members \subseteq dms[r].members
    BY <1>1 DEF Exists, FriendsTypeOK
<1>3. FriendsTypeOK'
    BY <1>1 DEF FriendsTypeOK
<1> QED BY <1>1, <1>2, <1>3, RoomsShrink, FriendshipsUnchanged

LEMMA KickFromDmStep ==
    ASSUME FriendsInv, NEW d \in DmIds, NEW u \in users, KickFromDm(d, u)
    PROVE FriendsInv'
<1> USE DEF FriendsInv
<1> DEFINE rest == [dms[d] EXCEPT !.members = @ \ {u}]
<1>1. dms' = [dms EXCEPT ![d] = rest] /\ UNCHANGED <<users, friendVars, call, raced>>
      /\ UNCHANGED <<friendships, usedIds, agreed>> /\ Exists(d)
    BY DEF KickFromDm, friendVars
<1>2. dms[d] \in Dm
    BY <1>1, DmFacts
<1>3. rest \in Dm /\ rest.members \subseteq dms[d].members
    BY <1>2 DEF Dm
<1> HIDE DEF rest
<1>4. \A r \in DmIds : Exists(r)' => Exists(r) /\ dms'[r].members \subseteq dms[r].members
    <2>1. dms'[d] = rest /\ \A r \in DmIds \ {d} : dms'[r] = dms[r]
        BY <1>1 DEF FriendsTypeOK
    <2> QED BY <1>1, <1>3, <2>1 DEF Exists
<1>5. FriendsTypeOK'
    BY <1>1, <1>3 DEF FriendsTypeOK
<1> QED BY <1>1, <1>4, <1>5, RoomsShrink, FriendshipsUnchanged

LEMMA FriendsInvInit == FriendsInit => FriendsInv
<1> SUFFICES ASSUME FriendsInit PROVE FriendsInv
    OBVIOUS
<1>1. /\ users = Users /\ friendships = {} /\ usedIds = {} /\ agreed = {} /\ raced = {}
      /\ dms = [r \in DmIds |-> NoRoom] /\ call = [q \in Calls |-> Idle]
    BY DEF FriendsInit
<1>2. FriendsTypeOK /\ IdsUnique /\ AcceptedAgreed
    BY <1>1 DEF FriendsTypeOK, IdsUnique, AcceptedAgreed
<1>3. \A r \in DmIds : ~Exists(r)
    BY <1>1 DEF Exists
<1>4. \A q \in Calls : call[q].next = "idle"
    BY <1>1 DEF Idle
<1> QED BY <1>2, <1>3, <1>4 DEF FriendsInv, DmOfTwo, DmIsPrivate, RacedAtInsert, Inserting,
        SecondDmOnlyByRace

LEMMA FriendsInvStep == FriendsInv /\ [FriendsNext]_friendsVars => FriendsInv'
<1> SUFFICES ASSUME FriendsInv, [FriendsNext]_friendsVars PROVE FriendsInv'
    OBVIOUS
<1>1. CASE UNCHANGED friendsVars
    <2>1. UNCHANGED <<users, friendships, usedIds, agreed, dms, call, raced>>
          /\ UNCHANGED friendVars /\ UNCHANGED dmVars
        BY <1>1 DEF friendsVars, friendVars, dmVars
    <2> QED BY <2>1, DmsUnchanged, FriendshipsUnchanged DEF FriendsInv, FriendsTypeOK
<1>2. CASE FriendshipNext
    BY <1>2, SendRequestStep, AcceptStep, RemoveStep DEF FriendshipNext
<1>3. CASE DmNext
    BY <1>3, CallDmStep, LookupFindsStep, LookupMissesStep, InsertDmStep, EndCallStep,
           DeleteDmStep, KickFromDmStep DEF DmNext
<1>4. CASE \E u \in users : DeleteUser(u)
    BY <1>4, DeleteUserStep
<1> QED BY <1>1, <1>2, <1>3, <1>4 DEF FriendsNext

LEMMA FriendsInvAlways == FriendsSpec => []FriendsInv
<1> QED BY FriendsInvInit, FriendsInvStep, PTL DEF FriendsSpec

\* The rows of friendships name users that are there, and rooms and calls are
\* always of their types (friend_repo.go).
THEOREM FriendsTypeCorrect == FriendsSpec => []FriendsTypeOK
<1>1. FriendsInv => FriendsTypeOK
    BY DEF FriendsInv
<1> QED BY <1>1, FriendsInvAlways, PTL

\* No two users become friends without a request of one that the other accepted,
\* whatever is removed, sent again or deleted meanwhile (friend_repo.go:22-48).
THEOREM AlwaysFriendsByConsent == FriendsSpec => []FriendsByConsent
<1>1. FriendsInv => FriendsByConsent
    <2> SUFFICES ASSUME FriendsInv, NEW u \in users, NEW v \in FriendsOf(u)
                 PROVE \E f \in friendships : /\ {f.requester, f.addressee} = {u, v}
                                              /\ f.status = "accepted" /\ f.id \in agreed
        BY DEF FriendsByConsent
    <2>1. PICK f \in friendships :
            f.status = "accepted" /\ <<f.requester, f.addressee>> \in {<<u, v>>, <<v, u>>}
        BY DEF FriendsOf
    <2> QED BY <2>1 DEF FriendsInv, AcceptedAgreed
<1> QED BY <1>1, FriendsInvAlways, PTL

\* No request, however often it is repeated, turns a friendship back into a
\* request (friend_repo.go:22: ON CONFLICT DO NOTHING).
THEOREM AcceptedAlwaysStays == FriendsSpec => AcceptedStays
<1> DEFINE Stays == \A f \in friendships : f.status = "accepted" =>
                        f \in friendships' \/ ~\E g \in friendships' : g.id = f.id
<1>1. FriendsInv /\ [FriendsNext]_friendsVars => [Stays]_friendsVars
    <2> SUFFICES ASSUME FriendsInv, FriendsNext PROVE Stays
        OBVIOUS
    <2> USE DEF FriendsInv
    <2>1. ASSUME NEW u \in users, NEW v \in Users, SendRequest(u, v) PROVE Stays
        BY <2>1 DEF SendRequest
    <2>2. ASSUME NEW u \in users, NEW id \in usedIds, Accept(u, id) PROVE Stays
        BY <2>2 DEF Accept
    <2>3. ASSUME NEW u \in users, NEW id \in usedIds, RemoveFriendship(u, id) PROVE Stays
        BY <2>3 DEF RemoveFriendship, IdsUnique
    <2>4. ASSUME DmNext PROVE Stays
        <3>1. UNCHANGED friendVars
            BY <2>4 DEF DmNext, CallDm, LookupFinds, LookupMisses, InsertDm, EndCall, DeleteDm,
                            KickFromDm
        <3> QED BY <3>1 DEF friendVars
    <2>5. ASSUME NEW u \in users, DeleteUser(u) PROVE Stays
        BY <2>5 DEF DeleteUser, IdsUnique
    <2> QED BY <2>1, <2>2, <2>3, <2>4, <2>5 DEF FriendsNext, FriendshipNext
<1> QED BY <1>1, FriendsInvAlways, PTL DEF FriendsSpec, AcceptedStays

\* A call of GetOrCreateDM never answers a room with a third member, for any
\* number of users and calls (friend_repo.go:111).
THEOREM DmAlwaysPrivate == FriendsSpec => []DmIsPrivate
<1>1. FriendsInv => DmIsPrivate
    BY DEF FriendsInv
<1> QED BY <1>1, FriendsInvAlways, PTL

\* Two rooms for the same two users take two calls that overlap, or a lookup
\* that failed (friend_repo.go:108-140).
THEOREM SecondDmAlwaysByRace == FriendsSpec => []SecondDmOnlyByRace
<1>1. FriendsInv => SecondDmOnlyByRace
    BY DEF FriendsInv
<1> QED BY <1>1, FriendsInvAlways, PTL

-----------------------------------------------------------------------------
(* Seeding. *)

Complete == demo /\ friend /\ friendship /\ \A n \in Names : rooms[n] > 0

\* Where the demo user is known to be there.
WithDemo == {"find_friend", "insert_friend", "befriend", "find_text", "insert_text", "find_voice",
             "insert_voice"}

\* A pod that goes on after demofriend.
Ahead(p) == pod[p].next \in {"befriend", "find_text", "insert_text", "find_voice", "insert_voice"}

\* A pod that will add the friendship.
Befriends(p) == pod[p].next = "befriend" /\ pod[p].knows

\* What a pod has read is still so.
SeedsKnow ==
    \A p \in Pods :
        /\ pod[p].next \in WithDemo => demo
        /\ Seeds(p) /\ pod[p].knows => friend

\* Of two pods about to add the same room, or one that adds a second, one
\* looked while it should not have.
OverlapAtInsert ==
    \A n \in Names : \A p \in Pods : InsertsRoom(p, n) =>
        /\ rooms[n] > 0 => n \in overlapped
        /\ \A q \in Pods \ {p} : InsertsRoom(q, n) => n \in overlapped

\* While nothing fails: what is missing behind a pod, another pod is about to add.
SeedsGoOn ==
    ~hurt =>
        /\ \A p \in Pods : pod[p].next = "find_demo" => demo
        /\ \A p \in Pods : Ahead(p) => friend
        /\ \A p \in Pods : Ahead(p) \/ (pod[p].next = "insert_friend" /\ friend) =>
              friendship \/ \E q \in Pods : Befriends(q)
        /\ \A p \in Pods : pod[p].next \in {"find_voice", "insert_voice"} => rooms["text"] > 0
        /\ \A p \in Pods : pod[p].next = "insert_friend" /\ friend => Complete \/ \E q \in Pods : Ahead(q)
        /\ (\E p \in Pods : pod[p] = Serving) => Complete \/ \E q \in Pods : Seeds(q)

\* The inductive invariant.
SeedingInv ==
    /\ SeedingTypeOK
    /\ SeedsKnow
    /\ OverlapAtInsert /\ RoomTwiceOnlyByOverlap
    /\ SeedsGoOn

SeedStates == [next : Steps, knows : BOOLEAN, exists : BOOLEAN]
PodsOK(f) == f \in [Pods -> SeedStates \cup {Down, Serving}]

\* p goes on to step x, and the other pods stay where they are.
Goes(p, x, k, e) ==
    /\ PodsOK(pod')
    /\ \A q \in Pods \ {p} : pod'[q] = pod[q]
    /\ pod'[p].next = x /\ pod'[p].knows = k /\ pod'[p].exists = e /\ x \in Steps /\ k \in BOOLEAN

\* p ends or begins to serve.
Becomes(p, s) ==
    /\ PodsOK(pod')
    /\ \A q \in Pods \ {p} : pod'[q] = pod[q]
    /\ pod'[p] = s /\ s \in {Down, Serving}

LEMMA StepNames ==
    /\ Serving.next = "serving" /\ Down.next = "down" /\ Serving # Down
    /\ "serving" \notin Steps /\ "down" \notin Steps
    /\ \A s \in SeedStates : s.next \in Steps /\ s # Serving /\ s # Down
BY DEF Serving, Down, Steps, SeedStates

\* A pod that seeds has all three fields.
LEMMA SeedsTyped ==
    ASSUME PodsOK(pod), NEW p \in Pods
    PROVE Seeds(p) <=> pod[p] \in SeedStates
BY StepNames DEF PodsOK, Seeds

LEMMA PodGoes ==
    ASSUME PodsOK(pod), NEW p \in Pods, NEW x \in Steps, NEW k \in BOOLEAN, NEW e \in BOOLEAN, NEW s,
           s = [next |-> x, knows |-> k, exists |-> e], pod' = [pod EXCEPT ![p] = s]
    PROVE Goes(p, x, k, e)
<1>1. s \in SeedStates /\ s.next = x /\ s.knows = k /\ s.exists = e
    BY DEF SeedStates
<1>2. \A q \in Pods : pod'[q] = IF q = p THEN s ELSE pod[q]
    BY DEF PodsOK
<1>3. PodsOK(pod')
    BY <1>1, <1>2 DEF PodsOK
<1> QED BY <1>1, <1>2, <1>3 DEF Goes

LEMMA PodContinues ==
    ASSUME PodsOK(pod), NEW p \in Pods, Seeds(p), NEW x \in Steps, Continue(p, x)
    PROVE Goes(p, x, pod[p].knows, pod[p].exists)
<1>1. pod[p] \in SeedStates
    BY SeedsTyped
<1> DEFINE s == [pod[p] EXCEPT !.next = x]
<1>2. s = [next |-> x, knows |-> pod[p].knows, exists |-> pod[p].exists]
    BY <1>1 DEF SeedStates
<1>3. pod' = [pod EXCEPT ![p] = s]
    BY DEF Continue
<1>4. pod[p].knows \in BOOLEAN /\ pod[p].exists \in BOOLEAN
    BY <1>1 DEF SeedStates
<1> HIDE DEF s
<1> QED BY <1>2, <1>3, <1>4, PodGoes

\* The same when it also learns the id of demofriend.
LEMMA PodLearns ==
    ASSUME PodsOK(pod), NEW p \in Pods, Seeds(p), NEW x \in Steps, NEW k \in BOOLEAN,
           pod' = [pod EXCEPT ![p].next = x, ![p].knows = k]
    PROVE Goes(p, x, k, pod[p].exists)
<1>1. pod[p] \in SeedStates
    BY SeedsTyped
<1> DEFINE s == [[pod[p] EXCEPT !.next = x] EXCEPT !.knows = k]
<1>2. s = [next |-> x, knows |-> k, exists |-> pod[p].exists]
    <2> DEFINE t == [next |-> x, knows |-> pod[p].knows, exists |-> pod[p].exists]
    <2>1. [pod[p] EXCEPT !.next = x] = t
        BY <1>1 DEF SeedStates
    <2>2. [t EXCEPT !.knows = k] = [next |-> x, knows |-> k, exists |-> pod[p].exists]
        OBVIOUS
    <2> QED BY <2>1, <2>2
<1>3. pod' = [pod EXCEPT ![p] = s]
    BY DEF PodsOK
<1>4. pod[p].exists \in BOOLEAN
    BY <1>1 DEF SeedStates
<1>5. PICK e \in BOOLEAN : e = pod[p].exists
    BY <1>4
<1>6. s = [next |-> x, knows |-> k, exists |-> e]
    BY <1>2, <1>5
<1> HIDE DEF s
<1>7. Goes(p, x, k, e)
    BY <1>3, <1>6, PodGoes
<1> QED BY <1>5, <1>7

\* The same when it has looked a room up in vain.
LEMMA PodMissesRoom ==
    ASSUME PodsOK(pod), NEW p \in Pods, Seeds(p), NEW x \in Steps, NEW e \in BOOLEAN,
           pod' = [pod EXCEPT ![p].exists = e, ![p].next = x]
    PROVE Goes(p, x, pod[p].knows, e)
<1>1. pod[p] \in SeedStates
    BY SeedsTyped
<1> DEFINE s == [[pod[p] EXCEPT !.exists = e] EXCEPT !.next = x]
<1>2. s = [next |-> x, knows |-> pod[p].knows, exists |-> e]
    <2> DEFINE t == [next |-> pod[p].next, knows |-> pod[p].knows, exists |-> e]
    <2>1. [pod[p] EXCEPT !.exists = e] = t
        BY <1>1 DEF SeedStates
    <2>2. [t EXCEPT !.next = x] = [next |-> x, knows |-> pod[p].knows, exists |-> e]
        OBVIOUS
    <2> QED BY <2>1, <2>2
<1>3. pod' = [pod EXCEPT ![p] = s]
    BY DEF PodsOK
<1>4. pod[p].knows \in BOOLEAN
    BY <1>1 DEF SeedStates
<1>5. PICK k \in BOOLEAN : k = pod[p].knows
    BY <1>4
<1>6. s = [next |-> x, knows |-> k, exists |-> e]
    BY <1>2, <1>5
<1> HIDE DEF s
<1>7. Goes(p, x, k, e)
    BY <1>3, <1>6, PodGoes
<1> QED BY <1>5, <1>7

LEMMA PodBecomes ==
    ASSUME PodsOK(pod), NEW p \in Pods, NEW s \in {Down, Serving}, pod' = [pod EXCEPT ![p] = s]
    PROVE Becomes(p, s)
BY DEF PodsOK, Becomes

\* After a room: the text room comes before the voice room.
LEMMA PodAfterRoom ==
    ASSUME PodsOK(pod), NEW p \in Pods, Seeds(p), NEW n \in Names, NEW e \in BOOLEAN, AfterRoom(p, n, e)
    PROVE /\ n = "text" => Goes(p, "find_voice", pod[p].knows, e)
          /\ n = "voice" => Becomes(p, Serving)
<1>1. CASE n = "voice"
    BY <1>1, PodBecomes DEF AfterRoom
<1>2. CASE n # "voice"
    <2>1. pod[p] \in SeedStates
        BY SeedsTyped
    <2> DEFINE s == [[pod[p] EXCEPT !.next = "find_voice"] EXCEPT !.exists = e]
    <2>2. s = [next |-> "find_voice", knows |-> pod[p].knows, exists |-> e]
        <3> DEFINE t == [next |-> "find_voice", knows |-> pod[p].knows, exists |-> pod[p].exists]
        <3>1. [pod[p] EXCEPT !.next = "find_voice"] = t
            BY <2>1 DEF SeedStates
        <3>2. [t EXCEPT !.exists = e] = [next |-> "find_voice", knows |-> pod[p].knows, exists |-> e]
            OBVIOUS
        <3> QED BY <3>1, <3>2
    <2>3. pod' = [pod EXCEPT ![p] = s]
        BY <1>2 DEF AfterRoom
    <2>4. pod[p].knows \in BOOLEAN /\ "find_voice" \in Steps
        BY <2>1 DEF SeedStates, Steps
    <2> HIDE DEF s
    <2> QED BY <1>2, <2>2, <2>3, <2>4, PodGoes DEF Names
<1> QED BY <1>1, <1>2

\* The two conjuncts that only look at what p now does, when no room is added
\* and p is not about to add one.
LEMMA RoomsKept ==
    ASSUME OverlapAtInsert, RoomTwiceOnlyByOverlap, NEW p \in Pods,
           \A q \in Pods \ {p} : pod'[q] = pod[q],
           pod'[p].next \notin {"insert_text", "insert_voice"},
           rooms' = rooms, overlapped' = overlapped
    PROVE OverlapAtInsert' /\ RoomTwiceOnlyByOverlap'
<1>1. RoomTwiceOnlyByOverlap'
    BY DEF RoomTwiceOnlyByOverlap
<1>2. ASSUME NEW n \in Names, NEW q \in Pods, InsertsRoom(q, n)'
      PROVE q # p /\ InsertsRoom(q, n)
    BY <1>2 DEF InsertsRoom, Names
<1>3. OverlapAtInsert'
    BY <1>2 DEF OverlapAtInsert
<1> QED BY <1>1, <1>3

LEMMA KnowKept ==
    ASSUME SeedsKnow, NEW p \in Pods, demo => demo', friend => friend',
           \A q \in Pods \ {p} : pod'[q] = pod[q],
           pod'[p].next \in WithDemo => demo',
           Seeds(p)' /\ pod'[p].knows => friend'
    PROVE SeedsKnow'
BY DEF SeedsKnow, Seeds

\* Where the pods are, in terms of their next step.
LEMMA Standing ==
    ASSUME PodsOK(pod)
    PROVE \A p \in Pods :
            /\ pod[p].next = "serving" <=> pod[p] = Serving
            /\ pod[p].next = "down" <=> pod[p] = Down
            /\ Seeds(p) <=> pod[p] # Serving /\ pod[p] # Down
BY StepNames DEF PodsOK, Seeds

LEMMA StartKeeps ==
    ASSUME SeedingInv, NEW p \in Pods, StartPod(p)
    PROVE SeedingInv'
<1>1. PodsOK(pod)
    BY DEF SeedingInv, SeedingTypeOK, PodsOK, SeedStates
<1>2. Goes(p, "count", FALSE, FALSE)
    <2>1. PICK k \in BOOLEAN : k = FALSE
        OBVIOUS
    <2>2. Start = [next |-> "count", knows |-> k, exists |-> k] /\ "count" \in Steps
        BY <2>1 DEF Start, Steps
    <2>3. pod' = [pod EXCEPT ![p] = Start]
        BY DEF StartPod
    <2>4. Goes(p, "count", k, k)
        BY <1>1, <2>2, <2>3, PodGoes
    <2> QED BY <2>1, <2>4
<1>3. pod[p].next = "down"
    BY StepNames DEF StartPod
<1>4. demo' = demo /\ friend' = friend /\ friendship' = friendship /\ rooms' = rooms /\ overlapped' = overlapped
    BY DEF StartPod, tables
<1>5. hurt' \in BOOLEAN
    BY DEF StartPod
<1>6. SeedingTypeOK'
    BY <1>2, <1>4, <1>5 DEF SeedingInv, SeedingTypeOK, Goes, PodsOK, SeedStates
<1>7. SeedsKnow'
    BY <1>2, <1>4, KnowKept DEF SeedingInv, Goes, WithDemo
<1>8. OverlapAtInsert' /\ RoomTwiceOnlyByOverlap'
    BY <1>2, <1>4, RoomsKept DEF SeedingInv, Goes
<1>9. SeedsGoOn'
    <2>1. CASE hurt'
        BY <2>1 DEF SeedsGoOn
    <2>2. CASE ~hurt /\ ~hurt'
        BY <1>1, <1>2, <1>3, <1>4, <2>2, Standing
        DEF SeedingInv, SeedsGoOn, Goes, Ahead, Befriends, Seeds, Complete
    <2>3. CASE hurt /\ ~hurt'
        <3>1. \A q \in Pods : pod[q].next \notin Steps
            BY <2>3 DEF StartPod, Seeds
        <3>2. \A q \in Pods : q = p \/ pod'[q].next \notin Steps
            BY <3>1, <1>2 DEF Goes
        <3>3. \A q \in Pods : pod'[q].next = "count" \/ pod'[q].next \notin Steps
            BY <3>2, <1>2 DEF Goes
        <3>4. Seeds(p)'
            BY <1>2 DEF Goes, Seeds
        <3> QED BY <3>3, <3>4 DEF SeedsGoOn, Steps, Ahead
    <2> QED BY <2>1, <2>2, <2>3
<1> QED BY <1>6, <1>7, <1>8, <1>9 DEF SeedingInv

LEMMA StopKeeps ==
    ASSUME SeedingInv, NEW p \in Pods, StopPod(p)
    PROVE SeedingInv'
<1>1. PodsOK(pod)
    BY DEF SeedingInv, SeedingTypeOK, PodsOK, SeedStates
<1>2. Becomes(p, Down)
    BY <1>1, PodBecomes DEF StopPod
<1>4. demo' = demo /\ friend' = friend /\ friendship' = friendship /\ rooms' = rooms /\ overlapped' = overlapped
    BY DEF StopPod, tables
<1>5. hurt' \in BOOLEAN /\ (~hurt' => ~hurt /\ pod[p].next \notin Steps)
    BY DEF StopPod, Seeds
<1>6. SeedingTypeOK'
    BY <1>2, <1>4, <1>5 DEF SeedingInv, SeedingTypeOK, Becomes, PodsOK, SeedStates
<1>7. pod'[p].next = "down" /\ "down" \notin Steps /\ "serving" \notin Steps
    BY <1>2, StepNames DEF Becomes
<1>8. SeedsKnow'
    BY <1>2, <1>4, <1>7, KnowKept DEF SeedingInv, Becomes, WithDemo, Seeds
<1>9. OverlapAtInsert' /\ RoomTwiceOnlyByOverlap'
    BY <1>2, <1>4, <1>7, RoomsKept DEF SeedingInv, Becomes
<1>10. SeedsGoOn'
    <2>1. CASE hurt'
        BY <2>1 DEF SeedsGoOn
    <2>2. CASE ~hurt'
        <3>1. Serving # Down
            BY StepNames
        <3>2. ~Befriends(p) /\ ~Ahead(p) /\ ~Seeds(p)
            BY <1>5, <2>2 DEF Befriends, Ahead, Steps, Seeds
        <3> QED BY <1>2, <1>4, <1>5, <1>7, <2>2, <3>1, <3>2
            DEF SeedingInv, SeedsGoOn, Becomes, Ahead, Befriends, Seeds, Complete
    <2> QED BY <2>1, <2>2
<1> QED BY <1>6, <1>8, <1>9, <1>10 DEF SeedingInv

\* A pod that leaves the seeding on an error, or because another pod was first.
LEMMA LeaveKeeps ==
    ASSUME SeedingInv, NEW p \in Pods, Serve(p), Seeds(p),
           demo' = demo, friend' = friend, friendship' = friendship, rooms' = rooms, overlapped' = overlapped,
           hurt' \in BOOLEAN, SeedsGoOn'
    PROVE SeedingInv'
<1>1. PodsOK(pod)
    BY DEF SeedingInv, SeedingTypeOK, PodsOK, SeedStates
<1>2. Becomes(p, Serving)
    BY <1>1, PodBecomes DEF Serve
<1>3. SeedingTypeOK'
    BY <1>2 DEF SeedingInv, SeedingTypeOK, Becomes, PodsOK, SeedStates
<1>4. pod'[p].next = "serving" /\ "serving" \notin Steps
    BY <1>2, StepNames DEF Becomes
<1>5. SeedsKnow'
    BY <1>2, <1>4, KnowKept DEF SeedingInv, Becomes, WithDemo, Seeds
<1>6. OverlapAtInsert' /\ RoomTwiceOnlyByOverlap'
    BY <1>2, <1>4, RoomsKept DEF SeedingInv, Becomes
<1> QED BY <1>3, <1>5, <1>6 DEF SeedingInv

\* A pod that goes on, and has added at most demofriend or the friendship.
LEMMA GoKeeps ==
    ASSUME SeedingInv, NEW p \in Pods, NEW x, NEW k, NEW e, Goes(p, x, k, e),
           demo' = demo, rooms' = rooms, overlapped' = overlapped,
           friend' \in BOOLEAN, friend => friend', friendship' \in BOOLEAN, friendship' => demo' /\ friend',
           hurt' \in BOOLEAN, x \in WithDemo => demo, k => friend', x \notin {"insert_text", "insert_voice"},
           SeedsGoOn'
    PROVE SeedingInv'
<1>1. SeedingTypeOK'
    BY DEF SeedingInv, SeedingTypeOK, Goes, PodsOK, SeedStates
<1>2. SeedsKnow'
    BY KnowKept DEF SeedingInv, Goes
<1>3. OverlapAtInsert' /\ RoomTwiceOnlyByOverlap'
    BY RoomsKept DEF SeedingInv, Goes
<1> QED BY <1>1, <1>2, <1>3 DEF SeedingInv

LEMMA CountKeeps ==
    ASSUME SeedingInv, NEW p \in Pods, CountDemo(p)
    PROVE SeedingInv'
<1>1. PodsOK(pod) /\ demo \in BOOLEAN /\ hurt \in BOOLEAN
    BY DEF SeedingInv, SeedingTypeOK, PodsOK, SeedStates
<1>2. pod[p].next = "count" /\ Seeds(p)
    BY DEF CountDemo, Seeds, Steps
<1>3. PICK x \in {"find_demo", "insert_demo"} :
        Continue(p, x) /\ (~hurt' => ~hurt /\ (x = "find_demo" => demo)) /\ (x = "find_demo" => demo)
        /\ hurt' \in BOOLEAN
    <2>1. CASE Continue(p, IF demo THEN "find_demo" ELSE "insert_demo") /\ UNCHANGED hurt
        <3>1. CASE demo
            BY <1>1, <2>1, <3>1
        <3>2. CASE ~demo
            BY <1>1, <2>1, <3>2
        <3> QED BY <3>1, <3>2
    <2>2. CASE Continue(p, "insert_demo") /\ hurt' = TRUE
        BY <2>2
    <2> QED BY <2>1, <2>2 DEF CountDemo
<1>4. Goes(p, x, pod[p].knows, pod[p].exists)
    BY <1>1, <1>2, <1>3, PodContinues DEF Steps
<1>5. demo' = demo /\ friend' = friend /\ friendship' = friendship /\ rooms' = rooms /\ overlapped' = overlapped
    BY DEF CountDemo, tables
<1>6. SeedingTypeOK'
    BY <1>3, <1>4, <1>5 DEF SeedingInv, SeedingTypeOK, Goes, PodsOK, SeedStates
<1>7. SeedsKnow'
    BY <1>2, <1>3, <1>4, <1>5, KnowKept DEF SeedingInv, SeedsKnow, Goes, WithDemo
<1>8. OverlapAtInsert' /\ RoomTwiceOnlyByOverlap'
    BY <1>4, <1>5, RoomsKept DEF SeedingInv, Goes
<1>9. SeedsGoOn'
    <2>1. CASE hurt'
        BY <2>1 DEF SeedsGoOn
    <2>2. CASE ~hurt'
        BY <1>1, <1>2, <1>3, <1>4, <1>5, <2>2, Standing
        DEF SeedingInv, SeedsGoOn, Goes, Ahead, Befriends, Seeds, Complete
    <2> QED BY <2>1, <2>2
<1> QED BY <1>6, <1>7, <1>8, <1>9 DEF SeedingInv

LEMMA InsertDemoKeeps ==
    ASSUME SeedingInv, NEW p \in Pods, InsertDemo(p)
    PROVE SeedingInv'
<1>1. PodsOK(pod) /\ demo \in BOOLEAN /\ hurt \in BOOLEAN
    BY DEF SeedingInv, SeedingTypeOK, PodsOK, SeedStates
<1>2. pod[p].next = "insert_demo" /\ Seeds(p)
    BY DEF InsertDemo, Seeds, Steps
<1>3. Goes(p, "find_demo", pod[p].knows, pod[p].exists)
    BY <1>1, <1>2, PodContinues DEF InsertDemo, Steps
<1>4. (demo => demo') /\ demo' \in BOOLEAN /\ hurt' \in BOOLEAN /\ (~hurt' => ~hurt /\ demo')
    BY <1>1 DEF InsertDemo
<1>5. friend' = friend /\ friendship' = friendship /\ rooms' = rooms /\ overlapped' = overlapped
    BY DEF InsertDemo
<1>6. SeedingTypeOK'
    BY <1>3, <1>4, <1>5 DEF SeedingInv, SeedingTypeOK, Goes, PodsOK, SeedStates
<1>10. SeedsGoOn'
    <2>1. CASE hurt'
        BY <2>1 DEF SeedsGoOn
    <2>2. CASE ~hurt'
        BY <1>1, <1>2, <1>3, <1>4, <1>5, <2>2, Standing
        DEF SeedingInv, SeedsGoOn, Goes, Ahead, Befriends, Seeds, Complete
    <2> QED BY <2>1, <2>2
<1>9. OverlapAtInsert' /\ RoomTwiceOnlyByOverlap'
    BY <1>3, <1>5, RoomsKept DEF SeedingInv, Goes
<1>8. SeedsKnow'
    <2>1. ASSUME NEW q \in Pods PROVE pod'[q].next \in WithDemo => demo'
        BY <1>2, <1>3, <1>4 DEF SeedingInv, SeedsKnow, Goes, WithDemo
    <2>2. ASSUME NEW q \in Pods PROVE Seeds(q)' /\ pod'[q].knows => friend'
        BY <1>2, <1>3, <1>5 DEF SeedingInv, SeedsKnow, Goes, Seeds
    <2> QED BY <2>1, <2>2 DEF SeedsKnow
<1> QED BY <1>6, <1>8, <1>9, <1>10 DEF SeedingInv

LEMMA FindDemoKeeps ==
    ASSUME SeedingInv, NEW p \in Pods, FindDemo(p)
    PROVE SeedingInv'
<1>1. PodsOK(pod) /\ demo \in BOOLEAN /\ hurt \in BOOLEAN
    BY DEF SeedingInv, SeedingTypeOK, PodsOK, SeedStates
<1>2. pod[p].next = "find_demo" /\ Seeds(p)
    BY DEF FindDemo, Seeds, Steps
<1>3. demo' = demo /\ friend' = friend /\ friendship' = friendship /\ rooms' = rooms /\ overlapped' = overlapped
    BY DEF FindDemo, tables
<1>4. CASE demo /\ Continue(p, "find_friend") /\ UNCHANGED hurt
    <2>1. Goes(p, "find_friend", pod[p].knows, pod[p].exists)
        BY <1>1, <1>2, <1>4, PodContinues DEF Steps
    <2>2. pod[p].knows => friend
        BY <1>2 DEF SeedingInv, SeedsKnow
    <2>3. SeedsGoOn'
        BY <1>1, <1>2, <1>3, <1>4, <2>1, Standing
        DEF SeedingInv, SeedsGoOn, Goes, Ahead, Befriends, Seeds, Complete
    <2>4. friendship => demo /\ friend
        BY DEF SeedingInv, SeedingTypeOK
    <2> QED BY <1>1, <1>3, <1>4, <2>1, <2>2, <2>3, <2>4, GoKeeps DEF SeedingInv, SeedingTypeOK
<1>5. CASE Serve(p) /\ (hurt' = TRUE \/ (~demo /\ UNCHANGED hurt))
    <2>1. SeedsGoOn'
        BY <1>2, <1>5 DEF SeedingInv, SeedsGoOn
    <2> QED BY <1>1, <1>2, <1>3, <1>5, <2>1, LeaveKeeps
<1> QED BY <1>4, <1>5 DEF FindDemo

LEMMA FindFriendKeeps ==
    ASSUME SeedingInv, NEW p \in Pods, FindFriend(p)
    PROVE SeedingInv'
<1>1. PodsOK(pod) /\ demo \in BOOLEAN /\ friend \in BOOLEAN /\ hurt \in BOOLEAN /\ friendship \in BOOLEAN
      /\ (friendship => demo /\ friend)
    BY DEF SeedingInv, SeedingTypeOK, PodsOK, SeedStates
<1>2. pod[p].next = "find_friend" /\ Seeds(p)
    BY DEF FindFriend, Seeds, Steps
<1>3. demo' = demo /\ friend' = friend /\ friendship' = friendship /\ rooms' = rooms /\ overlapped' = overlapped
    BY DEF FindFriend, tables
<1>4. demo /\ (pod[p].knows => friend)
    BY <1>2 DEF SeedingInv, SeedsKnow, WithDemo
<1>5. CASE friend /\ pod' = [pod EXCEPT ![p].next = "befriend", ![p].knows = TRUE] /\ UNCHANGED hurt
    <2>1. PICK k \in BOOLEAN : k = TRUE
        OBVIOUS
    <2>2. pod' = [pod EXCEPT ![p].next = "befriend", ![p].knows = k]
        BY <1>5, <2>1
    <2>3. Goes(p, "befriend", k, pod[p].exists)
        BY <1>1, <1>2, <2>2, PodLearns DEF Steps
    <2>4. Befriends(p)' /\ Ahead(p)'
        BY <2>1, <2>3 DEF Befriends, Ahead, Goes
    <2>5. SeedsGoOn'
        BY <1>1, <1>2, <1>3, <1>5, <2>3, <2>4, Standing
        DEF SeedingInv, SeedsGoOn, Goes, Ahead, Befriends, Seeds, Complete
    <2> QED BY <1>1, <1>3, <1>4, <1>5, <2>3, <2>5, GoKeeps
<1>6. CASE Continue(p, "insert_friend") /\ ((~friend /\ UNCHANGED hurt) \/ hurt' = TRUE)
    <2>1. Goes(p, "insert_friend", pod[p].knows, pod[p].exists)
        BY <1>1, <1>2, <1>6, PodContinues DEF Steps
    <2>2. SeedsGoOn'
        <3>1. CASE hurt'
            BY <3>1 DEF SeedsGoOn
        <3>2. CASE ~hurt'
            BY <1>1, <1>2, <1>3, <1>6, <2>1, <3>2, Standing
            DEF SeedingInv, SeedsGoOn, Goes, Ahead, Befriends, Seeds, Complete
        <3> QED BY <3>1, <3>2
    <2>3. hurt' \in BOOLEAN
        BY <1>1, <1>6
    <2> QED BY <1>1, <1>3, <1>4, <2>1, <2>2, <2>3, GoKeeps
<1> QED BY <1>5, <1>6 DEF FindFriend

LEMMA InsertFriendKeeps ==
    ASSUME SeedingInv, NEW p \in Pods, InsertFriend(p)
    PROVE SeedingInv'
<1>1. PodsOK(pod) /\ demo \in BOOLEAN /\ friend \in BOOLEAN /\ hurt \in BOOLEAN /\ friendship \in BOOLEAN
      /\ (friendship => demo /\ friend)
    BY DEF SeedingInv, SeedingTypeOK, PodsOK, SeedStates
<1>2. pod[p].next = "insert_friend" /\ Seeds(p)
    BY DEF InsertFriend, Seeds, Steps
<1>3. demo' = demo /\ friendship' = friendship /\ rooms' = rooms /\ overlapped' = overlapped
    BY DEF InsertFriend
<1>4. demo
    BY <1>2 DEF SeedingInv, SeedsKnow, WithDemo
<1>5. CASE friend' = TRUE /\ pod' = [pod EXCEPT ![p].next = "befriend", ![p].knows = ~friend] /\ UNCHANGED hurt
    <2>1. PICK k \in BOOLEAN : k = ~friend
        OBVIOUS
    <2>2. pod' = [pod EXCEPT ![p].next = "befriend", ![p].knows = k]
        BY <1>5, <2>1
    <2>3. Goes(p, "befriend", k, pod[p].exists)
        BY <1>1, <1>2, <2>2, PodLearns DEF Steps
    <2>4. Ahead(p)' /\ (~friend => Befriends(p)')
        BY <2>1, <2>3 DEF Befriends, Ahead, Goes
    <2>5. SeedsGoOn'
        <3>1. CASE hurt
            BY <1>5, <3>1 DEF SeedsGoOn
        <3>2. CASE ~hurt
            <4>1. friendship' \/ \E q \in Pods : Befriends(q)'
                BY <1>1, <1>2, <1>3, <2>3, <2>4, <3>2
                DEF SeedingInv, SeedsGoOn, Befriends, Goes
            <4> QED BY <1>1, <1>2, <1>3, <1>5, <2>3, <2>4, <3>2, <4>1, Standing
                DEF SeedingInv, SeedsGoOn, Goes, Ahead, Befriends, Seeds, Complete
        <3> QED BY <3>1, <3>2
    <2> QED BY <1>1, <1>3, <1>4, <1>5, <2>3, <2>5, GoKeeps
<1>6. CASE Serve(p) /\ UNCHANGED friend /\ ((friend /\ UNCHANGED hurt) \/ hurt' = TRUE)
    <2>1. SeedsGoOn'
        <3>1. CASE hurt'
            BY <3>1 DEF SeedsGoOn
        <3>2. CASE ~hurt'
            <4>1. Becomes(p, Serving)
                BY <1>1, <1>6, PodBecomes DEF Serve
            <4>2. pod'[p].next = "serving" /\ "serving" \notin Steps
                BY <4>1, StepNames DEF Becomes
            <4>3. ~Ahead(p) /\ ~Befriends(p) /\ ~Ahead(p)' /\ ~Befriends(p)'
                BY <1>2, <4>2 DEF Ahead, Befriends
            <4>4. Complete \/ \E q \in Pods : Ahead(q)
                BY <1>2, <1>6, <3>2 DEF SeedingInv, SeedsGoOn
            <4>5. Complete' \/ \E q \in Pods : Ahead(q)'
                BY <1>3, <1>6, <4>1, <4>3, <4>4 DEF Becomes, Ahead, Complete
            <4>6. \A q \in Pods : Ahead(q)' => Seeds(q)'
                BY DEF Ahead, Seeds, Steps
            <4> QED BY <1>1, <1>2, <1>3, <1>6, <3>2, <4>1, <4>2, <4>3, <4>5, <4>6
                DEF SeedingInv, SeedsGoOn, Becomes, Ahead, Befriends
        <3> QED BY <3>1, <3>2
    <2> QED BY <1>1, <1>2, <1>3, <1>6, <2>1, LeaveKeeps
<1> QED BY <1>5, <1>6 DEF InsertFriend

LEMMA BefriendKeeps ==
    ASSUME SeedingInv, NEW p \in Pods, Befriend(p)
    PROVE SeedingInv'
<1>1. PodsOK(pod) /\ demo \in BOOLEAN /\ friend \in BOOLEAN /\ hurt \in BOOLEAN /\ friendship \in BOOLEAN
      /\ (friendship => demo /\ friend)
    BY DEF SeedingInv, SeedingTypeOK, PodsOK, SeedStates
<1>2. pod[p].next = "befriend" /\ Seeds(p)
    BY DEF Befriend, Seeds, Steps
<1>3. demo' = demo /\ friend' = friend /\ rooms' = rooms /\ overlapped' = overlapped
    BY DEF Befriend
<1>4. demo /\ (pod[p].knows => friend)
    BY <1>2 DEF SeedingInv, SeedsKnow, WithDemo
<1>5. Goes(p, "find_text", pod[p].knows, pod[p].exists)
    BY <1>1, <1>2, PodContinues DEF Befriend, Steps
<1>6. pod[p].knows \in BOOLEAN
    BY <1>5 DEF Goes
<1>7. friendship' \in BOOLEAN /\ (friendship => friendship') /\ (friendship' => friendship \/ pod[p].knows)
      /\ hurt' \in BOOLEAN /\ (~hurt' => ~hurt /\ (pod[p].knows => friendship'))
    <2>1. PICK k \in BOOLEAN : k = pod[p].knows
        BY <1>6
    <2>2. CASE friendship' = (friendship \/ k) /\ UNCHANGED hurt
        <3>1. CASE friendship \/ k
            BY <1>1, <2>1, <2>2, <3>1
        <3>2. CASE ~(friendship \/ k)
            BY <1>1, <2>1, <2>2, <3>2
        <3> QED BY <3>1, <3>2
    <2>3. CASE hurt' = TRUE /\ UNCHANGED friendship
        BY <1>1, <2>3
    <2> QED BY <2>1, <2>2, <2>3 DEF Befriend
<1>8. Ahead(p) /\ Ahead(p)'
    BY <1>2, <1>5 DEF Goes, Ahead
<1>9. SeedsGoOn'
    <2>1. CASE hurt'
        BY <2>1 DEF SeedsGoOn
    <2>2. CASE ~hurt'
        <3>1. friendship \/ \E q \in Pods : Befriends(q)
            BY <1>7, <1>8, <2>2 DEF SeedingInv, SeedsGoOn
        <3>2. friendship' \/ \E q \in Pods : Befriends(q)'
            BY <1>5, <1>7, <2>2, <3>1 DEF Befriends, Goes
        <3> QED BY <1>1, <1>2, <1>3, <1>5, <1>7, <1>8, <2>2, <3>2, Standing
            DEF SeedingInv, SeedsGoOn, Goes, Ahead, Seeds, Complete
    <2> QED BY <2>1, <2>2
<1>10. friendship' => demo' /\ friend'
    BY <1>1, <1>3, <1>4, <1>7
<1>11. "find_text" \notin {"insert_text", "insert_voice"}
    OBVIOUS
<1> QED BY <1>1, <1>3, <1>4, <1>5, <1>7, <1>9, <1>10, <1>11, GoKeeps

\* A pod at the voice room knows that everything before it is there, or that
\* another pod is about to add the friendship.
LEMMA BeforeVoice ==
    ASSUME SeedingInv, ~hurt, NEW p \in Pods, pod[p].next \in {"find_voice", "insert_voice"}
    PROVE /\ demo /\ friend /\ rooms["text"] > 0
          /\ friendship \/ \E q \in Pods \ {p} : Befriends(q)
<1>1. Ahead(p) /\ ~Befriends(p)
    BY DEF Ahead, Befriends
<1>2. demo
    BY DEF SeedingInv, SeedsKnow, WithDemo
<1> QED BY <1>1, <1>2 DEF SeedingInv, SeedsGoOn

\* A pod that serves when the voice room is there as well.
LEMMA VoiceEnds ==
    ASSUME SeedingInv, NEW p \in Pods, pod[p].next \in {"find_voice", "insert_voice"}, Becomes(p, Serving),
           demo' = demo, friend' = friend, friendship' = friendship,
           \A n \in Names : rooms'[n] >= rooms[n], \A n \in Names : rooms[n] \in Nat /\ rooms'[n] \in Nat,
           ~hurt' => ~hurt /\ rooms'["voice"] > 0
    PROVE SeedsGoOn'
<1>1. CASE hurt'
    BY <1>1 DEF SeedsGoOn
<1>2. CASE ~hurt'
    <2>1. demo /\ friend /\ rooms["text"] > 0 /\ (friendship \/ \E q \in Pods \ {p} : Befriends(q))
        BY <1>2, BeforeVoice
    <2>2. "text" \in Names /\ "voice" \in Names /\ \A n \in Names : n = "text" \/ n = "voice"
        BY DEF Names
    <2>3. rooms'["text"] > 0
        BY <2>1, <2>2
    <2>4. Complete' \/ \E q \in Pods : Befriends(q)'
        BY <1>2, <2>1, <2>2, <2>3 DEF Complete, Becomes, Befriends
    <2>5. pod'[p].next = "serving" /\ "serving" \notin Steps
        BY StepNames DEF Becomes
    <2>6. ~Ahead(p)' /\ ~Befriends(p)' /\ ~Befriends(p)
        BY <2>5 DEF Ahead, Befriends
    <2>7. \A q \in Pods : Befriends(q)' => Ahead(q)' /\ Seeds(q)'
        BY DEF Befriends, Ahead, Seeds, Steps
    <2>8. /\ \A q \in Pods : pod'[q].next = "find_demo" => demo'
          /\ \A q \in Pods : Ahead(q)' => friend'
          /\ \A q \in Pods : pod'[q].next \in {"find_voice", "insert_voice"} => rooms'["text"] > 0
        BY <2>1, <2>3
    <2>9. friendship' \/ \E q \in Pods : Befriends(q)'
        BY <2>4 DEF Complete
    <2> QED BY <2>4, <2>7, <2>8, <2>9 DEF SeedsGoOn
<1> QED BY <1>1, <1>2

\* A pod that goes on to the lookup of the voice room, or to an insertion.
LEMMA RoomsGoOn ==
    ASSUME SeedingInv, NEW p \in Pods, Ahead(p), ~Befriends(p), NEW x, NEW e,
           Goes(p, x, pod[p].knows, e), x \in {"insert_text", "find_voice", "insert_voice"},
           demo' = demo, friend' = friend, friendship' = friendship,
           \A n \in Names : rooms'[n] >= rooms[n], \A n \in Names : rooms[n] \in Nat /\ rooms'[n] \in Nat,
           ~hurt' => ~hurt /\ (x \in {"find_voice", "insert_voice"} => rooms'["text"] > 0)
    PROVE SeedsGoOn'
<1>1. CASE hurt'
    BY <1>1 DEF SeedsGoOn
<1>2. CASE ~hurt'
    <2>1. ~hurt /\ (x \in {"find_voice", "insert_voice"} => rooms'["text"] > 0)
        BY <1>2
    <2>2. Ahead(p)' /\ ~Befriends(p)' /\ Seeds(p)'
        BY DEF Ahead, Befriends, Goes, Seeds
    <2>3. friendship' \/ \E q \in Pods : Befriends(q)'
        BY <2>1 DEF SeedingInv, SeedsGoOn, Goes, Befriends
    <2>4. friend'
        BY <2>1 DEF SeedingInv, SeedsGoOn
    <2>5. \A q \in Pods : pod'[q].next = "find_demo" => demo'
        BY <2>1 DEF SeedingInv, SeedsGoOn, Goes
    <2>6. ASSUME NEW q \in Pods, pod'[q].next \in {"find_voice", "insert_voice"}
          PROVE rooms'["text"] > 0
        <3>1. CASE q = p
            BY <2>1, <2>6, <3>1 DEF Goes
        <3>2. CASE q # p
            BY <2>1, <2>6, <3>2 DEF SeedingInv, SeedsGoOn, Goes, Names
        <3> QED BY <3>1, <3>2
    <2> QED BY <2>2, <2>3, <2>4, <2>5, <2>6 DEF SeedsGoOn
<1> QED BY <1>1, <1>2

LEMMA FindRoomKeeps ==
    ASSUME SeedingInv, NEW p \in Pods, NEW n \in Names, FindRoom(p, n)
    PROVE SeedingInv'
<1> DEFINE x == IF n = "text" THEN "insert_text" ELSE "insert_voice"
<1>1. PodsOK(pod) /\ demo \in BOOLEAN /\ friend \in BOOLEAN /\ hurt \in BOOLEAN /\ friendship \in BOOLEAN
      /\ (friendship => demo /\ friend) /\ rooms \in [Names -> 0..MaxRooms] /\ overlapped \subseteq Names
    BY DEF SeedingInv, SeedingTypeOK, PodsOK, SeedStates
<1>2. n = "text" \/ n = "voice"
    BY DEF Names
<1>3. pod[p].next = (IF n = "text" THEN "find_text" ELSE "find_voice")
    BY DEF FindRoom
<1>4. Seeds(p) /\ Ahead(p) /\ ~Befriends(p)
    BY <1>2, <1>3 DEF Seeds, Steps, Ahead, Befriends
<1>5. demo /\ (pod[p].knows => friend)
    BY <1>2, <1>3, <1>4 DEF SeedingInv, SeedsKnow, WithDemo
<1>6. demo' = demo /\ friend' = friend /\ friendship' = friendship /\ rooms' = rooms
    BY DEF FindRoom, tables
<1>7. \A m \in Names : rooms'[m] >= rooms[m] /\ rooms[m] \in Nat /\ rooms'[m] \in Nat
    BY <1>1, <1>6, SeedingAssumption
<1>8. pod[p].exists \in BOOLEAN /\ pod[p].knows \in BOOLEAN
    BY <1>1, <1>4, SeedsTyped DEF SeedStates
<1>9. PICK failed \in BOOLEAN :
        LET exists == IF failed THEN pod[p].exists ELSE rooms[n] > 0
            blind == ~exists /\ (rooms[n] > 0 \/ \E other \in Pods \ {p} : InsertsRoom(other, n))
        IN  /\ IF exists THEN AfterRoom(p, n, TRUE)
               ELSE pod' = [pod EXCEPT ![p].exists = FALSE, ![p].next = x]
            /\ hurt' = (hurt \/ failed)
            /\ overlapped' = IF blind THEN overlapped \cup {n} ELSE overlapped
    BY DEF FindRoom
<1>10. hurt' \in BOOLEAN /\ (~hurt' => ~hurt /\ ~failed)
    BY <1>1, <1>9
<1> DEFINE exists == IF failed THEN pod[p].exists ELSE rooms[n] > 0
           blind == rooms[n] > 0 \/ \E other \in Pods \ {p} : InsertsRoom(other, n)
<1>11. CASE exists
    <2>1. AfterRoom(p, n, TRUE) /\ overlapped' = overlapped /\ (~hurt' => rooms[n] > 0)
        BY <1>9, <1>10, <1>11
    <2>2. CASE n = "text"
        <3>1. Goes(p, "find_voice", pod[p].knows, TRUE)
            BY <1>1, <1>4, <2>1, <2>2, PodAfterRoom
        <3>2. SeedsGoOn'
            BY <1>4, <1>6, <1>7, <1>10, <2>1, <2>2, <3>1, RoomsGoOn
        <3>3. PICK e : e = TRUE
            OBVIOUS
        <3>4. Goes(p, "find_voice", pod[p].knows, e)
            BY <3>1, <3>3
        <3> QED BY <1>1, <1>5, <1>6, <1>10, <2>1, <3>2, <3>4, GoKeeps
    <2>3. CASE n = "voice"
        <3>1. Becomes(p, Serving)
            BY <1>1, <1>4, <2>1, <2>3, PodAfterRoom
        <3>2. SeedsGoOn'
            BY <1>3, <1>6, <1>7, <1>10, <2>1, <2>3, <3>1, VoiceEnds
        <3>3. Serve(p)
            BY <2>1, <2>3 DEF AfterRoom, Serve
        <3> QED BY <1>4, <1>6, <1>10, <2>1, <3>2, <3>3, LeaveKeeps
    <2> QED BY <1>2, <2>2, <2>3
<1>12. CASE ~exists
    <2>1. /\ pod' = [pod EXCEPT ![p].exists = FALSE, ![p].next = x]
          /\ blind => overlapped' = overlapped \cup {n}
          /\ ~blind => overlapped' = overlapped
        BY <1>9, <1>12
    <2>2. PICK e \in BOOLEAN : e = FALSE
        OBVIOUS
    <2>3. PICK y \in {"insert_text", "insert_voice"} : y = x
        OBVIOUS
    <2>4. pod' = [pod EXCEPT ![p].exists = e, ![p].next = y]
        BY <2>1, <2>2, <2>3
    <2>5. Goes(p, y, pod[p].knows, e)
        BY <1>1, <1>4, <2>4, PodMissesRoom DEF Steps
    <2>6. SeedsGoOn'
        <3>1. ~hurt' => ~hurt /\ (y \in {"find_voice", "insert_voice"} => rooms'["text"] > 0)
            BY <1>2, <1>3, <1>6, <1>10, <2>3, BeforeVoice
        <3> QED BY <1>4, <1>6, <1>7, <2>5, <3>1, RoomsGoOn
    <2>7. SeedingTypeOK'
        BY <1>1, <1>6, <1>10, <2>1, <2>5 DEF SeedingInv, SeedingTypeOK, Goes, PodsOK, SeedStates
    <2>8. SeedsKnow'
        BY <1>5, <1>6, <2>5, KnowKept DEF SeedingInv, Goes
    <2>9. RoomTwiceOnlyByOverlap'
        BY <1>6, <2>1 DEF SeedingInv, RoomTwiceOnlyByOverlap
    <2>10. OverlapAtInsert'
        <3>1. overlapped \subseteq overlapped' /\ (blind => n \in overlapped')
            BY <2>1
        <3>2. \A m \in Names : InsertsRoom(p, m)' => m = n
            BY <1>2, <2>3, <2>5 DEF InsertsRoom, Goes, Names
        <3>3. \A q \in Pods \ {p}, m \in Names : InsertsRoom(q, m)' => InsertsRoom(q, m)
            BY <2>5 DEF InsertsRoom, Goes
        <3> QED BY <1>6, <3>1, <3>2, <3>3 DEF SeedingInv, OverlapAtInsert
    <2> QED BY <2>6, <2>7, <2>8, <2>9, <2>10 DEF SeedingInv
<1> QED BY <1>11, <1>12

LEMMA InsertRoomKeeps ==
    ASSUME SeedingInv, NEW p \in Pods, NEW n \in Names, InsertRoom(p, n)
    PROVE SeedingInv'
<1>1. PodsOK(pod) /\ demo \in BOOLEAN /\ friend \in BOOLEAN /\ hurt \in BOOLEAN /\ friendship \in BOOLEAN
      /\ (friendship => demo /\ friend) /\ rooms \in [Names -> 0..MaxRooms] /\ overlapped \subseteq Names
    BY DEF SeedingInv, SeedingTypeOK, PodsOK, SeedStates
<1>2. n = "text" \/ n = "voice"
    BY DEF Names
<1>3. InsertsRoom(p, n) /\ pod[p].next = (IF n = "text" THEN "insert_text" ELSE "insert_voice")
    BY DEF InsertRoom, InsertsRoom
<1>4. Seeds(p) /\ Ahead(p) /\ ~Befriends(p)
    BY <1>2, <1>3 DEF Seeds, Steps, Ahead, Befriends
<1>5. demo /\ (pod[p].knows => friend)
    BY <1>2, <1>3, <1>4 DEF SeedingInv, SeedsKnow, WithDemo
<1>6. demo' = demo /\ friend' = friend /\ friendship' = friendship /\ overlapped' = overlapped
    BY DEF InsertRoom
<1>7. rooms[n] < MaxRooms /\ MaxRooms \in Nat
    BY SeedingAssumption DEF InsertRoom
<1>8. /\ rooms' \in [Names -> 0..MaxRooms] /\ hurt' \in BOOLEAN
      /\ \A m \in Names : rooms'[m] >= rooms[m] /\ rooms[m] \in Nat /\ rooms'[m] \in Nat
      /\ \A m \in Names \ {n} : rooms'[m] = rooms[m]
      /\ rooms'[n] \in {rooms[n], rooms[n] + 1}
      /\ ~hurt' => ~hurt /\ rooms'[n] > 0
    <2>1. CASE rooms' = [rooms EXCEPT ![n] = @ + 1] /\ UNCHANGED hurt
        BY <1>1, <1>7, <2>1
    <2>2. CASE hurt' = TRUE /\ UNCHANGED rooms
        BY <1>1, <1>7, <2>2
    <2> QED BY <2>1, <2>2 DEF InsertRoom
<1>9. PICK e \in BOOLEAN : e = FALSE
    OBVIOUS
<1>10. AfterRoom(p, n, e)
    BY <1>9 DEF InsertRoom
<1>11. /\ PodsOK(pod')
       /\ \A q \in Pods \ {p} : pod'[q] = pod[q]
       /\ pod'[p].next \notin {"insert_text", "insert_voice"}
       /\ Seeds(p)' => pod'[p].knows = pod[p].knows
       /\ SeedsGoOn'
    <2>1. CASE n = "text"
        <3>1. Goes(p, "find_voice", pod[p].knows, e)
            BY <1>1, <1>4, <1>10, <2>1, PodAfterRoom
        <3>2. SeedsGoOn'
            BY <1>4, <1>6, <1>8, <2>1, <3>1, RoomsGoOn
        <3> QED BY <3>1, <3>2 DEF Goes
    <2>2. CASE n = "voice"
        <3>1. Becomes(p, Serving)
            BY <1>1, <1>4, <1>10, <2>2, PodAfterRoom
        <3>2. SeedsGoOn'
            BY <1>3, <1>6, <1>8, <2>2, <3>1, VoiceEnds
        <3>3. pod'[p].next = "serving" /\ "serving" \notin Steps
            BY <3>1, StepNames DEF Becomes
        <3> QED BY <3>1, <3>2, <3>3 DEF Becomes, Seeds
    <2> QED BY <1>2, <2>1, <2>2
<1>12. SeedingTypeOK'
    BY <1>1, <1>5, <1>6, <1>8, <1>11 DEF SeedingTypeOK, PodsOK, SeedStates
<1>13. SeedsKnow'
    BY <1>5, <1>6, <1>11, KnowKept DEF SeedingInv
<1>14. RoomTwiceOnlyByOverlap'
    <2>1. rooms[n] > 0 => n \in overlapped
        BY <1>3 DEF SeedingInv, OverlapAtInsert
    <2>2. ASSUME NEW m \in Names, rooms'[m] > 1
          PROVE m \in overlapped
        <3>1. CASE m = n
            BY <1>8, <2>1, <2>2, <3>1
        <3>2. CASE m # n
            BY <1>8, <2>2, <3>2 DEF SeedingInv, RoomTwiceOnlyByOverlap
        <3> QED BY <3>1, <3>2
    <2> QED BY <1>6, <2>2 DEF RoomTwiceOnlyByOverlap
<1>15. OverlapAtInsert'
    <2>1. \A q \in Pods, m \in Names : InsertsRoom(q, m)' => q # p /\ InsertsRoom(q, m)
        BY <1>11 DEF InsertsRoom
    <2>2. \A q \in Pods : InsertsRoom(q, n)' => n \in overlapped
        BY <1>3, <2>1 DEF SeedingInv, OverlapAtInsert
    <2> QED BY <1>6, <1>8, <2>1, <2>2 DEF SeedingInv, OverlapAtInsert
<1> QED BY <1>11, <1>12, <1>13, <1>14, <1>15 DEF SeedingInv

\* What pods that seed at once keep true between them (main.go:156-270).
THEOREM SeedingInvariant == SeedingSpec => []SeedingInv
<1>1. SeedingInit => SeedingInv
    <2> SUFFICES ASSUME SeedingInit PROVE SeedingInv
        OBVIOUS
    <2>1. \A p \in Pods : pod[p] = Down
        BY DEF SeedingInit
    <2>2. \A p \in Pods : pod[p].next = "down"
        BY <2>1, StepNames
    <2>3. \A p \in Pods : pod[p] # Serving /\ ~Seeds(p) /\ ~Ahead(p) /\ \A n \in Names : ~InsertsRoom(p, n)
        BY <2>1, <2>2, StepNames DEF Seeds, Ahead, InsertsRoom
    <2>4. SeedingTypeOK
        <3>1. demo \in BOOLEAN /\ friend \in BOOLEAN /\ friendship \in BOOLEAN /\ hurt \in BOOLEAN
              /\ ~friendship /\ overlapped = {}
            BY DEF SeedingInit
        <3>2. rooms \in [Names -> 0..MaxRooms] /\ ~(rooms["text"] + rooms["voice"] > 0)
            BY SeedingAssumption DEF SeedingInit, Names
        <3>3. pod \in [Pods -> SeedStates \cup {Down, Serving}]
            BY DEF SeedingInit
        <3> QED BY <3>1, <3>2, <3>3 DEF SeedingTypeOK, SeedStates
    <2>5. SeedsKnow
        BY <2>2, <2>3 DEF SeedsKnow, WithDemo
    <2>6. OverlapAtInsert /\ RoomTwiceOnlyByOverlap
        BY <2>3 DEF OverlapAtInsert, RoomTwiceOnlyByOverlap, SeedingInit
    <2>7. SeedsGoOn
        BY <2>2, <2>3 DEF SeedsGoOn
    <2> QED BY <2>4, <2>5, <2>6, <2>7 DEF SeedingInv
<1>2. SeedingInv /\ [SeedingNext]_seedingVars => SeedingInv'
    <2> SUFFICES ASSUME SeedingInv, [SeedingNext]_seedingVars PROVE SeedingInv'
        OBVIOUS
    <2>1. CASE SeedingNext
        <3>1. PICK p \in Pods :
                \/ StartPod(p) \/ StopPod(p)
                \/ CountDemo(p) \/ InsertDemo(p) \/ FindDemo(p)
                \/ FindFriend(p) \/ InsertFriend(p) \/ Befriend(p)
                \/ \E n \in Names : FindRoom(p, n) \/ InsertRoom(p, n)
            BY <2>1 DEF SeedingNext
        <3> QED BY <3>1, StartKeeps, StopKeeps, CountKeeps, InsertDemoKeeps, FindDemoKeeps, FindFriendKeeps,
                   InsertFriendKeeps, BefriendKeeps, FindRoomKeeps, InsertRoomKeeps
    <2>2. CASE UNCHANGED seedingVars
        BY <2>2 DEF seedingVars, SeedingInv, SeedingTypeOK, SeedsKnow, OverlapAtInsert, RoomTwiceOnlyByOverlap,
                    SeedsGoOn, Seeds, InsertsRoom, Ahead, Befriends, Complete
    <2> QED BY <2>1, <2>2
<1> QED BY <1>1, <1>2, PTL DEF SeedingSpec

\* Every column and every step of the seeding is as declared, and there is no
\* friendship or demo room without the demo user (main.go:162-263).
THEOREM SeedingTypeCorrect == SeedingSpec => []SeedingTypeOK
<1>1. SeedingInv => SeedingTypeOK
    BY DEF SeedingInv
<1> QED BY <1>1, SeedingInvariant, PTL

\* Any number of pods that start together seed everything between them unless a
\* statement fails or a pod crashes, whatever earlier starts left undone
\* (main.go:162-263).
THEOREM SeedsAlwaysComplete == SeedingSpec => []SeedsComplete
<1>1. SeedingInv => SeedsComplete
    BY DEF SeedingInv, SeedsGoOn, SeedsComplete, Complete
<1> QED BY <1>1, SeedingInvariant, PTL

\* However many pods start, and however often, a demo room is doubled only when
\* two lookups overlapped or one failed (main.go:237, :251).
THEOREM RoomsDoubledOnlyByOverlap == SeedingSpec => []RoomTwiceOnlyByOverlap
<1>1. SeedingInv => RoomTwiceOnlyByOverlap
    BY DEF SeedingInv
<1> QED BY <1>1, SeedingInvariant, PTL

=============================================================================

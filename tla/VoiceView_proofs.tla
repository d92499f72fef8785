-------------------------- MODULE VoiceView_proofs --------------------------
(***************************************************************************)
(* What the participants of a voice room believe once their buffers are    *)
(* written: the others in the room, whatever came before, for any number   *)
(* of connections and rooms.                                               *)
(***************************************************************************)
EXTENDS VoiceView, HubEvents_proofs, WellFoundedInduction

-----------------------------------------------------------------------------
(* What a client makes of the events that wait for it. *)

\* Every nonempty set of numbers has a least one.
LEMMA LeastNumber == ASSUME NEW T \in SUBSET Nat, T # {} PROVE \E n \in T : \A k \in T : n <= k
<1> DEFINE R == {p \in Nat \X Nat : p[1] < p[2]}
<1>1. \A i, j \in Nat : <<i, j>> \in R <=> i < j
    OBVIOUS
<1>2. IsWellFoundedOn(R, Nat)
    BY NatLessThanWellFounded DEF OpToRel
<1> HIDE DEF R
<1>3. PICK n \in T : \A k \in T : ~(<<k, n>> \in R)
    BY <1>2, WFMin
<1>4. ASSUME NEW k \in T PROVE n <= k
    <2>1. n \in Nat /\ k \in Nat /\ ~(<<k, n>> \in R)
        BY <1>3, <1>4
    <2>2. ~(k < n)
        BY <1>1, <2>1
    <2> QED BY <2>1, <2>2
<1> QED BY <1>3, <1>4

\* The views a client goes through: f[0] now, f[i] after i events.
Reads(f, v, q) == f[0] = v /\ \A i \in 1..Len(q) : f[i] = Apply(f[i - 1], q[i])

\* The view that q makes of v.
After(v, q) == FoldLeft(Apply, v, q)

\* A fold goes through such a sequence.
LEMMA FoldSteps ==
    ASSUME NEW v, NEW q, Len(q) \in Nat, DOMAIN q = 1..Len(q)
    PROVE \E f : Reads(f, v, q) /\ After(v, q) = f[Len(q)]
<1> DEFINE Folded(g, s) == IF s = {} THEN v ELSE Apply(g[s \ {Max(s)}], q[Max(s)])
           Folds(g, k) == g = [s \in SUBSET (1..k) |-> Folded(g, s)]
\* The function a fold is the value of exists, for the first k events.
<1>1. ASSUME NEW k \in Nat PROVE \E g : Folds(g, k)
    <2> DEFINE T == {j \in Nat : ~(\E g : Folds(g, j))}
    <2>1. SUFFICES ASSUME T # {} PROVE FALSE
        OBVIOUS
    <2>2. PICK n \in T : \A j \in T : n <= j
        BY <2>1, LeastNumber
    <2>3. n # 0
        <3> DEFINE g == [s \in {{}} |-> v]
        <3>1. SUBSET (1..0) = {{}}
            OBVIOUS
        <3>2. [s \in SUBSET (1..0) |-> Folded(g, s)] = g
            BY <3>1
        <3>3. Folds(g, 0)
            BY <3>2
        <3> QED BY <2>2, <3>3
    <2>4. n - 1 \in Nat /\ n \in Nat
        BY <2>2, <2>3
    <2>5. PICK g : Folds(g, n - 1)
        <3>1. n - 1 \notin T
            <4> HIDE DEF T
            <4> QED BY <2>2, <2>4
        <3> HIDE DEF Folds
        <3> QED BY <2>4, <3>1
    <2> DEFINE h == [s \in SUBSET (1..n) |-> IF n \in s THEN Apply(g[s \ {n}], q[n]) ELSE g[s]]
    <2>6. \A s \in SUBSET (1..n) : h[s] = Folded(h, s)
        <3> TAKE s \in SUBSET (1..n)
        <3>1. CASE n \in s
            <4>1. Max(s) = n
                <5>1. \A y \in s : n >= y
                    BY <2>4
                <5>2. \A x \in s : (\A y \in s : x >= y) => x = n
                    BY <2>4, <3>1
                <5> QED BY <3>1, <5>1, <5>2 DEF Max
            <4>2. s \ {n} \in SUBSET (1..n) /\ n \notin s \ {n}
                OBVIOUS
            <4>3. h[s \ {n}] = g[s \ {n}]
                BY <4>2
            <4>4. h[s] = Apply(g[s \ {n}], q[n])
                BY <3>1
            <4>5. Folded(h, s) = Apply(h[s \ {n}], q[n])
                BY <3>1, <4>1
            <4> QED BY <4>3, <4>4, <4>5
        <3>2. CASE n \notin s
            <4>1. s \in SUBSET (1..(n - 1))
                BY <2>4, <3>2
            <4>2. h[s] = g[s]
                BY <3>2
            <4>3. g[s] = Folded(g, s)
                BY <2>5, <4>1
            <4>4. s \ {Max(s)} \in SUBSET (1..n) /\ n \notin s \ {Max(s)}
                BY <3>2
            <4>5. h[s \ {Max(s)}] = g[s \ {Max(s)}]
                BY <4>4
            <4> QED BY <4>2, <4>3, <4>5
        <3> QED BY <3>1, <3>2
    <2>7. Folds(h, n)
        <3>1. h = [s \in SUBSET (1..n) |-> h[s]]
            OBVIOUS
        <3> HIDE DEF h, Folded
        <3> QED BY <2>6, <3>1
    <2> QED BY <2>2, <2>7
<1> DEFINE g == CHOOSE g : Folds(g, Len(q))
<1>2. Folds(g, Len(q))
    BY <1>1
<1>3. After(v, q) = g[1..Len(q)]
    BY DEF After, FoldLeft, MapThenFoldSet
<1> HIDE DEF g
<1>4. \A s \in SUBSET (1..Len(q)) : g[s] = Folded(g, s)
    BY <1>2
<1>5. g[1..0] = v
    <2>1. 1..0 = {}
        OBVIOUS
    <2> QED BY <1>4, <2>1
<1>6. ASSUME NEW k \in 1..Len(q) PROVE g[1..k] = Apply(g[1..(k - 1)], q[k])
    <2>1. 1..k \in SUBSET (1..Len(q)) /\ 1..k # {} /\ k \in 1..k /\ (1..k) \ {k} = 1..(k - 1)
        <3>1. \A x \in 1..k : x \in 1..Len(q)
            OBVIOUS
        <3>2. k \in 1..k
            OBVIOUS
        <3>3. \A x : x \in (1..k) \ {k} <=> x \in 1..(k - 1)
            OBVIOUS
        <3> QED BY <3>1, <3>2, <3>3
    <2>2. Max(1..k) = k
        <3>1. \A x \in 1..k : (\A y \in 1..k : x >= y) <=> x = k
            BY <2>1
        <3> QED BY <2>1, <3>1 DEF Max
    <2> QED BY <1>4, <2>1, <2>2
<1> DEFINE f == [k \in 0..Len(q) |-> g[1..k]]
<1>7. \A i \in 1..Len(q) : i \in 0..Len(q) /\ i - 1 \in 0..Len(q)
    OBVIOUS
<1>8. 0 \in 0..Len(q) /\ Len(q) \in 0..Len(q)
    OBVIOUS
<1>9. \A i \in 1..Len(q) : f[i] = Apply(f[i - 1], q[i])
    BY <1>6, <1>7
<1>10. f[0] = v /\ f[Len(q)] = After(v, q)
    BY <1>3, <1>5, <1>8
<1> HIDE DEF f
<1> QED BY <1>9, <1>10 DEF Reads

\* The views c may have of the rooms.
Views == [Rooms -> SUBSET Users]

\* And there is only one.
LEMMA FoldReads ==
    ASSUME NEW v, NEW q, Len(q) \in Nat, DOMAIN q = 1..Len(q), NEW f, Reads(f, v, q)
    PROVE After(v, q) = f[Len(q)]
<1>1. PICK g : Reads(g, v, q) /\ After(v, q) = g[Len(q)]
    BY FoldSteps
<1> DEFINE T == {k \in 0..Len(q) : g[k] # f[k]}
<1>2. SUFFICES ASSUME T # {} PROVE FALSE
    BY <1>1
<1>3. PICK k \in T : \A j \in T : k <= j
    <2>1. T \in SUBSET Nat
        OBVIOUS
    <2> HIDE DEF T
    <2> QED BY <1>2, <2>1, LeastNumber
<1>4. k \in 0..Len(q) /\ g[k] # f[k]
    BY <1>3
<1>5. k # 0
    BY <1>1, <1>4 DEF Reads
<1>6. k - 1 \in 0..Len(q) /\ k \in 1..Len(q)
    BY <1>4, <1>5
<1>7. g[k - 1] = f[k - 1]
    BY <1>3, <1>4, <1>6
<1> QED BY <1>1, <1>4, <1>6, <1>7 DEF Reads

\* Each of these views is one.
LEMMA ReadsTyped ==
    ASSUME NEW v \in Views, NEW q, Len(q) \in Nat, NEW f, Reads(f, v, q),
           \A i \in 1..Len(q) : VoiceShape(q[i])
    PROVE \A k \in 0..Len(q) : f[k] \in Views
<1> DEFINE T == {k \in 0..Len(q) : f[k] \notin Views}
<1>1. SUFFICES ASSUME T # {} PROVE FALSE
    OBVIOUS
<1>2. PICK k \in T : \A j \in T : k <= j
    <2>1. T \in SUBSET Nat
        OBVIOUS
    <2> HIDE DEF T
    <2> QED BY <1>1, <2>1, LeastNumber
<1>3. k \in 0..Len(q) /\ f[k] \notin Views
    BY <1>2
<1>4. k # 0
    BY <1>3 DEF Reads
<1>5. k - 1 \in 0..Len(q) /\ k \in 1..Len(q)
    BY <1>3, <1>4
<1>6. f[k - 1] \in Views
    BY <1>2, <1>3, <1>5
<1>7. f[k] = Apply(f[k - 1], q[k]) /\ VoiceShape(q[k])
    BY <1>5 DEF Reads
<1>8. Apply(f[k - 1], q[k]) \in Views
    BY <1>6, <1>7 DEF Apply, VoiceShape, Views
<1> QED BY <1>3, <1>7, <1>8

\* Events that tell c nothing about r but that u has left it.
OnlyLeft(e, r, u) ==
    e.type \in {"voice_participants", "voice_joined", "voice_left"} /\ e.room = r =>
        e.type = "voice_left" /\ e.arg = u

Left(e, r) == e.type = "voice_left" /\ e.room = r

\* The views after the events m + 1 to n of q.
LeftIn(q, m, n, r) == \E i \in m + 1..n : Left(q[i], r)

Hears(f, q, m, n) ==
    /\ m \in Nat /\ n \in Nat /\ m <= n
    /\ \A i \in m..n : f[i] \in Views
    /\ \A i \in m + 1..n : f[i] = Apply(f[i - 1], q[i])

OnlyLeftIn(q, m, n, r, u) == \A i \in m + 1..n : OnlyLeft(q[i], r, u)

\* Such events take u out of the view, if there is one, and change nothing else of r.
LEMMA ReadsLeft ==
    ASSUME NEW r \in Rooms, NEW u, NEW q, NEW f, NEW m, NEW n, Hears(f, q, m, n), OnlyLeftIn(q, m, n, r, u)
    PROVE /\ LeftIn(q, m, n, r) => f[n][r] = f[m][r] \ {u}
          /\ ~LeftIn(q, m, n, r) => f[n][r] = f[m][r]
<1> USE DEF Hears, LeftIn, OnlyLeftIn
<1> DEFINE Now(k) == IF \E i \in m + 1..k : Left(q[i], r) THEN f[m][r] \ {u} ELSE f[m][r]
           T == {k \in m..n : f[k][r] # Now(k)}
<1>0. T = {} => f[n][r] = Now(n)
    <2>1. n \in m..n
        OBVIOUS
    <2> HIDE DEF Now
    <2> QED BY <2>1
<1>1. SUFFICES ASSUME T # {} PROVE FALSE
    BY <1>0
<1>2. PICK k \in T : \A j \in T : k <= j
    <2>1. T \in SUBSET Nat
        OBVIOUS
    <2> HIDE DEF T
    <2> QED BY <1>1, <2>1, LeastNumber
<1>3. k \in m..n /\ f[k][r] # Now(k)
    BY <1>2
<1>4. k # m
    BY <1>3
<1>5. k - 1 \in m..n /\ k \in m + 1..n /\ k - 1 < k
    BY <1>3, <1>4
<1>6. f[k - 1][r] = Now(k - 1)
    <2>1. k - 1 \notin T
        <3> HIDE DEF T
        <3> QED BY <1>2, <1>3, <1>5
    <2> HIDE DEF Now
    <2> QED BY <1>5, <2>1
<1>7. f[k] = Apply(f[k - 1], q[k]) /\ OnlyLeft(q[k], r, u) /\ f[k - 1] \in Views
    BY <1>5
<1>8. f[k][r] = IF Left(q[k], r) THEN f[k - 1][r] \ {u} ELSE f[k - 1][r]
    BY <1>7 DEF Apply, OnlyLeft, Left, Views
<1>9. (\E i \in m + 1..k : Left(q[i], r)) <=> (\E i \in m + 1..(k - 1) : Left(q[i], r)) \/ Left(q[k], r)
    <2>1. \A i : i \in m + 1..k <=> i \in m + 1..(k - 1) \/ i = k
        BY <1>5
    <2> QED BY <2>1
<1>10. Now(k) = IF Left(q[k], r) THEN Now(k - 1) \ {u} ELSE Now(k - 1)
    BY <1>9
<1> QED BY <1>3, <1>6, <1>8, <1>10

-----------------------------------------------------------------------------
(* What a step means for the voice rooms and for what their members hear. *)

VoiceTypes == {"voice_participants", "voice_joined", "voice_left"}

\* Nobody enters or leaves a voice room, and nobody is told otherwise.
Calm ==
    /\ UNCHANGED voiceRooms
    /\ \/ Quiet
       \/ \E S : \E e \in Events : e.type \notin VoiceTypes /\ Offer(ToEach(S, e))

JoinOut(c, r) ==
    [p \in Clients |->
        IF p = c THEN <<Event("voice_participants", r, {UserOf[q] : q \in voiceRooms[r] \ {c}})>>
        ELSE IF p \in voiceRooms[r] \ {c} THEN <<Event("voice_joined", r, UserOf[c])>> ELSE <<>>]

Joins(c, r)  == voiceRooms' = [voiceRooms EXCEPT ![r] = @ \cup {c}] /\ Offer(JoinOut(c, r))
Leaves(c, r) == /\ voiceRooms' = [voiceRooms EXCEPT ![r] = @ \ {c}]
                /\ Offer(ToEach(voiceRooms[r] \ {c}, Event("voice_left", r, UserOf[c])))
Departs(c) ==
    /\ voiceRooms' = [r \in Rooms |-> voiceRooms[r] \ {c}]
    /\ \E order : /\ \A p \in Clients : order[p] \in SetToSeqs(SharedVoice(c, p))
                  /\ Offer([p \in Clients |-> Farewell(c, p, order[p])])

VoiceMoves ==
    \/ Calm \/ Down
    \/ \E c \in Clients, r \in Rooms : Joins(c, r) \/ Leaves(c, r)
    \/ \E c \in Clients : Departs(c)

\* An event about no voice room.
LEMMA CalmOffer ==
    ASSUME NEW e \in Events, e.type \notin VoiceTypes, NEW S, UNCHANGED voiceRooms, Offer(ToEach(S, e))
    PROVE Calm
BY DEF Calm

LEMMA ReplyIsCalm ==
    ASSUME NEW e \in Events, e.type \notin VoiceTypes, NEW S, Reply(ToEach(S, e))
    PROVE Calm \/ Down
<1>1. CASE PodDown("panicked")
    BY <1>1 DEF Down
<1>2. CASE Offer(ToEach(S, e)) /\ UNCHANGED registry
    BY <1>2, CalmOffer DEF registry
<1> QED BY <1>1, <1>2 DEF Reply, SendOnly

\* Every message type (hub.go:114-134).
LEMMA IncomingVoice == ASSUME EventsInv, HandleIncoming PROVE VoiceMoves
<1> DEFINE c == Head(incoming).client
           r == Head(incoming).room
           target == Head(incoming).target
<1>1. c \in Clients /\ r \in Rooms /\ UserOf[c] \in Users /\ incoming # <<>>
    <2>1. incoming # <<>>
        BY DEF HandleIncoming
    <2>2. Head(incoming) \in Envelope
        BY <2>1, TypesOfInv DEF LoopTypes
    <2> QED BY <2>1, <2>2, TypesOfInv DEF Envelope
<1> HIDE DEF c, r, target
<1>2. ASSUME NEW S, Reply(ToEach(S, Error)) PROVE Calm \/ Down
    <2>1. Error \in Events /\ Error.type \notin VoiceTypes
        BY EventFacts DEF VoiceTypes
    <2> QED BY <1>2, <2>1, ReplyIsCalm
<1>3. ASSUME NEW S, NEW t \in {"typing", "voice_signal"}, Reply(ToEach(S, Event(t, r, UserOf[c])))
      PROVE Calm \/ Down
    <2> DEFINE e == Event(t, r, UserOf[c])
    <2>1. e \in Events /\ e.type = t
        BY <1>1, EventFacts
    <2>2. t \notin VoiceTypes
        BY DEF VoiceTypes
    <2> HIDE DEF e
    <2>3. Reply(ToEach(S, e))
        BY <1>3 DEF e
    <2> QED BY <2>1, <2>2, <2>3, ReplyIsCalm
<1>4. CASE JoinRoom(c, r)
    <2>1. ASSUME Enter(c, r) PROVE Calm \/ Down
        <3> DEFINE e == Event("room_joined", r, NoUser)
        <3>1. e \in Events /\ e.type \notin VoiceTypes
            BY <1>1, EventFacts DEF VoiceTypes
        <3>2. \/ PodDown("panicked")
              \/ Offer(ToEach({c}, e)) /\ UNCHANGED voiceRooms
            BY <2>1 DEF Enter
        <3> HIDE DEF e
        <3> QED BY <3>1, <3>2, CalmOffer DEF Down
    <2>2. CASE Onward(c, r)
        BY <2>2 DEF Onward, registry, outbox, Quiet, Calm, VoiceMoves
    <2> QED BY <1>2, <1>4, <2>1, <2>2, JoinSteps DEF VoiceMoves
<1>5. CASE LeaveRoom(c, r)
    BY <1>5 DEF LeaveRoom, Quiet, outbox, Calm, VoiceMoves
<1>6. CASE HandleChat(c, r)
    BY <1>2, <1>6 DEF HandleChat, Quiet, outbox, registry, Calm, VoiceMoves
<1>7. CASE HandleTyping(c, r)
    BY <1>3, <1>7 DEF HandleTyping, VoiceMoves
<1>8. CASE HandleVoiceJoin(c, r)
    BY <1>1, <1>8 DEF HandleVoiceJoin, Joins, JoinOut, Down, VoiceMoves
<1>9. CASE HandleVoiceLeave(c, r)
    BY <1>1, <1>9 DEF HandleVoiceLeave, Leaves, Down, VoiceMoves
<1>10. CASE RelayVoiceSignal(c, r, target)
    BY <1>2, <1>3, <1>10 DEF RelayVoiceSignal, VoiceMoves
<1>11. CASE Reply(ToEach({}, Error))
    BY <1>2, <1>11 DEF VoiceMoves
<1> QED BY <1>4, <1>5, <1>6, <1>7, <1>8, <1>9, <1>10, <1>11 DEF HandleIncoming, c, r, target

\* Every step but a writer's (hub.go:60-100).
LEMMA StepVoice == ASSUME EventsInv, OtherStep \/ UNCHANGED vars PROVE VoiceMoves
<1>1. ASSUME NEW c \in Clients,
             \/ Connect(c) \/ Disconnect(c) \/ WriterStops(c)
             \/ \E t \in MessageTypes, r \in Rooms, u \in Users \cup {NoUser} : ReadMessage(c, t, r, u)
      PROVE Calm
    BY <1>1 DEF Connect, Disconnect, WriterStops, ReadMessage, outbox, registry, Quiet, Calm
<1>2. ASSUME NEW c \in Clients, ReadInvalid(c) PROVE Calm \/ Down
    <2>1. Error \in Events /\ Error.type \notin VoiceTypes
        BY EventFacts DEF VoiceTypes
    <2>2. \/ PodDown("panicked")
          \/ Offer(ToEach({c}, Error)) /\ UNCHANGED voiceRooms
        BY <1>2 DEF ReadInvalid, registry
    <2> QED BY <2>1, <2>2, CalmOffer DEF Down
<1>3. CASE HandleRegister
    BY <1>3 DEF HandleRegister, outbox, Quiet, Calm, VoiceMoves
<1>4. CASE HandleUnregister
    <2>1. Head(unregister) \in Clients
        BY <1>4, TypesOfInv, HeadTailFacts DEF HandleUnregister, LoopTypes
    <2>2. ASSUME NEW c \in Clients, Cleanup(c) PROVE Down \/ Departs(c)
        <3>1. PICK order \in [Clients -> SetToAllKPermutations({r \in Rooms : c \in voiceRooms[r]})] :
                /\ \A p \in Clients : order[p] \in SetToSeqs(SharedVoice(c, p))
                /\ \/ PodDown("panicked")
                   \/ /\ Offer([p \in Clients |-> Farewell(c, p, order[p])])
                      /\ LeaveVoice(c)
            BY <2>2 DEF Cleanup
        <3> QED BY <3>1 DEF LeaveVoice, Departs, Down
    <2>3. CASE Cleanup(Head(unregister))
        BY <2>1, <2>2, <2>3 DEF VoiceMoves
    <2>4. CASE UNCHANGED <<registry, outbox>>
        BY <2>4 DEF registry, outbox, Quiet, Calm, VoiceMoves
    <2> QED BY <1>4, <2>3, <2>4 DEF HandleUnregister
<1>5. ASSUME NEW s \in Subs, Feeds(s) PROVE Calm
    BY <1>5 DEF Feeds, FeedStarts, FeedRecords, FeedReturns, FeedAcked, FeedDrops, ForwardToHub,
       NotFeeds, outbox, registry, Quiet, Calm
<1>6. ASSUME \/ \E r \in Rooms, m \in Messages : HttpStore(r, m)
             \/ \E p \in Post : HttpPublish(p)
             \/ \E r \in Rooms : RoomDeleted(r)
             \/ \E r \in Rooms, u \in Users : MembersChange(r, u)
             \/ \E u \in Users : PresenceExpires(u) \/ PresenceElsewhere(u)
             \/ Restart
             \/ UNCHANGED vars
      PROVE Calm
    BY <1>6 DEF HttpStore, HttpPublish, RoomDeleted, MembersChange, PresenceExpires,
       PresenceElsewhere, Restart, vars, outbox, registry, Quiet, Calm
<1>7. CASE PodKilled
    BY <1>7 DEF PodKilled, Down, VoiceMoves
<1>8. CASE HandleBroadcast
    <2> DEFINE bm == Head(broadcast)
               e == Event("chat_message", bm.room, bm.msg)
    <2>1. bm \in [room : Rooms, msg : Messages]
        BY <1>8, TypesOfInv, HeadTailFacts DEF HandleBroadcast, Post
    <2>2. e \in Events /\ e.type \notin VoiceTypes
        BY <2>1, EventFacts DEF VoiceTypes
    <2>3. \/ PodDown("panicked")
          \/ Offer(ToEach(rooms[bm.room], e)) /\ UNCHANGED voiceRooms
        BY <1>8 DEF HandleBroadcast, SendOnly, registry
    <2> HIDE DEF e
    <2> QED BY <2>2, <2>3, CalmOffer DEF Down, VoiceMoves
<1> QED BY <1>1, <1>2, <1>3, <1>4, <1>5, <1>6, <1>7, <1>8, IncomingVoice DEF OtherStep, VoiceMoves

-----------------------------------------------------------------------------
(* The invariant is inductive. *)

\* Each connection is of another user.
OneConnectionEach == \A c, d \in Clients : UserOf[c] = UserOf[d] => c = d

Others(r, c) == {UserOf[p] : p \in voiceRooms[r] \ {c}}

\* c believes in nobody who is not there, and misses nobody unless a user has
\* several connections.
Right(r, c) ==
    /\ Settled(c)[r] \subseteq Others(r, c)
    /\ OneConnectionEach => Settled(c)[r] = Others(r, c)

\* The inductive invariant: what VoiceViewConverges says, also of a client that
\* is gone and not yet unregistered, and of a pod that is down.
ViewsConverge == \A r \in Rooms : \A c \in voiceRooms[r] \ lagged : Right(r, c)

ViewInv == EventsInv /\ ViewTypeOK /\ ViewsConverge

\* Buffers are sequences of events a view can be made of.
LEMMA BufferFacts ==
    ASSUME EventsInv, NEW c \in Clients
    PROVE /\ send[c] \in Seq(Events) /\ Len(send[c]) \in Nat /\ DOMAIN send[c] = 1..Len(send[c])
          /\ \A i \in 1..Len(send[c]) : VoiceShape(send[c][i])
<1>1. send[c] \in Seq(Events)
    BY TypesOfInv DEF OutboxTypeOK
<1>2. Len(send[c]) \in Nat /\ DOMAIN send[c] = 1..Len(send[c])
    BY <1>1
<1>3. \A i \in DOMAIN send[c] : VoiceShape(send[c][i])
    BY DEF EventsInv, VoiceEventsShaped
<1> QED BY <1>1, <1>2, <1>3

\* c will have heard the events o next.
Told(f, c, o, m, n) ==
    /\ Hears(f, send'[c], m, n)
    /\ n = m + Len(o)
    /\ f[m] = Settled(c) /\ f[n] = Settled(c)'
    /\ \A i \in m + 1..n : i - m \in DOMAIN o /\ send'[c][i] = o[i - m]
    /\ \A j \in DOMAIN o : m + j \in m + 1..n /\ send'[c][m + j] = o[j]

\* An offer that c has room for.
Fits(c, out) ==
    /\ \A d \in Clients : out[d] \in Seq(Events)
    /\ Offer(out)
    /\ c \notin lagged'

\* What such an offer makes of the view of c.
LEMMA OfferedView ==
    ASSUME EventsInv, EventsInv', ViewTypeOK, UNCHANGED view, NEW c \in Clients, NEW out, Fits(c, out)
    PROVE \E f, m, n : Told(f, c, out[c], m, n)
<1>1. PICK q, o, w : q = send[c] /\ o = out[c] /\ w = send'[c]
    OBVIOUS
<1>2. w = q \o o
    <2>1. OutboxTypeOK
        BY TypesOfInv
    <2>2. Offer(out) /\ (\A d \in Clients : out[d] \in Seq(Events)) /\ c \notin lagged'
        BY DEF Fits
    <2>3. \A d \in Clients :
              /\ \A i \in DOMAIN send'[d] :
                    \/ i \in DOMAIN send[d] /\ send'[d][i] = send[d][i]
                    \/ \E j \in DOMAIN out[d] : send'[d][i] = out[d][j]
              /\ Len(send'[d]) > Len(send[d]) => \E j \in DOMAIN out[d] : Last(send'[d]) = out[d][j]
              /\ d \notin lagged' => send'[d] = send[d] \o out[d]
        BY ONLY <2>1, <2>2, OfferFacts, Zenon
    <2> QED BY <1>1, <2>2, <2>3
<1>3. q \in Seq(Events) /\ o \in Seq(Events)
    BY <1>1, BufferFacts DEF Fits
<1>4. /\ w \in Seq(Events) /\ DOMAIN w = 1..Len(w)
      /\ Len(q) \in Nat /\ Len(w) \in Nat /\ Len(w) = Len(q) + Len(o) /\ Len(q) <= Len(w)
      /\ \A i \in 1..Len(q) : i \in 1..Len(w) /\ w[i] = q[i]
      /\ \A i \in Len(q)..Len(w) : i \in 0..Len(w)
      /\ \A i \in Len(q) + 1..Len(w) :
            i \in 1..Len(w) /\ i - Len(q) \in DOMAIN o /\ w[i] = o[i - Len(q)]
      /\ \A j \in DOMAIN o : Len(q) + j \in Len(q) + 1..Len(w) /\ w[Len(q) + j] = o[j]
    BY ONLY <1>2, <1>3
<1>5. \A i \in 1..Len(w) : VoiceShape(w[i])
    <2>1. VoiceEventsShaped'
        BY DEF EventsInv
    <2>2. \A i \in DOMAIN send'[c] : VoiceShape(send'[c][i])
        BY <2>1 DEF VoiceEventsShaped, VoiceShape
    <2> QED BY <1>1, <1>4, <2>2
<1>6. PICK f : Reads(f, view[c], w) /\ After(view[c], w) = f[Len(w)]
    <2>1. Len(w) \in Nat /\ DOMAIN w = 1..Len(w)
        BY <1>4
    <2> QED BY <2>1, FoldSteps, Zenon
<1>7. view[c] \in Views
    BY DEF ViewTypeOK, Views
<1>8. \A k \in 0..Len(w) : f[k] \in Views
    BY <1>4, <1>5, <1>6, <1>7, ReadsTyped
<1>9. f[Len(w)] = Settled(c)'
    BY <1>1, <1>6 DEF Settled, After
<1>10. f[Len(q)] = Settled(c)
    <2>1. Reads(f, view[c], q)
        BY <1>4, <1>6 DEF Reads
    <2>2. Len(q) \in Nat /\ DOMAIN q = 1..Len(q)
        BY <1>3
    <2>3. After(view[c], q) = f[Len(q)]
        BY <2>1, <2>2, FoldReads, Zenon
    <2> QED BY <1>1, <2>3 DEF Settled, After
<1>11. Hears(f, w, Len(q), Len(w))
    <2>1. \A i \in Len(q)..Len(w) : f[i] \in Views
        BY <1>4, <1>8
    <2>2. \A i \in Len(q) + 1..Len(w) : f[i] = Apply(f[i - 1], w[i])
        BY <1>4, <1>6 DEF Reads
    <2> QED BY <1>4, <2>1, <2>2 DEF Hears
<1>12. Told(f, c, out[c], Len(q), Len(w))
    BY <1>1, <1>4, <1>9, <1>10, <1>11 DEF Told
<1> QED BY <1>12

\* Events that say of r at most that u has left it.
LEMMA LeftView ==
    ASSUME EventsInv, EventsInv', ViewTypeOK, UNCHANGED view, NEW c \in Clients, NEW out, Fits(c, out),
           NEW r \in Rooms, NEW u, \A j \in DOMAIN out[c] : OnlyLeft(out[c][j], r, u)
    PROVE Settled(c)'[r] = IF \E j \in DOMAIN out[c] : Left(out[c][j], r)
                           THEN Settled(c)[r] \ {u} ELSE Settled(c)[r]
<1>0. PICK q : q = send'[c]
    OBVIOUS
<1>1. PICK f, m, n : Told(f, c, out[c], m, n)
    BY OfferedView
<1>2. /\ f[m] = Settled(c) /\ f[n] = Settled(c)' /\ Hears(f, q, m, n)
      /\ \A i \in m + 1..n : i - m \in DOMAIN out[c] /\ q[i] = out[c][i - m]
      /\ \A j \in DOMAIN out[c] : m + j \in m + 1..n /\ q[m + j] = out[c][j]
    BY <1>0, <1>1 DEF Told
<1>3. OnlyLeftIn(q, m, n, r, u)
    BY <1>2 DEF OnlyLeftIn
<1>4. LeftIn(q, m, n, r) <=> \E j \in DOMAIN out[c] : Left(out[c][j], r)
    BY <1>2 DEF LeftIn
<1>5. /\ LeftIn(q, m, n, r) => f[n][r] = f[m][r] \ {u}
      /\ ~LeftIn(q, m, n, r) => f[n][r] = f[m][r]
    BY <1>2, <1>3, ReadsLeft
<1> QED BY <1>2, <1>4, <1>5

\* One event.
LEMMA OneView ==
    ASSUME EventsInv, EventsInv', ViewTypeOK, UNCHANGED view, NEW c \in Clients, NEW out, Fits(c, out),
           NEW e, out[c] = <<e>>
    PROVE Settled(c)' = Apply(Settled(c), e) /\ Settled(c) \in Views
<1>0. PICK q : q = send'[c]
    OBVIOUS
<1>1. PICK f, m, n : Told(f, c, out[c], m, n)
    BY OfferedView
<1>2. Len(out[c]) = 1 /\ 1 \in DOMAIN out[c] /\ out[c][1] = e
    OBVIOUS
<1>3. /\ f[m] = Settled(c) /\ f[n] = Settled(c)' /\ Hears(f, q, m, n)
      /\ n = m + 1 /\ q[m + 1] = e
    BY <1>0, <1>1, <1>2 DEF Told
<1>4. n \in m + 1..n /\ n - 1 = m /\ m \in m..n /\ q[n] = e
    BY <1>3 DEF Hears
<1>5. f[n] = Apply(f[m], e) /\ f[m] \in Views
    BY <1>3, <1>4 DEF Hears
<1> QED BY <1>3, <1>5

\* Nothing is said about a voice room.
LEMMA CalmView == ASSUME ViewInv, EventsInv', UNCHANGED view, Calm PROVE ViewsConverge'
<1>1. UNCHANGED voiceRooms
    BY DEF Calm
<1>2. CASE Quiet
    BY <1>1, <1>2 DEF Quiet, Settled, ViewInv, ViewsConverge, Others, Right
<1>3. ASSUME NEW S, NEW e \in Events, e.type \notin VoiceTypes, Offer(ToEach(S, e)) PROVE ViewsConverge'
    <2>1. SUFFICES ASSUME NEW r \in Rooms, NEW c \in voiceRooms[r], c \notin lagged'
                   PROVE Right(r, c)'
        BY <1>1 DEF ViewsConverge
    <2>2. c \in Clients /\ c \notin lagged
        BY <1>3, <2>1, TypesOfInv DEF Offer, RegistryTypeOK, ViewInv
    <2> DEFINE out == ToEach(S, e)
    <2>3. \A d \in Clients : out[d] \in Seq(Events) /\ \A j \in DOMAIN out[d] : out[d][j] = e
        <3> TAKE d \in Clients
        <3>1. <<e>> \in Seq(Events) /\ \A j \in DOMAIN <<e>> : <<e>>[j] = e
            OBVIOUS
        <3>2. <<>> \in Seq(Events) /\ DOMAIN <<>> = {}
            OBVIOUS
        <3>3. out[d] = IF d \in S THEN <<e>> ELSE <<>>
            BY DEF ToEach
        <3> QED BY <3>1, <3>2, <3>3
    <2> HIDE DEF out
    <2>4. Fits(c, out)
        BY <1>3, <2>1, <2>3 DEF Fits, out
    <2>5. \A j \in DOMAIN out[c] : OnlyLeft(out[c][j], r, NoUser) /\ ~Left(out[c][j], r)
        BY <1>3, <2>2, <2>3 DEF OnlyLeft, Left, VoiceTypes
    <2>6. Settled(c)'[r] = Settled(c)[r]
        BY <2>2, <2>4, <2>5, LeftView DEF ViewInv
    <2>7. Right(r, c)
        BY <2>1, <2>2 DEF ViewInv, ViewsConverge
    <2> QED BY <1>1, <2>6, <2>7 DEF Right, Others
<1> QED BY <1>2, <1>3 DEF Calm

\* A joiner is told who is there, the others that it came (hub.go:248-273).
LEMMA JoinView ==
    ASSUME ViewInv, EventsInv', UNCHANGED view, NEW c \in Clients, NEW r \in Rooms, Joins(c, r)
    PROVE ViewsConverge'
<1> DEFINE U == {UserOf[q] : q \in voiceRooms[r] \ {c}}
           e1 == Event("voice_participants", r, U)
           e2 == Event("voice_joined", r, UserOf[c])
           out == JoinOut(c, r)
<1>1. \A p \in Clients :
          /\ p = c => out[p] = <<e1>>
          /\ p # c /\ p \in voiceRooms[r] => out[p] = <<e2>>
          /\ p # c /\ p \notin voiceRooms[r] => out[p] = <<>>
    BY DEF JoinOut
<1>2. RegistryTypeOK /\ U \in SUBSET Users /\ UserOf[c] \in Users
    BY TypesOfInv DEF RegistryTypeOK, ViewInv
<1>3. voiceRooms' = [voiceRooms EXCEPT ![r] = @ \cup {c}] /\ Offer(out)
    BY DEF Joins
<1> HIDE DEF U, out
<1>4. /\ e1 \in Events /\ e1.type = "voice_participants" /\ e1.room = r /\ e1.arg = U
      /\ e2 \in Events /\ e2.type = "voice_joined" /\ e2.room = r /\ e2.arg = UserOf[c]
    BY <1>2, EventFacts DEF Event
<1> HIDE DEF e1, e2
<1>5. \A p \in Clients : out[p] \in Seq(Events) /\ \A j \in DOMAIN out[p] : out[p][j] \in {e1, e2}
    <2> TAKE p \in Clients
    <2>1. \A e \in {e1, e2} : <<e>> \in Seq(Events) /\ \A j \in DOMAIN <<e>> : <<e>>[j] = e
        BY <1>4
    <2>2. <<>> \in Seq(Events) /\ DOMAIN <<>> = {}
        OBVIOUS
    <2>3. out[p] = <<e1>> \/ out[p] = <<e2>> \/ out[p] = <<>>
        BY <1>1
    <2> QED BY <2>1, <2>2, <2>3
<1>6. SUFFICES ASSUME NEW s \in Rooms, NEW p \in voiceRooms'[s], p \notin lagged'
               PROVE Right(s, p)'
    BY DEF ViewsConverge
<1>7. p \in Clients /\ p \notin lagged
    <2>1. RegistryTypeOK'
        BY TypesOfInv DEF EventsInv, TypeOK
    <2> QED BY <1>3, <1>6, <2>1 DEF RegistryTypeOK, Offer
<1>8. Fits(p, out)
    BY <1>3, <1>5, <1>6 DEF Fits
<1>9. CASE s # r
    <2>1. voiceRooms'[s] = voiceRooms[s]
        BY <1>2, <1>3, <1>9 DEF RegistryTypeOK
    <2>2. \A j \in DOMAIN out[p] : OnlyLeft(out[p][j], s, NoUser) /\ ~Left(out[p][j], s)
        BY <1>4, <1>5, <1>7, <1>9 DEF OnlyLeft, Left
    <2>3. Settled(p)'[s] = Settled(p)[s]
        BY <1>7, <1>8, <2>2, LeftView DEF ViewInv
    <2>4. Right(s, p)
        BY <1>6, <1>7, <2>1 DEF ViewInv, ViewsConverge
    <2> QED BY <2>1, <2>3, <2>4 DEF Right, Others
<1>10. CASE s = r /\ p = c
    <2>1. Settled(p)' = Apply(Settled(p), e1) /\ Settled(p) \in Views
        BY <1>1, <1>7, <1>8, <1>10, OneView DEF ViewInv
    <2>2. Settled(p)'[r] = U
        BY <1>4, <2>1 DEF Apply, Views
    <2>3. voiceRooms'[r] \ {c} = voiceRooms[r] \ {c}
        BY <1>2, <1>3 DEF RegistryTypeOK
    <2> QED BY <1>10, <2>2, <2>3 DEF Right, Others, U
<1>11. CASE s = r /\ p # c
    <2>1. voiceRooms'[r] = voiceRooms[r] \cup {c} /\ p \in voiceRooms[r]
        BY <1>2, <1>3, <1>6, <1>11 DEF RegistryTypeOK
    <2>2. Settled(p)' = Apply(Settled(p), e2) /\ Settled(p) \in Views
        BY <1>1, <1>7, <1>8, <1>11, <2>1, OneView DEF ViewInv
    <2>3. Settled(p)'[r] = Settled(p)[r] \cup {UserOf[c]}
        BY <1>4, <2>2 DEF Apply, Views
    <2>4. Right(r, p)
        BY <1>7, <2>1 DEF ViewInv, ViewsConverge
    <2>5. Others(r, p)' = Others(r, p) \cup {UserOf[c]}
        BY <1>11, <2>1 DEF Others
    <2> QED BY <1>11, <2>3, <2>4, <2>5 DEF Right
<1> QED BY <1>9, <1>10, <1>11

\* Without c, and without its user unless that user has another connection.
LEMMA OthersWithout ==
    ASSUME RegistryTypeOK, NEW c \in Clients, NEW p \in Clients, p # c, NEW r \in Rooms,
           voiceRooms'[r] = voiceRooms[r] \ {c}
    PROVE /\ Others(r, p) \ {UserOf[c]} \subseteq Others(r, p)'
          /\ OneConnectionEach => Others(r, p)' = Others(r, p) \ {UserOf[c]}
<1>1. voiceRooms[r] \subseteq Clients
    BY DEF RegistryTypeOK
<1>2. OneConnectionEach => \A x \in voiceRooms[r] : UserOf[x] = UserOf[c] => x = c
    BY <1>1 DEF OneConnectionEach
<1>3. Others(r, p)' = {UserOf[x] : x \in (voiceRooms[r] \ {c}) \ {p}}
    BY DEF Others
<1> QED BY <1>2, <1>3 DEF Others

\* The others of a voice room are told that c has left it (hub.go:275-289).
LEMMA LeaveView ==
    ASSUME ViewInv, EventsInv', UNCHANGED view,
           NEW c \in Clients, NEW r \in Rooms, Leaves(c, r)
    PROVE ViewsConverge'
<1> DEFINE e == Event("voice_left", r, UserOf[c])
           out == ToEach(voiceRooms[r] \ {c}, e)
<1>1. RegistryTypeOK /\ UserOf[c] \in Users
    BY TypesOfInv DEF ViewInv
<1>2. voiceRooms' = [voiceRooms EXCEPT ![r] = @ \ {c}] /\ Offer(out)
    BY DEF Leaves
<1>3. \A p \in Clients : out[p] = IF p \in voiceRooms[r] \ {c} THEN <<e>> ELSE <<>>
    BY DEF ToEach
<1> HIDE DEF out
<1>4. e \in Events /\ e.type = "voice_left" /\ e.room = r /\ e.arg = UserOf[c]
    BY <1>1, EventFacts DEF Event
<1> HIDE DEF e
<1>5. \A p \in Clients : /\ out[p] \in Seq(Events)
                         /\ \A j \in DOMAIN out[p] : out[p][j] = e
                         /\ p \in voiceRooms[r] \ {c} => 1 \in DOMAIN out[p]
    <2> TAKE p \in Clients
    <2>1. <<e>> \in Seq(Events) /\ 1 \in DOMAIN <<e>> /\ \A j \in DOMAIN <<e>> : <<e>>[j] = e
        BY <1>4
    <2>2. <<>> \in Seq(Events) /\ DOMAIN <<>> = {}
        OBVIOUS
    <2> QED BY <1>3, <2>1, <2>2
<1>6. SUFFICES ASSUME NEW s \in Rooms, NEW p \in voiceRooms'[s], p \notin lagged'
               PROVE Right(s, p)'
    BY DEF ViewsConverge
<1>7. p \in Clients /\ p \notin lagged
    <2>1. RegistryTypeOK'
        BY TypesOfInv DEF EventsInv, TypeOK
    <2> QED BY <1>2, <1>6, <2>1 DEF RegistryTypeOK, Offer
<1>8. Fits(p, out)
    BY <1>2, <1>5, <1>6 DEF Fits
<1>9. CASE s # r
    <2>1. voiceRooms'[s] = voiceRooms[s]
        BY <1>1, <1>2, <1>9 DEF RegistryTypeOK
    <2>2. \A j \in DOMAIN out[p] : OnlyLeft(out[p][j], s, NoUser) /\ ~Left(out[p][j], s)
        BY <1>4, <1>5, <1>7, <1>9 DEF OnlyLeft, Left
    <2>3. Settled(p)'[s] = Settled(p)[s]
        BY <1>7, <1>8, <2>2, LeftView DEF ViewInv
    <2>4. Right(s, p)
        BY <1>6, <1>7, <2>1 DEF ViewInv, ViewsConverge
    <2> QED BY <2>1, <2>3, <2>4 DEF Right, Others
<1>10. CASE s = r
    <2>1. voiceRooms'[r] = voiceRooms[r] \ {c} /\ p \in voiceRooms[r] /\ p # c
        BY <1>1, <1>2, <1>6, <1>10 DEF RegistryTypeOK
    <2>2. /\ \A j \in DOMAIN out[p] : OnlyLeft(out[p][j], r, UserOf[c])
          /\ \E j \in DOMAIN out[p] : Left(out[p][j], r)
        BY <1>4, <1>5, <1>7, <2>1 DEF OnlyLeft, Left
    <2>3. Settled(p)'[r] = Settled(p)[r] \ {UserOf[c]}
        BY <1>7, <1>8, <2>2, LeftView DEF ViewInv
    <2>4. Right(r, p)
        BY <1>7, <2>1 DEF ViewInv, ViewsConverge
    <2>5. /\ Others(r, p) \ {UserOf[c]} \subseteq Others(r, p)'
          /\ OneConnectionEach => Others(r, p)' = Others(r, p) \ {UserOf[c]}
        BY <1>1, <1>7, <2>1, OthersWithout
    <2> QED BY <1>10, <2>3, <2>4, <2>5 DEF Right
<1> QED BY <1>9, <1>10

\* And so are those of every voice room of a connection that is cleaned up
\* (hub.go:81-85).
LEMMA DepartView ==
    ASSUME ViewInv, EventsInv', UNCHANGED view, NEW c \in Clients, Departs(c)
    PROVE ViewsConverge'
<1>1. RegistryTypeOK /\ voiceRooms' = [r \in Rooms |-> voiceRooms[r] \ {c}]
    BY TypesOfInv DEF ViewInv, Departs
<1>2. PICK order : /\ \A p \in Clients : order[p] \in SetToSeqs(SharedVoice(c, p))
                   /\ Offer([p \in Clients |-> Farewell(c, p, order[p])])
    BY DEF Departs
<1> DEFINE out == [p \in Clients |-> Farewell(c, p, order[p])]
<1>3. \A p \in Clients : /\ p = c => out[p] = <<>>
                         /\ p # c => out[p] = Farewell(c, p, order[p])
    BY DEF Farewell
<1>4. Offer(out)
    BY <1>2
<1> HIDE DEF out
<1>5. \A p \in Clients : p # c =>
          /\ out[p] \in Seq(Events)
          /\ \A i \in DOMAIN out[p] : LET e == out[p][i] IN
                \/ e.type = "presence"
                \/ /\ e.type = "voice_left" /\ e.room \in SharedVoice(c, p) /\ e.arg = UserOf[c]
          /\ \A r \in SharedVoice(c, p) : \E i \in DOMAIN out[p] :
                LET e == out[p][i] IN e.type = "voice_left" /\ e.room = r /\ e.arg = UserOf[c]
    BY <1>2, <1>3, FarewellFacts DEF ViewInv
<1>6. \A p \in Clients : out[p] \in Seq(Events)
    <2> TAKE p \in Clients
    <2>1. CASE p = c
        <3>1. out[p] = <<>>
            BY <1>3, <2>1
        <3> QED BY <3>1
    <2> QED BY <1>5, <2>1
<1>7. SUFFICES ASSUME NEW r \in Rooms, NEW p \in voiceRooms'[r], p \notin lagged'
               PROVE Right(r, p)'
    BY DEF ViewsConverge
<1>8. /\ p \in Clients /\ p \notin lagged /\ p # c /\ p \in voiceRooms[r]
      /\ voiceRooms'[r] = voiceRooms[r] \ {c}
    BY <1>1, <1>4, <1>7 DEF RegistryTypeOK, Offer
<1>9. Fits(p, out)
    BY <1>4, <1>6, <1>7 DEF Fits
<1>10. \A j \in DOMAIN out[p] : OnlyLeft(out[p][j], r, UserOf[c])
    BY <1>5, <1>8 DEF OnlyLeft
<1>11. (\E j \in DOMAIN out[p] : Left(out[p][j], r)) <=> c \in voiceRooms[r]
    BY <1>5, <1>8 DEF Left, SharedVoice
<1>12. Settled(p)'[r] = IF c \in voiceRooms[r] THEN Settled(p)[r] \ {UserOf[c]} ELSE Settled(p)[r]
    BY <1>8, <1>9, <1>10, <1>11, LeftView DEF ViewInv
<1>13. Right(r, p)
    BY <1>8 DEF ViewInv, ViewsConverge
<1>14. CASE c \in voiceRooms[r]
    <2>1. /\ Others(r, p) \ {UserOf[c]} \subseteq Others(r, p)'
          /\ OneConnectionEach => Others(r, p)' = Others(r, p) \ {UserOf[c]}
        BY <1>1, <1>8, OthersWithout
    <2> QED BY <1>12, <1>13, <1>14, <2>1 DEF Right
<1>15. CASE c \notin voiceRooms[r]
    <2>1. voiceRooms'[r] = voiceRooms[r]
        BY <1>8, <1>15
    <2> QED BY <1>12, <1>13, <1>15, <2>1 DEF Right, Others
<1> QED BY <1>14, <1>15

\* The writer takes the next event, and the browser hears it: what c will
\* believe in the end stays the same (client.go:90-104).
LEMMA WriteView ==
    ASSUME ViewInv, NEW c \in Clients, ViewWrite(c)
    PROVE ViewTypeOK' /\ ViewsConverge'
<1>1. /\ send[c] # <<>> /\ send' = [send EXCEPT ![c] = Tail(@)]
      /\ view' = [view EXCEPT ![c] = Apply(@, Head(send[c]))]
      /\ UNCHANGED <<voiceRooms, lagged>>
    BY DEF ViewWrite, Write, registry
<1>2. /\ send[c] \in Seq(Events) /\ Len(send[c]) \in Nat /\ DOMAIN send[c] = 1..Len(send[c])
      /\ \A i \in 1..Len(send[c]) : VoiceShape(send[c][i])
    BY BufferFacts DEF ViewInv
<1>3. OutboxTypeOK /\ ViewTypeOK /\ RegistryTypeOK
    BY TypesOfInv DEF ViewInv
<1>4. PICK q, t : q = send[c] /\ t = Tail(send[c])
    OBVIOUS
<1>5. /\ Head(q) = q[1] /\ 1 \in 1..Len(q)
      /\ Len(t) \in Nat /\ Len(t) = Len(q) - 1 /\ DOMAIN t = 1..Len(t)
      /\ \A i \in 1..Len(t) : i + 1 \in 1..Len(q) /\ t[i] = q[i + 1]
    BY <1>1, <1>2, <1>4
<1>6. \A d \in Clients : /\ send'[d] = IF d = c THEN t ELSE send[d]
                         /\ view'[d] = IF d = c THEN Apply(view[c], q[1]) ELSE view[d]
    BY <1>1, <1>3, <1>4, <1>5 DEF OutboxTypeOK, ViewTypeOK
<1>7. Apply(view[c], q[1]) \in Views /\ view[c] \in Views
    BY <1>2, <1>3, <1>4, <1>5 DEF Apply, VoiceShape, Views, ViewTypeOK
<1>8. ViewTypeOK'
    BY <1>1, <1>3, <1>4, <1>5, <1>7 DEF ViewTypeOK, Views
<1>9. PICK f : Reads(f, view[c], q) /\ After(view[c], q) = f[Len(q)]
    <2>1. Len(q) \in Nat /\ DOMAIN q = 1..Len(q)
        BY <1>2, <1>4
    <2> QED BY <2>1, FoldSteps, Zenon
<1> DEFINE g == [i \in 0..Len(t) |-> f[i + 1]]
<1>10. Reads(g, Apply(view[c], q[1]), t)
    <2>1. 0 \in 0..Len(t) /\ \A i \in 1..Len(t) : i \in 0..Len(t) /\ i - 1 \in 0..Len(t)
        BY <1>5
    <2>2. g[0] = f[1] /\ \A i \in 1..Len(t) : g[i] = f[i + 1] /\ g[i - 1] = f[i]
        BY <1>5, <2>1
    <2>3. f[1] = Apply(view[c], q[1])
        BY <1>5, <1>9 DEF Reads
    <2>4. \A i \in 1..Len(t) : f[i + 1] = Apply(f[i], t[i])
        BY <1>5, <1>9 DEF Reads
    <2> HIDE DEF g
    <2> QED BY <2>2, <2>3, <2>4 DEF Reads
<1>11. g[Len(t)] = f[Len(q)]
    BY <1>5
<1> HIDE DEF g
<1>12. After(Apply(view[c], q[1]), t) = g[Len(t)]
    <2>1. Len(t) \in Nat /\ DOMAIN t = 1..Len(t)
        BY <1>5
    <2> QED BY <1>10, <2>1, FoldReads, Zenon
<1>13. \A d \in Clients : Settled(d)' = Settled(d)
    <2> TAKE d \in Clients
    <2>1. CASE d = c
        <3>1. Settled(d)' = After(Apply(view[c], q[1]), t)
            BY <1>6, <2>1 DEF Settled, After
        <3>2. Settled(d) = After(view[c], q)
            BY <1>4, <2>1 DEF Settled, After
        <3> QED BY <1>9, <1>11, <1>12, <3>1, <3>2
    <2>2. CASE d # c
        <3>1. send'[d] = send[d] /\ view'[d] = view[d]
            BY <1>6, <2>2
        <3> QED BY <3>1 DEF Settled
    <2> QED BY <2>1, <2>2
<1>14. ViewsConverge'
    BY <1>1, <1>3, <1>13 DEF ViewInv, ViewsConverge, Right, Others, RegistryTypeOK
<1> QED BY <1>8, <1>14

LEMMA ViewStep == ASSUME ViewInv, EventsInv', [ViewNext]_viewVars PROVE ViewInv'
<1>1. ASSUME OtherStep \/ UNCHANGED vars, UNCHANGED view PROVE ViewTypeOK' /\ ViewsConverge'
    <2>1. ViewTypeOK'
        BY <1>1 DEF ViewInv, ViewTypeOK
    <2>2. VoiceMoves
        BY <1>1, StepVoice DEF ViewInv
    <2>3. CASE Down
        <3>1. voiceRooms' = [r \in Rooms |-> {}]
            BY <2>3 DEF Down, PodDown
        <3>2. ViewsConverge'
            BY <3>1 DEF ViewsConverge
        <3> QED BY <2>1, <3>2
    <2>4. UNCHANGED view
        BY <1>1
    <2>5. CASE Calm
        BY <2>1, <2>4, <2>5, CalmView
    <2>6. ASSUME NEW c \in Clients, NEW r \in Rooms, Joins(c, r) \/ Leaves(c, r) PROVE ViewsConverge'
        BY <2>4, <2>6, JoinView, LeaveView
    <2>7. ASSUME NEW c \in Clients, Departs(c) PROVE ViewsConverge'
        BY <2>4, <2>7, DepartView
    <2> QED BY <2>1, <2>2, <2>3, <2>5, <2>6, <2>7 DEF VoiceMoves
<1>2. ASSUME NEW c \in Clients, ViewWrite(c) PROVE ViewTypeOK' /\ ViewsConverge'
    BY <1>2, WriteView
<1>3. \/ \E c \in Clients : ViewWrite(c)
      \/ OtherStep /\ UNCHANGED view
      \/ UNCHANGED vars /\ UNCHANGED view
    BY DEF ViewNext, viewVars
<1>4. ViewTypeOK' /\ ViewsConverge'
    BY <1>1, <1>2, <1>3
<1> QED BY <1>4 DEF ViewInv

\* The invariant holds in every reachable state.
THEOREM ViewInvariant == ViewSpec => []ViewInv
<1>1. ViewInit => ViewTypeOK /\ ViewsConverge
    BY DEF ViewInit, Init, MemoryInit, ViewTypeOK, ViewsConverge
<1>2. ViewInit => Init
    BY DEF ViewInit
<1>3. [ViewNext]_viewVars => [Next]_vars
    BY DEF ViewNext, ViewWrite, Next, viewVars
<1>4. ViewSpec => []EventsInv
    BY <1>2, <1>3, EventsInvariant, PTL DEF ViewSpec, Spec
<1>5. ViewInv /\ EventsInv' /\ [ViewNext]_viewVars => ViewInv'
    BY ViewStep
<1>6. ViewTypeOK /\ ViewsConverge /\ EventsInv => ViewInv
    BY DEF ViewInv
<1> QED BY <1>1, <1>4, <1>5, <1>6, PTL DEF ViewSpec

\* Whatever joins, leaves, disconnects and writes come before, a participant of
\* a voice room that lost no event will believe exactly the others to be there
\* (hub.go:81-85, :248-289).
THEOREM ViewsAlwaysConverge == ASSUME OneConnectionEach PROVE ViewSpec => []VoiceViewConverges
<1>1. ViewInv => VoiceViewConverges
    BY DEF ViewInv, ViewsConverge, Right, VoiceViewConverges, Others
<1> QED BY <1>1, ViewInvariant, PTL

\* Nobody who is not there.
NoGhosts == \A r \in Rooms : \A c \in voiceRooms[r] \ lagged : Settled(c)[r] \subseteq Others(r, c)

\* Users with several connections, whose voice_left of one removes the other from
\* the views too, never make a participant believe in somebody who has left
\* (hub.go:275-289).
THEOREM ViewsNeverInvent == ViewSpec => []NoGhosts
<1>1. ViewInv => NoGhosts
    BY DEF ViewInv, ViewsConverge, Right, NoGhosts
<1> QED BY <1>1, ViewInvariant, PTL

=============================================================================

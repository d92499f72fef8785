----------------------------- MODULE Hub_proofs -----------------------------
(***************************************************************************)
(* The registry of the hub: its two halves agree, and nothing in it leads  *)
(* to a closed channel, for every number of connections and rooms.         *)
(*                                                                         *)
(* The properties are inductive together with what waits in the channels   *)
(* register and unregister: a connection whose channel is closed is not    *)
(* registered again, and only a connection that is gone is unregistered.   *)
(*                                                                         *)
(* Then its feeds: every step of the hub is a step of RoomFeed or leaves   *)
(* the feeds alone, where the rooms wanted are those with local clients.   *)
(* And a disconnect that was announced is kept until one step cleans it up,*)
(* a connection outlives its end in the registry by one race only, and a   *)
(* connected user is taken offline here by the end of another connection.  *)
(***************************************************************************)
EXTENDS HubProps, TLAPS

\* The variables the registry invariants are about.
regVars == <<conn, register, unregister, incoming, registry, closed>>

\* Types of what the hub's loop reads and writes.
LoopTypes ==
    /\ conn \in [Clients -> {"none", "open", "deaf", "gone"}]
    /\ register \in Seq(Clients)
    /\ unregister \in Seq(Clients)
    /\ incoming \in Seq(Envelope)
    /\ RegistryTypeOK

\* A connection waits once to be registered, after it was opened and before it
\* is in the registry.
RegistersOnce ==
    /\ \A i, j \in DOMAIN register : i # j => register[i] # register[j]
    /\ \A i \in DOMAIN register :
          /\ register[i] \notin clients
          /\ register[i] \notin closed
          /\ conn[register[i]] # "none"
    /\ \A c \in clients : conn[c] # "none"

\* Only a connection that is gone waits to be unregistered.
UnregistersGone == \A i \in DOMAIN unregister : conn[unregister[i]] = "gone"

\* The inductive invariant.
RegistryInv ==
    /\ LoopTypes
    /\ MembershipAgrees
    /\ ClosedIsForgotten
    /\ ClosedIsGone
    /\ RegistersOnce
    /\ UnregistersGone

\* The end of the process leaves an empty registry (hub.go:48-62).
LEMMA PodDownInv == ASSUME NEW why, RegistryInv, PodDown(why) PROVE RegistryInv'
<1> USE DEF PodDown, RegistryInv
<1>1. LoopTypes'
    BY DEF LoopTypes, RegistryTypeOK
<1>2. MembershipAgrees' /\ ClosedIsForgotten' /\ ClosedIsGone'
    BY DEF MembershipAgrees, ClosedIsForgotten, ClosedIsGone
<1>3. RegistersOnce' /\ UnregistersGone'
    BY DEF RegistersOnce, UnregistersGone
<1> QED BY <1>1, <1>2, <1>3

\* Steps that leave the loop's state alone.
LEMMA StutterInv == ASSUME RegistryInv, UNCHANGED regVars PROVE RegistryInv'
BY DEF RegistryInv, regVars, registry, LoopTypes, RegistryTypeOK, MembershipAgrees,
       ClosedIsForgotten, ClosedIsGone, RegistersOnce, UnregistersGone

\* Taking an envelope out, with nothing else changed (hub.go:91).
LEMMA PopInv == ASSUME RegistryInv, incoming # <<>>, Popped, UNCHANGED <<conn, registry, closed>>
                PROVE RegistryInv'
<1> USE DEF RegistryInv, Popped, registry
<1>1. Tail(incoming) \in Seq(Envelope)
    BY DEF LoopTypes
<1>2. LoopTypes'
    BY <1>1 DEF LoopTypes, RegistryTypeOK
<1> QED BY <1>2 DEF MembershipAgrees, ClosedIsForgotten, ClosedIsGone, RegistersOnce, UnregistersGone

\* A handler that only replies (hub.go:114-134).
LEMMA ReplyInv == ASSUME NEW out, RegistryInv, incoming # <<>>, Reply(out) PROVE RegistryInv'
<1>1. CASE Panics(out)
    BY <1>1, PodDownInv DEF Reply, SendOnly
<1>2. CASE ~Panics(out)
    BY <1>2, PopInv DEF Reply, SendOnly
<1> QED BY <1>1, <1>2

\* A connection comes: it is in neither the registry nor the channel yet
\* (hub.go:103-112).
LEMMA ConnectInv == ASSUME NEW c \in Clients, RegistryInv, Connect(c) PROVE RegistryInv'
<1> USE DEF Connect, RegistryInv, registry, outbox
<1>1. LoopTypes'
    BY DEF LoopTypes, RegistryTypeOK
<1>2. MembershipAgrees' /\ ClosedIsForgotten'
    BY DEF MembershipAgrees, ClosedIsForgotten
<1>3. ClosedIsGone'
    BY DEF ClosedIsGone, LoopTypes
<1>4. UnregistersGone'
    BY DEF UnregistersGone, LoopTypes
<1>5. RegistersOnce'
    BY DEF RegistersOnce, LoopTypes, RegistryTypeOK, ClosedIsGone
<1> QED BY <1>1, <1>2, <1>3, <1>4, <1>5

\* The reader announces the end of its connection (client.go:46-49).
LEMMA DisconnectInv == ASSUME NEW c \in Clients, RegistryInv, Disconnect(c) PROVE RegistryInv'
<1> USE DEF Disconnect, RegistryInv, registry, outbox
<1>1. LoopTypes'
    BY DEF LoopTypes, RegistryTypeOK
<1>2. MembershipAgrees' /\ ClosedIsForgotten'
    BY DEF MembershipAgrees, ClosedIsForgotten
<1>3. ClosedIsGone'
    BY DEF ClosedIsGone, LoopTypes, RegistryTypeOK
<1>4. UnregistersGone'
    BY DEF UnregistersGone, LoopTypes
<1>5. RegistersOnce'
    BY DEF RegistersOnce, LoopTypes, RegistryTypeOK
<1> QED BY <1>1, <1>2, <1>3, <1>4, <1>5

\* The writer stops, the reader goes on (client.go:69-92).
LEMMA WriterStopsInv == ASSUME NEW c \in Clients, RegistryInv, WriterStops(c) PROVE RegistryInv'
<1> USE DEF WriterStops, RegistryInv, registry, outbox, channels
<1>1. LoopTypes'
    BY DEF LoopTypes, RegistryTypeOK
<1>2. MembershipAgrees' /\ ClosedIsForgotten'
    BY DEF MembershipAgrees, ClosedIsForgotten
<1>3. ClosedIsGone'
    BY DEF ClosedIsGone, LoopTypes, RegistryTypeOK
<1>4. UnregistersGone'
    BY DEF UnregistersGone, LoopTypes
<1>5. RegistersOnce'
    BY DEF RegistersOnce, LoopTypes, RegistryTypeOK
<1> QED BY <1>1, <1>2, <1>3, <1>4, <1>5

\* The reader queues an envelope or replies to invalid data (client.go:57-63).
LEMMA ReaderInv ==
    ASSUME NEW c \in Clients, RegistryInv,
           \/ \E t \in MessageTypes, r \in Rooms, u \in Users \cup {NoUser} : ReadMessage(c, t, r, u)
           \/ ReadInvalid(c)
    PROVE RegistryInv'
<1>1. ASSUME NEW t \in MessageTypes, NEW r \in Rooms, NEW u \in Users \cup {NoUser},
             ReadMessage(c, t, r, u)
      PROVE RegistryInv'
    <2> USE <1>1 DEF ReadMessage, RegistryInv, registry, outbox
    <2>1. [client |-> c, type |-> t, room |-> r, target |-> u] \in Envelope
        BY DEF Envelope
    <2>2. LoopTypes'
        BY <2>1 DEF LoopTypes, RegistryTypeOK
    <2> QED BY <2>2 DEF MembershipAgrees, ClosedIsForgotten, ClosedIsGone, RegistersOnce,
               UnregistersGone
<1>2. CASE ReadInvalid(c)
    <2>1. CASE Panics(ToEach({c}, Error))
        BY <1>2, <2>1, PodDownInv DEF ReadInvalid
    <2>2. CASE ~Panics(ToEach({c}, Error))
        BY <1>2, <2>2, StutterInv DEF ReadInvalid, regVars, channels
    <2> QED BY <2>1, <2>2
<1> QED BY <1>1, <1>2

\* The loop registers a connection (hub.go:66-70).
LEMMA RegisterInv == ASSUME RegistryInv, HandleRegister PROVE RegistryInv'
<1> USE DEF HandleRegister, AtSelect, RegistryInv, outbox
<1> DEFINE c == Head(register)
<1>1. c = register[1] /\ c \in Clients /\ Len(register) > 0 /\ 1 \in DOMAIN register
    BY DEF LoopTypes
<1>2. Tail(register) \in Seq(Clients)
    BY DEF LoopTypes
<1>3. \A i \in DOMAIN Tail(register) :
          i + 1 \in DOMAIN register /\ i + 1 # 1 /\ Tail(register)[i] = register[i + 1] /\ i \in Int
    BY DEF LoopTypes
<1>4. LoopTypes'
    BY <1>1, <1>2 DEF LoopTypes, RegistryTypeOK
<1>5. MembershipAgrees'
    BY DEF MembershipAgrees
<1>6. ClosedIsForgotten' /\ ClosedIsGone'
    BY <1>1 DEF ClosedIsForgotten, ClosedIsGone, RegistersOnce
<1>7. RegistersOnce'
    <2>1. ASSUME NEW i \in DOMAIN register', NEW j \in DOMAIN register', i # j
          PROVE register'[i] # register'[j]
        BY <1>3, <2>1 DEF RegistersOnce
    <2>2. ASSUME NEW i \in DOMAIN register'
          PROVE /\ register'[i] \notin clients'
                /\ register'[i] \notin closed'
                /\ conn'[register'[i]] # "none"
        BY <1>1, <1>3, <2>2 DEF RegistersOnce
    <2>3. \A x \in clients' : conn'[x] # "none"
        BY <1>1 DEF RegistersOnce
    <2> QED BY <2>1, <2>2, <2>3 DEF RegistersOnce
<1>8. UnregistersGone'
    BY DEF UnregistersGone
<1> QED BY <1>4, <1>5, <1>6, <1>7, <1>8

\* Handling an unregister closes the channel of a client and takes it out of
\* every room in the same step (hub.go:72-89).
LEMMA CleanupInv ==
    ASSUME RegistryInv, unregister # <<>>, Head(unregister) \in clients,
           Cleanup(Head(unregister))
    PROVE RegistryInv'
<1> USE DEF RegistryInv
<1> DEFINE c == Head(unregister)
<1>1. /\ c = unregister[1] /\ c \in Clients /\ 1 \in DOMAIN unregister
      /\ Tail(unregister) \in Seq(Clients)
      /\ \A i \in DOMAIN Tail(unregister) :
             i + 1 \in DOMAIN unregister /\ Tail(unregister)[i] = unregister[i + 1]
    BY DEF LoopTypes
<1>2. conn[c] = "gone"
    BY <1>1 DEF UnregistersGone
<1>3. CASE PodDown("panicked")
    BY <1>3, PodDownInv
<1>4. CASE /\ clients' = clients \ {c}
           /\ closed' = closed \cup {c}
           /\ LeaveRooms(c, joined[c])
           /\ LeaveVoice(c)
           /\ unregister' = Tail(unregister)
           /\ UNCHANGED <<conn, register, incoming, broadcast>>
    <2> USE <1>4 DEF LeaveRooms, LeaveVoice
    <2>1. \A r \in Rooms : rooms'[r] = rooms[r] \ {c} /\ voiceRooms'[r] = voiceRooms[r] \ {c}
        BY <1>1 DEF MembershipAgrees, LoopTypes, RegistryTypeOK
    <2>2. joined'[c] = {} /\ \A x \in Clients \ {c} : joined'[x] = joined[x]
        BY <1>1 DEF LoopTypes, RegistryTypeOK
    <2>3. LoopTypes'
        BY <1>1 DEF LoopTypes, RegistryTypeOK
    <2>4. MembershipAgrees'
        BY <2>1, <2>2 DEF MembershipAgrees
    <2>5. ClosedIsForgotten'
        BY <2>1 DEF ClosedIsForgotten
    <2>6. ClosedIsGone'
        BY <1>2 DEF ClosedIsGone
    <2>7. RegistersOnce'
        BY DEF RegistersOnce
    <2>8. UnregistersGone'
        BY <1>1 DEF UnregistersGone
    <2> QED BY <2>3, <2>4, <2>5, <2>6, <2>7, <2>8
<1> QED BY <1>3, <1>4 DEF Cleanup

\* The unregister of a client that is not registered yet is dropped
\* (hub.go:72-73).
LEMMA UnregisterInv == ASSUME RegistryInv, HandleUnregister PROVE RegistryInv'
<1> USE DEF HandleUnregister
<1>1. CASE Head(unregister) \in clients
    BY <1>1, CleanupInv
<1>2. CASE Head(unregister) \notin clients
    <2>1. /\ Tail(unregister) \in Seq(Clients)
          /\ \A i \in DOMAIN Tail(unregister) :
                 i + 1 \in DOMAIN unregister /\ Tail(unregister)[i] = unregister[i + 1]
        BY DEF RegistryInv, LoopTypes
    <2> USE <1>2, <2>1 DEF RegistryInv, registry, outbox
    <2>2. LoopTypes'
        BY DEF LoopTypes, RegistryTypeOK
    <2>3. UnregistersGone'
        BY DEF UnregistersGone
    <2> QED BY <2>2, <2>3 DEF MembershipAgrees, ClosedIsForgotten, ClosedIsGone, RegistersOnce
<1> QED BY <1>1, <1>2

\* A client enters a room on both sides of the relation; entering with a closed
\* channel ends the process (hub.go:163-187).
LEMMA EnterInv ==
    ASSUME NEW c \in Clients, NEW r \in Rooms, RegistryInv, incoming # <<>>, Enter(c, r)
    PROVE RegistryInv'
<1> DEFINE out == ToEach({c}, Event("room_joined", r, NoUser))
<1> USE DEF Enter
<1>1. CASE Panics(out)
    BY <1>1, PodDownInv
<1>2. CASE ~Panics(out)
    <2> USE <1>2 DEF RegistryInv, Popped
    <2>1. c \notin closed
        BY DEF Panics, ToEach
    <2>2. /\ Tail(incoming) \in Seq(Envelope)
          /\ joined' = [joined EXCEPT ![c] = @ \cup {r}]
          /\ rooms' = [rooms EXCEPT ![r] = @ \cup {c}]
          /\ Popped
          /\ UNCHANGED <<conn, closed, clients, voiceRooms>>
        BY DEF LoopTypes
    <2> HIDE DEF Enter
    <2>3. LoopTypes'
        BY <2>2 DEF LoopTypes, RegistryTypeOK
    <2>4. MembershipAgrees'
        BY <2>2 DEF MembershipAgrees, LoopTypes, RegistryTypeOK
    <2>5. ClosedIsForgotten'
        BY <2>1, <2>2 DEF ClosedIsForgotten, LoopTypes, RegistryTypeOK
    <2> QED BY <2>2, <2>3, <2>4, <2>5 DEF ClosedIsGone, RegistersOnce, UnregistersGone
<1> QED BY <1>1, <1>2

\* A client leaves a room on both sides of the relation (hub.go:190-199).
LEMMA LeaveRoomInv ==
    ASSUME NEW c \in Clients, NEW r \in Rooms, RegistryInv, incoming # <<>>, LeaveRoom(c, r)
    PROVE RegistryInv'
<1> USE DEF LeaveRoom, LeaveRooms, RegistryInv, Popped, outbox
<1>1. Tail(incoming) \in Seq(Envelope)
    BY DEF LoopTypes
<1>2. LoopTypes'
    BY <1>1 DEF LoopTypes, RegistryTypeOK
<1>3. MembershipAgrees'
    BY DEF MembershipAgrees, LoopTypes, RegistryTypeOK
<1>4. ClosedIsForgotten'
    BY DEF ClosedIsForgotten, LoopTypes, RegistryTypeOK
<1> QED BY <1>2, <1>3, <1>4 DEF ClosedIsGone, RegistersOnce, UnregistersGone

\* Joining a voice room with a closed channel ends the process, because the
\* participants are sent to the one who joins (hub.go:248-273).
LEMMA VoiceJoinInv ==
    ASSUME NEW c \in Clients, NEW r \in Rooms, RegistryInv, incoming # <<>>, HandleVoiceJoin(c, r)
    PROVE RegistryInv'
<1> DEFINE peers == voiceRooms[r] \ {c}
           out == [p \in Clients |->
                     IF p = c THEN <<Event("voice_participants", r, {UserOf[q] : q \in peers})>>
                     ELSE IF p \in peers THEN <<Event("voice_joined", r, UserOf[c])>> ELSE <<>>]
<1> USE DEF HandleVoiceJoin
<1>1. CASE Panics(out)
    BY <1>1, PodDownInv
<1>2. CASE ~Panics(out)
    <2> USE <1>2 DEF RegistryInv, Popped
    <2>1. c \notin closed
        BY DEF Panics
    <2>2. /\ Tail(incoming) \in Seq(Envelope)
          /\ voiceRooms' = [voiceRooms EXCEPT ![r] = @ \cup {c}]
          /\ Popped
          /\ UNCHANGED <<conn, closed, clients, rooms, joined>>
        BY DEF LoopTypes
    <2> HIDE DEF HandleVoiceJoin
    <2>3. LoopTypes'
        BY <2>2 DEF LoopTypes, RegistryTypeOK
    <2>4. ClosedIsForgotten'
        BY <2>1, <2>2 DEF ClosedIsForgotten, LoopTypes, RegistryTypeOK
    <2> QED BY <2>2, <2>3, <2>4 DEF MembershipAgrees, ClosedIsGone, RegistersOnce, UnregistersGone
<1> QED BY <1>1, <1>2

\* Leaving a voice room (hub.go:275-289).
LEMMA VoiceLeaveInv ==
    ASSUME NEW c \in Clients, NEW r \in Rooms, RegistryInv, incoming # <<>>, HandleVoiceLeave(c, r)
    PROVE RegistryInv'
<1> DEFINE out == ToEach(voiceRooms[r] \ {c}, Event("voice_left", r, UserOf[c]))
<1> USE DEF HandleVoiceLeave
<1>1. CASE Panics(out)
    BY <1>1, PodDownInv
<1>2. CASE ~Panics(out)
    <2> USE <1>2 DEF RegistryInv, Popped
    <2>1. /\ Tail(incoming) \in Seq(Envelope)
          /\ voiceRooms' = [voiceRooms EXCEPT ![r] = @ \ {c}]
          /\ Popped
          /\ UNCHANGED <<conn, closed, clients, rooms, joined>>
        BY DEF LoopTypes
    <2> HIDE DEF HandleVoiceLeave
    <2>2. LoopTypes'
        BY <2>1 DEF LoopTypes, RegistryTypeOK
    <2>3. ClosedIsForgotten'
        BY <2>1 DEF ClosedIsForgotten, LoopTypes, RegistryTypeOK
    <2> QED BY <2>1, <2>2, <2>3 DEF MembershipAgrees, ClosedIsGone, RegistersOnce, UnregistersGone
<1> QED BY <1>1, <1>2

\* The call of a join succeeds, and the next one follows (hub.go:140-162).
Onward(c, r) ==
    /\ asking' \in {"membership", "entry"}
    /\ UNCHANGED <<status, conn, register, unregister, incoming, broadcast, registry, outbox,
                   pubsubVars>>
    /\ UNCHANGED <<presence, exists, messages, posted>>
    /\ members' = members \/ members' = [members EXCEPT ![r] = @ \cup {UserOf[c]}]

\* A step of a join answers, goes on or enters.
LEMMA JoinSteps ==
    ASSUME NEW c, NEW r, JoinRoom(c, r)
    PROVE \/ (Reply(ToEach({}, Error)) \/ Reply(ToEach({c}, Error))) /\ UNCHANGED durable
          \/ Onward(c, r)
          \/ asking = "entry" /\ Enter(c, r)
<1>1. CASE FindRoom(c, r)
    BY <1>1 DEF FindRoom, Refuse, GoOn, Onward, durable
<1>2. CASE AskMembership(c, r)
    BY <1>2 DEF AskMembership, AddMember, MayFail, Refuse, GoOn, Onward, durable
<1> QED BY <1>1, <1>2 DEF JoinRoom

\* Every message type (hub.go:114-134).
LEMMA IncomingInv == ASSUME RegistryInv, HandleIncoming PROVE RegistryInv'
<1> DEFINE c == Head(incoming).client
           r == Head(incoming).room
           t == Head(incoming).type
           target == Head(incoming).target
<1>1. incoming # <<>> /\ c \in Clients /\ r \in Rooms
    <2>1. incoming # <<>>
        BY DEF HandleIncoming
    <2>2. Head(incoming) \in Envelope
        BY <2>1 DEF RegistryInv, LoopTypes
    <2> QED BY <2>1, <2>2 DEF Envelope
<1>2. CASE JoinRoom(c, r)
    <2>1. CASE Onward(c, r)
        BY <2>1, StutterInv DEF Onward, regVars, outbox
    <2> QED BY <1>1, <1>2, <2>1, ReplyInv, EnterInv, JoinSteps
<1>3. CASE LeaveRoom(c, r)
    BY <1>1, <1>3, LeaveRoomInv
<1>4. CASE HandleChat(c, r)
    <2>1. CASE /\ Popped
               /\ UNCHANGED <<status, conn, registry, outbox, presence, exists, members, posted>>
        BY <1>1, <2>1, PopInv DEF outbox
    <2> QED BY <1>1, <1>4, <2>1, ReplyInv DEF HandleChat
<1>5. CASE HandleTyping(c, r)
    BY <1>1, <1>5, ReplyInv DEF HandleTyping
<1>6. CASE HandleVoiceJoin(c, r)
    BY <1>1, <1>6, VoiceJoinInv
<1>7. CASE HandleVoiceLeave(c, r)
    BY <1>1, <1>7, VoiceLeaveInv
<1>8. CASE RelayVoiceSignal(c, r, target)
    BY <1>1, <1>8, ReplyInv DEF RelayVoiceSignal
<1>9. CASE Reply(ToEach({}, Error))
    BY <1>1, <1>9, ReplyInv
<1> QED BY <1>2, <1>3, <1>4, <1>5, <1>6, <1>7, <1>8, <1>9 DEF HandleIncoming

\* Delivering a message changes no membership (hub.go:94-95, :239-246).
LEMMA BroadcastInv == ASSUME RegistryInv, HandleBroadcast PROVE RegistryInv'
<1> DEFINE bm == Head(broadcast)
           out == ToEach(rooms[bm.room], Event("chat_message", bm.room, bm.msg))
<1> USE DEF HandleBroadcast, AtSelect, SendOnly
<1>1. CASE Panics(out)
    BY <1>1, PodDownInv
<1>2. CASE ~Panics(out)
    BY <1>2, StutterInv DEF regVars
<1> QED BY <1>1, <1>2

\* The feeds only fill the broadcast channel (hub.go:168-170).
LEMMA FeedsInv == ASSUME NEW s \in Subs, RegistryInv, Feeds(s) PROVE RegistryInv'
<1>1. CASE UNCHANGED NotFeeds
    BY <1>1, StutterInv DEF NotFeeds, regVars, channels, outbox
<1>2. CASE ForwardToHub(s)
    BY <1>2, StutterInv DEF ForwardToHub, regVars, outbox
<1> QED BY <1>1, <1>2 DEF Feeds, FeedStarts, FeedRecords, FeedReturns, FeedAcked, FeedDrops

\* Requests of the HTTP handlers, Redis and restarts leave the loop alone.
LEMMA EnvironmentInv ==
    ASSUME RegistryInv,
           \/ \E r \in Rooms, m \in Messages : HttpStore(r, m)
           \/ \E p \in Post : HttpPublish(p)
           \/ \E r \in Rooms : RoomDeleted(r)
           \/ \E r \in Rooms, u \in Users : MembersChange(r, u)
           \/ \E u \in Users : PresenceExpires(u) \/ PresenceElsewhere(u)
           \/ \E c \in Clients : Write(c)
           \/ Restart
    PROVE RegistryInv'
<1> UNCHANGED regVars
    BY DEF HttpStore, HttpPublish, RoomDeleted, MembersChange, PresenceExpires, PresenceElsewhere, Write, Restart, regVars,
           channels, outbox
<1> QED BY StutterInv

\* The invariant is inductive.
LEMMA RegistryStep == RegistryInv /\ [Next]_vars => RegistryInv'
<1> SUFFICES ASSUME RegistryInv, [Next]_vars PROVE RegistryInv'
    OBVIOUS
<1>1. ASSUME NEW c \in Clients,
             \/ Connect(c) \/ ReadInvalid(c) \/ Disconnect(c) \/ WriterStops(c)
             \/ \E t \in MessageTypes, r \in Rooms, u \in Users \cup {NoUser} : ReadMessage(c, t, r, u)
      PROVE RegistryInv'
    BY <1>1, ConnectInv, ReaderInv, DisconnectInv, WriterStopsInv
<1>2. CASE HandleRegister
    BY <1>2, RegisterInv
<1>3. CASE HandleUnregister
    BY <1>3, UnregisterInv
<1>4. CASE HandleIncoming
    BY <1>4, IncomingInv
<1>5. CASE HandleBroadcast
    BY <1>5, BroadcastInv
<1>6. ASSUME NEW s \in Subs, Feeds(s) PROVE RegistryInv'
    BY <1>6, FeedsInv
<1>7. CASE PodKilled
    BY <1>7, PodDownInv DEF PodKilled
<1>8. CASE UNCHANGED vars
    BY <1>8, StutterInv DEF vars, regVars, channels, outbox
<1> QED BY <1>1, <1>2, <1>3, <1>4, <1>5, <1>6, <1>7, <1>8, EnvironmentInv DEF Next, OtherStep

\* A pod starts with nobody connected.
LEMMA RegistryInit == Init => RegistryInv
BY DEF Init, MemoryInit, RegistryInv, LoopTypes, RegistryTypeOK, MembershipAgrees,
       ClosedIsForgotten, ClosedIsGone, RegistersOnce, UnregistersGone

\* In every reachable state the registry is consistent, for every set of
\* connections, rooms and users and all channel capacities.
THEOREM RegistryConsistent == Spec => []RegistryInv
BY RegistryInit, RegistryStep, PTL DEF Spec

\* Hub.rooms and c.rooms agree after every iteration (hub.go:163, :175,
\* :191-193).
THEOREM MembershipAlwaysAgrees == Spec => []MembershipAgrees
<1>1. RegistryInv => MembershipAgrees
    BY DEF RegistryInv
<1> QED BY <1>1, RegistryConsistent, PTL

\* Nothing in the registry leads to a closed channel (hub.go:72-89).
THEOREM ClosedIsAlwaysForgotten == Spec => []ClosedIsForgotten
<1>1. RegistryInv => ClosedIsForgotten
    BY DEF RegistryInv
<1> QED BY <1>1, RegistryConsistent, PTL

\* Only the channel of a connection that is gone is closed (client.go:46-49).
THEOREM ClosedIsAlwaysGone == Spec => []ClosedIsGone
<1>1. RegistryInv => ClosedIsGone
    BY DEF RegistryInv
<1> QED BY <1>1, RegistryConsistent, PTL

-----------------------------------------------------------------------------
(* The feeds: the hub implements RoomFeed, and its feeds have RoomFeed's     *)
(* invariants.                                                               *)

wantedRooms == {r \in Rooms : rooms[r] # {}}

FP == INSTANCE RoomFeed_proofs WITH wanted <- wantedRooms

\* The end of the process ends every feed.
LEMMA DownResets == ASSUME NEW why, PodDown(why) PROVE [Feed!Next]_(Feed!vars)
<1>1. Feed!Reset
    BY DEF PodDown, Feed!Reset, PubSubReset, Feed!PubSubReset
<1> QED BY <1>1 DEF Feed!Next

\* Steps that touch neither the rooms nor the feeds.
LEMMA Stutters == ASSUME UNCHANGED <<rooms, pubsubVars>> PROVE [Feed!Next]_(Feed!vars)
BY DEF pubsubVars, Feed!vars

\* A handler that only replies (hub.go:114-134).
LEMMA ReplyMaps == ASSUME NEW out, Reply(out) PROVE [Feed!Next]_(Feed!vars)
BY DownResets, Stutters DEF Reply, SendOnly, registry

\* A message is published (hub.go:222, message_handler.go:110).
LEMMA PublishMaps ==
    ASSUME NEW r \in Rooms, NEW m \in Messages, Publish(r, m), UNCHANGED rooms
    PROVE [Feed!Next]_(Feed!vars)
<1>1. Feed!Publish(r, m) /\ UNCHANGED {q \in Rooms : rooms[q] # {}}
    BY DEF Publish, Feed!Publish
<1> QED BY <1>1 DEF Feed!Next

\* Leaving rooms closes the feeds of exactly those that get empty.
LEMMA LeaveCloses ==
    ASSUME NEW c \in Clients, NEW R \in SUBSET Rooms, PubSubTypeOK, LoopTypes, LeaveRooms(c, R)
    PROVE [Feed!Next]_(Feed!vars)
<1> USE DEF LeaveRooms
<1> DEFINE E == Emptied(c, R)
<1>1. E \subseteq {r \in Rooms : rooms[r] # {}}
    BY DEF Emptied
<1>2. {r \in Rooms : rooms'[r] # {}} = {r \in Rooms : rooms[r] # {}} \ E
    BY DEF Emptied, LoopTypes, RegistryTypeOK
<1>3. CASE E = {}
    BY <1>2, <1>3 DEF Unsubscribe, PubSubTypeOK, Feed!vars
<1>4. CASE E # {}
    <2>1. PICK S \in SUBSET Rooms : S = E
        BY <1>1
    <2>2. Feed!Close(S)
        BY <1>1, <1>2, <1>4, <2>1 DEF Feed!Close, Unsubscribe, Feed!Unsubscribe
    <2> QED BY <2>2 DEF Feed!Next
<1> QED BY <1>3, <1>4

\* The first client of a room opens its feed (hub.go:164-175).
LEMMA EnterOpens ==
    ASSUME NEW c \in Clients, NEW r \in Rooms, LoopTypes, Enter(c, r)
    PROVE [Feed!Next]_(Feed!vars)
<1> DEFINE out == ToEach({c}, Event("room_joined", r, NoUser))
<1>1. CASE PodDown("panicked")
    BY <1>1, DownResets
<1>2. CASE /\ rooms' = [rooms EXCEPT ![r] = @ \cup {c}]
           /\ IF rooms[r] = {} THEN \E s \in Subs : Spawn(s, r) ELSE UNCHANGED pubsubVars
    <2>1. {q \in Rooms : rooms'[q] # {}} = {q \in Rooms : rooms[q] # {}} \cup {r}
        BY <1>2 DEF LoopTypes, RegistryTypeOK
    <2>2. CASE rooms[r] = {}
        <3>1. Feed!Open(r)
            BY <1>2, <2>1, <2>2 DEF Feed!Open, Spawn, Feed!Spawn
        <3> QED BY <3>1 DEF Feed!Next
    <2>3. CASE rooms[r] # {}
        BY <1>2, <2>1, <2>3 DEF Feed!vars, pubsubVars
    <2> QED BY <2>2, <2>3
<1> QED BY <1>1, <1>2 DEF Enter

\* A connection is cleaned up (hub.go:72-89).
LEMMA UnregisterMaps ==
    ASSUME PubSubTypeOK, RegistryInv, HandleUnregister PROVE [Feed!Next]_(Feed!vars)
<1> DEFINE c == Head(unregister)
<1>1. c \in Clients /\ LoopTypes /\ joined[c] \in SUBSET Rooms
    BY DEF HandleUnregister, AtSelect, RegistryInv, LoopTypes, RegistryTypeOK
<1>2. CASE PodDown("panicked")
    BY <1>2, DownResets
<1>3. CASE LeaveRooms(c, joined[c])
    BY <1>1, <1>3, LeaveCloses
<1>4. CASE UNCHANGED <<rooms, pubsubVars>>
    BY <1>4, Stutters
<1> QED BY <1>2, <1>3, <1>4 DEF HandleUnregister, AtSelect, Cleanup, registry

\* Every message type (hub.go:114-134).
LEMMA IncomingMaps ==
    ASSUME PubSubTypeOK, RegistryInv, HandleIncoming PROVE [Feed!Next]_(Feed!vars)
<1> DEFINE c == Head(incoming).client
           r == Head(incoming).room
           target == Head(incoming).target
<1>1. c \in Clients /\ r \in Rooms /\ LoopTypes
    <2>1. incoming # <<>>
        BY DEF HandleIncoming
    <2>2. Head(incoming) \in Envelope
        BY <2>1 DEF RegistryInv, LoopTypes
    <2> QED BY <2>2 DEF Envelope, RegistryInv
<1>2. CASE JoinRoom(c, r)
    <2>1. CASE Onward(c, r)
        BY <2>1, Stutters DEF Onward, registry
    <2> QED BY <1>1, <1>2, <2>1, ReplyMaps, EnterOpens, JoinSteps
<1>3. CASE LeaveRoom(c, r)
    BY <1>1, <1>3, LeaveCloses DEF LeaveRoom
<1>4. CASE HandleChat(c, r)
    <2>1. ASSUME NEW m \in FreshMessages, MayFail(Publish(r, m), UNCHANGED pubsubVars),
                 UNCHANGED registry
          PROVE [Feed!Next]_(Feed!vars)
        BY <1>1, <2>1, PublishMaps, Stutters DEF MayFail, registry, FreshMessages
    <2> QED BY <1>4, <2>1, ReplyMaps DEF HandleChat
<1>5. CASE HandleTyping(c, r)
    BY <1>5, ReplyMaps DEF HandleTyping
<1>6. CASE HandleVoiceJoin(c, r)
    BY <1>6, DownResets, Stutters DEF HandleVoiceJoin
<1>7. CASE HandleVoiceLeave(c, r)
    BY <1>7, DownResets, Stutters DEF HandleVoiceLeave
<1>8. CASE RelayVoiceSignal(c, r, target)
    BY <1>8, ReplyMaps DEF RelayVoiceSignal
<1>9. CASE Reply(ToEach({}, Error))
    BY <1>9, ReplyMaps
<1> QED BY <1>2, <1>3, <1>4, <1>5, <1>6, <1>7, <1>8, <1>9 DEF HandleIncoming

\* The goroutines of the feeds and Redis (pubsub.go:26-65).
LEMMA FeedsMap == ASSUME NEW s \in Subs, Feeds(s) PROVE [Feed!Next]_(Feed!vars)
<1>1. \/ SubscribeSend(s) \/ Record(s) \/ SubscribeReturn(s) \/ Forward(s)
      \/ RedisAck(s) \/ RedisDrop(s)
    BY DEF Feeds, FeedStarts, FeedRecords, FeedReturns, FeedAcked, FeedDrops, ForwardToHub
<1>2. Feed!Goroutine(s) \/ Feed!RedisAck(s) \/ Feed!RedisDrop(s)
    BY <1>1 DEF Feed!Goroutine, SubscribeSend, Feed!SubscribeSend, Record, Feed!Record,
       SubscribeReturn, Feed!SubscribeReturn, Forward, Feed!Forward, RedisAck, Feed!RedisAck,
       RedisDrop, Feed!RedisDrop
<1>3. UNCHANGED rooms
    BY DEF Feeds, FeedStarts, FeedRecords, FeedReturns, FeedAcked, FeedDrops, ForwardToHub,
       NotFeeds, registry
<1>4. UNCHANGED {q \in Rooms : rooms[q] # {}}
    BY <1>3
<1> QED BY <1>2, <1>4 DEF Feed!Next

\* Every step of the hub is a step of RoomFeed or leaves it as it is.
LEMMA HubStepMaps ==
    ASSUME PubSubTypeOK, RegistryInv, [Next]_vars PROVE [Feed!Next]_(Feed!vars)
<1>1. ASSUME NEW c \in Clients,
             \/ Connect(c) \/ Disconnect(c) \/ WriterStops(c) \/ Write(c)
             \/ \E t \in MessageTypes, r \in Rooms, u \in Users \cup {NoUser} : ReadMessage(c, t, r, u)
      PROVE UNCHANGED <<rooms, pubsubVars>>
    BY <1>1 DEF Connect, Disconnect, WriterStops, Write, ReadMessage, registry
<1>2. ASSUME NEW c \in Clients, ReadInvalid(c) PROVE [Feed!Next]_(Feed!vars)
    BY <1>2, DownResets, Stutters DEF ReadInvalid, registry
<1>3. CASE HandleRegister
    BY <1>3, Stutters DEF HandleRegister
<1>4. CASE HandleBroadcast
    BY <1>4, DownResets, Stutters DEF HandleBroadcast, AtSelect, SendOnly, registry
<1>5. ASSUME NEW p \in Post, HttpPublish(p) PROVE [Feed!Next]_(Feed!vars)
    <2>1. p.room \in Rooms /\ p.msg \in Messages
        BY DEF Post
    <2> QED BY <1>5, <2>1, PublishMaps, Stutters DEF HttpPublish, MayFail, registry
<1>6. ASSUME \/ \E r \in Rooms, m \in Messages : HttpStore(r, m)
             \/ \E r \in Rooms : RoomDeleted(r)
             \/ \E r \in Rooms, u \in Users : MembersChange(r, u)
             \/ \E u \in Users : PresenceExpires(u) \/ PresenceElsewhere(u)
             \/ Restart
             \/ UNCHANGED vars
      PROVE UNCHANGED <<rooms, pubsubVars>>
    BY <1>6 DEF HttpStore, RoomDeleted, MembersChange, PresenceExpires, PresenceElsewhere, Restart, vars,
       registry
<1>7. CASE PodKilled
    BY <1>7, DownResets DEF PodKilled
<1> QED BY <1>1, <1>2, <1>3, <1>4, <1>5, <1>6, <1>7, Stutters, UnregisterMaps, IncomingMaps, FeedsMap
       DEF Next, OtherStep

\* The hub's invariant: the registry's, and that of the feeds.
HubInv == RegistryInv /\ FP!FeedInv

LEMMA HubTypes == HubInv => PubSubTypeOK
BY DEF HubInv, FP!FeedInv, FP!TypeOK, FP!PubSubTypeOK, FP!SubStates, PubSubTypeOK, SubStates

\* A step of the hub is one of the feeds.
LEMMA FeedsStep == ASSUME HubInv, [Next]_vars PROVE [FP!Next]_(FP!vars)
<1>1. [Feed!Next]_(Feed!vars)
    BY HubStepMaps, HubTypes DEF HubInv
<1> QED BY <1>1 DEF wantedRooms, Feed!Next, FP!Next, Feed!vars, FP!vars, Feed!Open, FP!Open, Feed!Close, FP!Close,
       Feed!Goroutine, FP!Goroutine, Feed!Reset, FP!Reset, Feed!Spawn, FP!Spawn,
       Feed!Unsubscribe, FP!Unsubscribe, Feed!SubscribeSend, FP!SubscribeSend, Feed!Record,
       FP!Record, Feed!Forward, FP!Forward, Feed!SubscribeReturn, FP!SubscribeReturn,
       Feed!RedisAck, FP!RedisAck, Feed!RedisDrop, FP!RedisDrop, Feed!Publish, FP!Publish,
       Feed!PubSubReset, FP!PubSubReset

\* The invariant is inductive: the feeds' part by the refinement.
LEMMA HubStep == HubInv /\ [Next]_vars => HubInv'
<1> SUFFICES ASSUME HubInv, [Next]_vars PROVE HubInv'
    OBVIOUS
<1>1. FP!FeedInv'
    BY FeedsStep, FP!FeedStep, PubSubAssumption DEF FP!PubSubAssumption, HubInv
<1> QED BY <1>1, RegistryStep DEF HubInv

\* The invariant holds in every reachable state.
THEOREM HubInvariant == Spec => []HubInv
<1>1. Init => FP!Init
    BY DEF Init, MemoryInit, PubSubInit, FP!Init, FP!PubSubInit, wantedRooms
<1>2. Init => HubInv
    BY <1>1, RegistryInit, FP!FeedInit, PubSubAssumption DEF FP!PubSubAssumption, HubInv
<1> QED BY <1>2, HubStep, PTL DEF Spec

\* The hub opens and closes feeds only as RoomFeed allows, whatever its
\* clients do, whichever calls fail and however often the pod ends
\* (hub.go:136-199).
THEOREM HubImplementsRoomFeed == Spec => ImplementsRoomFeed
<1>1. Init => Feed!Init
    BY DEF Init, MemoryInit, PubSubInit, Feed!Init, Feed!PubSubInit
<1>2. HubInv /\ [Next]_vars => [Feed!Next]_(Feed!vars)
    BY HubStepMaps, HubTypes DEF HubInv
<1> QED BY <1>1, <1>2, HubInvariant, PTL DEF Spec, ImplementsRoomFeed, Feed!Spec

\* What RoomFeed guarantees holds of the rooms of the hub: the subscription
\* table leads to live feeds only, and a room with local clients has a feed or
\* one under way (hub.go:164-174, pubsub.go:34-36).
THEOREM HubRoomsAreFed == Spec => [](Feed!TableLive /\ Feed!FeedOrPending)
<1>1. HubInv => Feed!TableLive /\ Feed!FeedOrPending
    BY DEF HubInv, FP!FeedInv, FP!TableLive, FP!FeedOrPending, FP!Pending, wantedRooms,
       Feed!TableLive, Feed!FeedOrPending, Feed!Pending
<1> QED BY <1>1, HubInvariant, PTL

\* A feed of the hub that no leave can close any more was overwritten in the table
\* by a later Subscribe of its room, and stays until the pod ends (hub.go:164-174,
\* pubsub.go:34-36).
THEOREM HubOrphansByOverwriting == Spec => FP!OrphansByOverwriting
<1>1. HubInv /\ [Next]_vars =>
          [\A s \in Subs :
              /\ ~FP!Orphan(s) /\ FP!Orphan(s)' =>
                    /\ subPc[s] = "listening"
                    /\ \E q \in Subs \ {s} : FP!Record(q) /\ feedRoom[q] = feedRoom[s]
              /\ FP!Orphan(s) => (FP!Orphan(s)' /\ feedRoom'[s] = feedRoom[s]) \/ FP!Reset]_(FP!vars)
    <2> SUFFICES ASSUME HubInv, [Next]_vars, NEW s \in Subs
                 PROVE /\ ~FP!Orphan(s) /\ FP!Orphan(s)' =>
                            /\ subPc[s] = "listening"
                            /\ \E q \in Subs \ {s} : FP!Record(q) /\ feedRoom[q] = feedRoom[s]
                       /\ FP!Orphan(s) =>
                            (FP!Orphan(s)' /\ feedRoom'[s] = feedRoom[s]) \/ FP!Reset
        OBVIOUS
    <2>1. [FP!Next]_(FP!vars)
        BY FeedsStep
    <2> QED BY <2>1, FP!OrphanStep, PubSubAssumption DEF FP!PubSubAssumption, HubInv
<1> QED BY <1>1, HubInvariant, PTL DEF Spec, FP!OrphansByOverwriting

-----------------------------------------------------------------------------
(* An announced disconnect is not lost. *)

Forgotten(c) == c \notin clients /\ joined[c] = {} /\ \A r \in Rooms : c \notin rooms[r] \cup voiceRooms[r]

\* A registered connection whose unregister waits stays registered and waiting
\* until one step forgets it completely, whatever the other three channels bring in
\* between; only the end of the pod excuses it (hub.go:72-89).
UnregisterIsKept ==
    [][\A c \in clients : Waits(c) =>
          (c \in clients /\ Waits(c))' \/ Forgotten(c)' \/ status' # "running"]_vars

Kept == clients \subseteq clients' /\ \E q \in Seq(Clients) : unregister' = unregister \o q

\* A step that registers, announces and forgets nobody.
Steady ==
    /\ UNCHANGED <<clients, unregister>>
    /\ \A c \in Clients : conn'[c] = "gone" <=> conn[c] = "gone"

\* The pod is down, with its registry.
Ended == status' # "running" /\ clients' = {}

\* Three steps are not steady: the reader's announcement and the two cases of
\* the loop for it and for the connection that comes.
LEMMA StepSteady ==
    ASSUME RegistryInv, [Next]_vars
    PROVE Steady \/ Ended \/ HandleRegister \/ HandleUnregister \/ \E d \in Clients : Disconnect(d)
<1> DEFINE Alike == UNCHANGED <<conn, clients, unregister>>
<1>1. Alike => Steady
    BY DEF Steady
<1>2. ASSUME PodDown("panicked") \/ PodDown("killed") PROVE Ended
    BY <1>2 DEF PodDown, Ended
<1>3. ASSUME NEW out, Reply(out) PROVE Alike \/ Ended
    BY <1>2, <1>3 DEF Reply, SendOnly, registry, Popped
<1>4. ASSUME NEW c \in Clients,
             \/ ReadInvalid(c) \/ Write(c)
             \/ \E t \in MessageTypes, r \in Rooms, u \in Users \cup {NoUser} : ReadMessage(c, t, r, u)
      PROVE Alike \/ Ended
    BY <1>2, <1>4 DEF ReadInvalid, Write, ReadMessage, registry, channels
<1>5. ASSUME NEW c \in Clients, Connect(c) \/ WriterStops(c) PROVE Steady
    BY <1>5 DEF Connect, WriterStops, Steady, registry, channels, RegistryInv, LoopTypes
<1>6. ASSUME HandleIncoming PROVE Alike \/ Ended
    <2> DEFINE Same == Alike \/ Ended
    <2>1. ASSUME NEW c, NEW r, JoinRoom(c, r) PROVE Same
        BY <1>2, <1>3, <2>1, JoinSteps DEF Onward, Enter, Popped, registry
    <2>2. ASSUME NEW c, NEW r, LeaveRoom(c, r) PROVE Same
        BY <2>2 DEF LeaveRoom, Popped
    <2>3. ASSUME NEW c, NEW r, HandleChat(c, r) PROVE Same
        BY <1>3, <2>3 DEF HandleChat, Popped, registry
    <2>4. ASSUME NEW c, NEW r, NEW u, HandleTyping(c, r) \/ RelayVoiceSignal(c, r, u) PROVE Same
        BY <1>3, <2>4 DEF HandleTyping, RelayVoiceSignal
    <2>5. ASSUME NEW c, NEW r, HandleVoiceJoin(c, r) \/ HandleVoiceLeave(c, r) PROVE Same
        BY <1>2, <2>5 DEF HandleVoiceJoin, HandleVoiceLeave, Popped
    <2> HIDE DEF Same
    <2>6. Same
        BY <1>3, <1>6, <2>1, <2>2, <2>3, <2>4, <2>5 DEF HandleIncoming, Same
    <2> QED BY <2>6 DEF Same
<1>7. ASSUME HandleBroadcast PROVE Alike \/ Ended
    BY <1>2, <1>7 DEF HandleBroadcast, AtSelect, SendOnly, registry
<1>8. ASSUME NEW s \in Subs, Feeds(s) PROVE Alike
    BY <1>8 DEF Feeds, FeedStarts, FeedRecords, FeedReturns, FeedAcked, FeedDrops, ForwardToHub,
       NotFeeds, registry, channels
<1>9. ASSUME \/ \E r \in Rooms, m \in Messages : HttpStore(r, m)
             \/ \E p \in Post : HttpPublish(p)
             \/ \E r \in Rooms : RoomDeleted(r)
             \/ \E r \in Rooms, u \in Users : MembersChange(r, u)
             \/ \E u \in Users : PresenceExpires(u) \/ PresenceElsewhere(u)
             \/ Restart
             \/ UNCHANGED vars
      PROVE Alike
    BY <1>9 DEF HttpStore, HttpPublish, RoomDeleted, MembersChange, PresenceExpires, PresenceElsewhere, Restart, vars, registry,
       channels
<1>10. CASE PodKilled
    BY <1>2, <1>10 DEF PodKilled
<1> HIDE DEF Alike
<1> QED BY <1>1, <1>4, <1>5, <1>6, <1>7, <1>8, <1>9, <1>10 DEF Next, OtherStep

\* Only the cleanup takes from the registry or from `unregister`.
LEMMA StepKeeps ==
    ASSUME RegistryInv, [Next]_vars PROVE Kept \/ status' # "running" \/ HandleUnregister
<1>1. unregister \in Seq(Clients)
    BY DEF RegistryInv, LoopTypes
<1>2. ASSUME Steady \/ HandleRegister PROVE Kept
    <2>1. unregister' = unregister \o <<>> /\ <<>> \in Seq(Clients)
        BY <1>1, <1>2 DEF Steady, HandleRegister
    <2> QED BY <1>2, <2>1 DEF Kept, Steady, HandleRegister
<1>3. ASSUME NEW d \in Clients, Disconnect(d) PROVE Kept
    <2>1. unregister' = unregister \o <<d>> /\ <<d>> \in Seq(Clients)
        BY <1>1, <1>3 DEF Disconnect
    <2> QED BY <1>3, <2>1 DEF Kept, Disconnect, registry
<1> QED BY <1>2, <1>3, StepSteady DEF Ended

\* The connection at the head is forgotten, the others go on waiting.
LEMMA StepForgets ==
    ASSUME RegistryInv, [Next]_vars, NEW c \in clients, Waits(c)
    PROVE (c \in clients /\ Waits(c))' \/ Forgotten(c)' \/ status' # "running"
<1>1. unregister \in Seq(Clients) /\ RegistryTypeOK /\ c \in Clients
    BY DEF RegistryInv, LoopTypes, RegistryTypeOK
<1>2. PICK i \in 1..Len(unregister) : unregister[i] = c
    BY <1>1 DEF Waits
<1>3. CASE Kept
    <2>1. PICK q \in Seq(Clients) : unregister' = unregister \o q
        BY <1>3 DEF Kept
    <2>2. i \in DOMAIN unregister' /\ unregister'[i] = c
        BY <1>1, <1>2, <2>1
    <2> QED BY <1>3, <2>2 DEF Kept, Waits
<1>4. CASE HandleUnregister /\ status' = "running"
    <2>1. CASE Head(unregister) = c
        <3>1. Cleanup(c)
            BY <1>4, <2>1 DEF HandleUnregister
        <3>2. clients' = clients \ {c} /\ LeaveRooms(c, joined[c]) /\ LeaveVoice(c)
            BY <1>4, <3>1 DEF Cleanup, PodDown
        <3>3. \A r \in Rooms : c \in rooms[r] => r \in joined[c]
            BY <1>1 DEF RegistryInv, MembershipAgrees
        <3> QED BY <1>1, <3>2, <3>3 DEF LeaveRooms, LeaveVoice, RegistryTypeOK, Forgotten
    <2>2. CASE Head(unregister) # c
        <3>1. clients \ {Head(unregister)} \subseteq clients' /\ unregister' = Tail(unregister)
            BY <1>4 DEF HandleUnregister, AtSelect, Cleanup, PodDown, registry
        <3>2. i # 1
            BY <1>1, <1>2, <2>2
        <3>3. i - 1 \in DOMAIN unregister' /\ unregister'[i - 1] = c
            BY <1>1, <1>2, <3>1, <3>2
        <3> QED BY <2>2, <3>1, <3>3 DEF Waits
    <2> QED BY <2>1, <2>2
<1> QED BY <1>3, <1>4, StepKeeps

\* A disconnect that was announced is cleaned up whole or goes on waiting
\* (hub.go:72-89).
THEOREM UnregisterAlwaysKept == Spec => UnregisterIsKept
<1>1. HubInv /\ [Next]_vars =>
          [\A c \in clients : Waits(c) =>
              (c \in clients /\ Waits(c))' \/ Forgotten(c)' \/ status' # "running"]_vars
    BY StepForgets DEF HubInv
<1> QED BY <1>1, HubInvariant, PTL DEF Spec, UnregisterIsKept

-----------------------------------------------------------------------------
(* What the registry keeps of a connection that is gone, and whose user is  *)
(* shown offline.                                                           *)

\* The cleanup takes the head of `unregister`, and nobody else.
LEMMA Unregisters ==
    ASSUME HandleUnregister
    PROVE \/ Ended
          \/ /\ clients' = clients \ {Head(unregister)}
             /\ unregister' = Tail(unregister)
             /\ UNCHANGED conn
BY DEF HandleUnregister, AtSelect, Cleanup, PodDown, Ended, registry

\* Who waits behind the head waits on, and nobody else.
LEMMA TailWaits ==
    ASSUME RegistryInv, unregister # <<>>, unregister' = Tail(unregister), NEW c \in Clients,
           c # Head(unregister)
    PROVE Waits(c)' <=> Waits(c)
<1>1. unregister \in Seq(Clients)
    BY DEF RegistryInv, LoopTypes
<1>2. ASSUME NEW i \in 1..Len(unregister), unregister[i] = c PROVE Waits(c)'
    <2>1. i # 1
        BY <1>1, <1>2
    <2>2. i - 1 \in DOMAIN unregister' /\ unregister'[i - 1] = c
        BY <1>1, <1>2, <2>1
    <2> QED BY <2>2 DEF Waits
<1>3. ASSUME NEW i \in 1..Len(Tail(unregister)), Tail(unregister)[i] = c PROVE Waits(c)
    <2>1. i + 1 \in DOMAIN unregister /\ unregister[i + 1] = c
        BY <1>1, <1>3
    <2> QED BY <2>1 DEF Waits
<1>4. Tail(unregister) \in Seq(Clients)
    BY <1>1
<1> QED BY <1>1, <1>2, <1>3, <1>4 DEF Waits

\* The announcement of one connection leaves the others as they are.
LEMMA AppendWaits ==
    ASSUME RegistryInv, NEW d \in Clients, unregister' = Append(unregister, d), NEW c \in Clients
    PROVE Waits(c)' <=> Waits(c) \/ c = d
<1>1. unregister \in Seq(Clients) /\ unregister' \in Seq(Clients)
    BY DEF RegistryInv, LoopTypes
<1>2. /\ Len(unregister') = Len(unregister) + 1 /\ Len(unregister) \in Nat
      /\ \A i \in 1..Len(unregister) : unregister'[i] = unregister[i]
      /\ unregister'[Len(unregister) + 1] = d
    BY <1>1
<1>3. \A i \in 1..Len(unregister') : i \in 1..Len(unregister) \/ i = Len(unregister) + 1
    BY <1>2
<1>4. \A i \in 1..Len(unregister) : i \in 1..Len(unregister')
    BY <1>2
<1>5. Len(unregister) + 1 \in 1..Len(unregister')
    BY <1>2
<1> QED BY <1>1, <1>2, <1>3, <1>4, <1>5 DEF Waits

\* A leak begins with a register that comes too late, and lasts.
LEMMA StepLeaks ==
    ASSUME RegistryInv, [Next]_vars, NEW c \in Clients
    PROVE /\ ~Leaked(c) /\ Leaked(c)' => HandleRegister /\ Head(register) = c /\ conn[c] = "gone"
          /\ Leaked(c) => Leaked(c)' \/ status' # "running"
<1>1. CASE Steady
    BY <1>1 DEF Steady, Leaked, Waits
<1>2. CASE Ended
    BY <1>2 DEF Ended, Leaked
<1>3. CASE HandleRegister
    BY <1>3 DEF HandleRegister, AtSelect, Leaked, Waits
<1>4. CASE HandleUnregister /\ ~Ended
    <2>1. /\ clients' = clients \ {Head(unregister)}
          /\ unregister # <<>> /\ unregister' = Tail(unregister)
          /\ UNCHANGED conn
        BY <1>4, Unregisters DEF HandleUnregister
    <2>2. CASE c # Head(unregister)
        BY <2>1, <2>2, TailWaits DEF Leaked
    <2>3. CASE c = Head(unregister)
        <3>1. unregister[1] = c /\ 1 \in DOMAIN unregister
            BY <2>1, <2>3 DEF RegistryInv, LoopTypes
        <3> QED BY <2>1, <2>3, <3>1 DEF Leaked, Waits
    <2> QED BY <2>2, <2>3
<1>5. ASSUME NEW d \in Clients, Disconnect(d)
      PROVE (~Leaked(c) => ~Leaked(c)') /\ (Leaked(c) => Leaked(c)')
    <2>1. /\ conn[d] # "gone" /\ conn' = [conn EXCEPT ![d] = "gone"]
          /\ unregister' = Append(unregister, d) /\ clients' = clients
        BY <1>5 DEF Disconnect, registry
    <2>2. Waits(c)' <=> Waits(c) \/ c = d
        BY <2>1, AppendWaits
    <2>3. c # d => conn'[c] = conn[c]
        BY <2>1 DEF RegistryInv, LoopTypes
    <2> QED BY <2>1, <2>2, <2>3 DEF Leaked
<1> QED BY <1>1, <1>2, <1>3, <1>4, <1>5, StepSteady

\* The only connections the hub keeps after their end are those whose unregister
\* it took before their register (hub.go:67 against :72).
THEOREM LeaksAlwaysByOvertaking == Spec => LeaksByOvertaking
<1>1. HubInv /\ [Next]_vars =>
          [\A c \in Clients :
              /\ ~Leaked(c) /\ Leaked(c)' => HandleRegister /\ Head(register) = c /\ conn[c] = "gone"
              /\ Leaked(c) => Leaked(c)' \/ status' # "running"]_vars
    BY StepLeaks DEF HubInv
<1> QED BY <1>1, HubInvariant, PTL DEF Spec, LeaksByOvertaking

\* The hub deletes a presence key in the cleanup only; otherwise Redis or another
\* pod does.
LEMMA StepPresence ==
    ASSUME [Next]_vars
    PROVE \/ presence \subseteq presence'
          \/ HandleUnregister
          \/ \E u \in Users : PresenceExpires(u) \/ PresenceElsewhere(u)
<1> DEFINE Untouched == presence' = presence
<1>1. ASSUME NEW c \in Clients,
             \/ Connect(c) \/ ReadInvalid(c) \/ Disconnect(c) \/ WriterStops(c) \/ Write(c)
             \/ \E t \in MessageTypes, r \in Rooms, u \in Users \cup {NoUser} : ReadMessage(c, t, r, u)
      PROVE Untouched
    BY <1>1 DEF Connect, ReadInvalid, Disconnect, WriterStops, Write, ReadMessage, durable
<1>2. CASE HandleRegister
    BY <1>2 DEF HandleRegister, AtSelect, MayFail
<1>3. ASSUME HandleIncoming PROVE Untouched
    <2>1. ASSUME NEW c, NEW r, JoinRoom(c, r) \/ LeaveRoom(c, r) PROVE Untouched
        BY <2>1, JoinSteps DEF Onward, Enter, LeaveRoom, durable
    <2>2. ASSUME NEW c, NEW r, HandleChat(c, r) \/ HandleTyping(c, r) PROVE Untouched
        BY <2>2 DEF HandleChat, HandleTyping, durable
    <2>3. ASSUME NEW c, NEW r, HandleVoiceJoin(c, r) \/ HandleVoiceLeave(c, r) PROVE Untouched
        BY <2>3 DEF HandleVoiceJoin, HandleVoiceLeave, durable
    <2>4. ASSUME NEW c, NEW r, NEW u, RelayVoiceSignal(c, r, u) PROVE Untouched
        BY <2>4 DEF RelayVoiceSignal, durable
    <2> HIDE DEF Untouched
    <2>5. Untouched
        BY <1>3, <2>1, <2>2, <2>3, <2>4 DEF HandleIncoming, durable, Untouched
    <2> QED BY <2>5
<1>4. ASSUME HandleBroadcast PROVE Untouched
    BY <1>4 DEF HandleBroadcast, AtSelect, durable
<1>5. ASSUME NEW s \in Subs, Feeds(s) PROVE Untouched
    BY <1>5 DEF Feeds, FeedStarts, FeedRecords, FeedReturns, FeedAcked, FeedDrops, ForwardToHub,
       NotFeeds, durable
<1>6. ASSUME \/ \E r \in Rooms, m \in Messages : HttpStore(r, m)
             \/ \E p \in Post : HttpPublish(p)
             \/ \E r \in Rooms : RoomDeleted(r)
             \/ \E r \in Rooms, u \in Users : MembersChange(r, u)
             \/ PodKilled
             \/ Restart
             \/ UNCHANGED vars
      PROVE Untouched
    BY <1>6 DEF HttpStore, HttpPublish, RoomDeleted, MembersChange, PodKilled, Restart, vars, durable
<1> QED BY <1>1, <1>2, <1>3, <1>4, <1>5, <1>6 DEF Next, OtherStep

\* Whoever goes offline while connected has lost another connection, or the key
\* was too old, or another pod deleted it.
LEMMA StepOffline ==
    ASSUME RegistryInv, [Next]_vars, NEW c \in clients', UserOf[c] \in presence \ presence'
    PROVE \/ PresenceExpires(UserOf[c])
          \/ PresenceElsewhere(UserOf[c])
          \/ \E d \in clients \ clients' : UserOf[d] = UserOf[c] /\ conn[d] = "gone"
<1>1. CASE HandleUnregister
    <2> DEFINE d == Head(unregister)
    <2>1. d \in clients /\ UserOf[d] = UserOf[c]
        BY <1>1 DEF HandleUnregister, AtSelect, MayFail, durable
    <2>2. d \notin clients'
        BY <1>1, Unregisters DEF Ended
    <2>3. conn[d] = "gone"
        BY <1>1 DEF HandleUnregister, AtSelect, RegistryInv, UnregistersGone, LoopTypes
    <2> QED BY <2>1, <2>2, <2>3
<1>2. ASSUME NEW u \in Users, PresenceExpires(u) \/ PresenceElsewhere(u)
      PROVE PresenceExpires(UserOf[c]) \/ PresenceElsewhere(UserOf[c])
    <2>1. u = UserOf[c]
        BY <1>2 DEF PresenceExpires, PresenceElsewhere
    <2> QED BY <1>2, <2>1
<1> QED BY <1>1, <1>2, StepPresence

\* In every behaviour this pod takes a user who has a connection offline only with
\* the end of another one; what expiry and the other pods do to the shared key is
\* theirs (hub.go:69, :87, presence.go:22).
THEOREM OfflineAlwaysByOtherTab == Spec => OfflineByOtherTab
<1>1. HubInv /\ [Next]_vars =>
          [\A c \in clients' : UserOf[c] \in presence \ presence' =>
              \/ PresenceExpires(UserOf[c])
              \/ PresenceElsewhere(UserOf[c])
              \/ \E d \in clients \ clients' : UserOf[d] = UserOf[c] /\ conn[d] = "gone"]_vars
    BY StepOffline DEF HubInv
<1> QED BY <1>1, HubInvariant, PTL DEF Spec, OfflineByOtherTab

=============================================================================

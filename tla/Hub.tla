-------------------------------- MODULE Hub ---------------------------------
(***************************************************************************)
(* The WebSocket hub of one pod: internal/adapter/inbound/ws/{hub,client}. *)
(*                                                                         *)
(* Every connection has a reader goroutine (readPump), a writer goroutine  *)
(* (writePump) and a buffered channel `send` between the hub and its       *)
(* writer.  Hub.Run is one goroutine that selects, in any order, from the  *)
(* four channels register, unregister, incoming and broadcast; it alone    *)
(* touches the registry (clients, rooms, voiceRooms and each c.rooms), and *)
(* it calls PostgreSQL and Redis synchronously.  One iteration of its loop *)
(* is one step here.  A send on a closed channel panics, and a panic of    *)
(* any goroutine ends the pod with every connection of it.                 *)
(*                                                                         *)
(* PostgreSQL, Redis and the HTTP handlers of any pod change the durable   *)
(* state (presence, exists, members, messages) at any time, also between   *)
(* the calls one handler makes.  A join is therefore a step per call; its  *)
(* envelope counts as in `incoming` until the last one.                    *)
(***************************************************************************)
EXTENDS PubSub, SequencesExt

CONSTANTS
    Clients,        \* connections; each is used once
    Users, NoUser,
    UserOf,         \* Clients -> Users: a user may have several connections
    RoomType,       \* Rooms -> {"public", "private", "dm", "voice"}
    OwnerOf,        \* Rooms -> Users: rooms.owner_id
    Kinds,          \* the message types clients send
    Env,            \* the environment events that happen
    RegisterCap, UnregisterCap, IncomingCap, BroadcastCap,  \* 64, 64, 256, 256
    SendCap         \* sendBufferSize

MessageTypes == {"join_room", "leave_room", "chat_message", "typing", "voice_join",
                 "voice_leave", "voice_signal", "unknown", "invalid"}
EnvEvents == {"fault", "kill", "http", "delete", "members", "expire", "pods", "drop",
              "deaf"}

ASSUME HubAssumption ==
    /\ IsFiniteSet(Rooms)
    /\ NoUser \notin Users
    /\ UserOf \in [Clients -> Users]
    /\ RoomType \in [Rooms -> {"public", "private", "dm", "voice"}]
    /\ OwnerOf \in [Rooms -> Users]
    /\ Kinds \subseteq MessageTypes
    /\ Env \subseteq EnvEvents
    /\ {RegisterCap, UnregisterCap, IncomingCap, BroadcastCap, SendCap} \subseteq Nat \ {0}

VARIABLES
    status,         \* the pod: "running", "panicked", "killed"
    conn,           \* "none", "open", "deaf" (its writer stopped), "gone"
    register, unregister, incoming, broadcast,      \* the four channels
    asking,         \* what the join at the head of `incoming` does next
    witness,        \* its user was a member since the room was found (a history variable)
    clients, rooms, voiceRooms,                     \* the hub's registry
    joined,         \* c.rooms
    send,           \* c.send: what the writer has not written yet
    closed,         \* clients whose c.send is closed
    lagged,         \* clients that an event was dropped for (a history variable)
    presence,       \* users with a presence key in Redis
    exists,         \* rows of rooms
    members,        \* rows of room_members
    messages,       \* rows of messages
    posted          \* what HTTP handlers of any pod have stored and not yet published

channels == <<register, unregister, incoming, broadcast, asking, witness>>
registry == <<clients, rooms, voiceRooms, joined>>
outbox   == <<send, closed, lagged>>
durable  == <<presence, exists, members, messages, posted>>
vars == <<status, conn, channels, registry, outbox, durable, pubsubVars>>

Event(t, r, a) == [type |-> t, room |-> r, arg |-> a]
Error == Event("error", NoRoom, NoUser)

EventTypes == {"error", "room_joined", "chat_message", "typing", "presence", "voice_participants",
               "voice_joined", "voice_left", "voice_signal"}
Events == [type : EventTypes, room : Rooms \cup {NoRoom},
           arg : Messages \cup Users \cup {NoUser} \cup SUBSET Users]

Envelope == [client : Clients, type : MessageTypes, room : Rooms, target : Users \cup {NoUser}]
Post == [room : Rooms, msg : Messages]

RegistryTypeOK ==
    /\ clients \subseteq Clients
    /\ rooms \in [Rooms -> SUBSET Clients]
    /\ voiceRooms \in [Rooms -> SUBSET Clients]
    /\ joined \in [Clients -> SUBSET Rooms]
    /\ closed \subseteq Clients

ChannelsTypeOK ==
    /\ register \in Seq(Clients)
    /\ unregister \in Seq(Clients)
    /\ incoming \in Seq(Envelope)
    /\ broadcast \in Seq(Post)
    /\ asking \in {"nothing", "membership", "entry"}
    /\ witness \in BOOLEAN

OutboxTypeOK ==
    /\ send \in [Clients -> Seq(Events)]
    /\ \A c \in Clients : Len(send[c]) <= SendCap
    /\ lagged \subseteq Clients

DurableTypeOK ==
    /\ presence \subseteq Users
    /\ exists \subseteq Rooms
    /\ members \in [Rooms -> SUBSET Users]
    /\ messages \subseteq Messages
    /\ posted \subseteq Post

TypeOK ==
    /\ status \in {"running", "panicked", "killed"}
    /\ conn \in [Clients -> {"none", "open", "deaf", "gone"}]
    /\ ChannelsTypeOK
    /\ RegistryTypeOK
    /\ OutboxTypeOK
    /\ DurableTypeOK
    /\ PubSubTypeOK

MemoryInit ==
    /\ register = <<>> /\ unregister = <<>> /\ incoming = <<>> /\ broadcast = <<>>
    /\ asking = "nothing" /\ witness = FALSE
    /\ clients = {}
    /\ rooms = [r \in Rooms |-> {}]
    /\ voiceRooms = [r \in Rooms |-> {}]
    /\ joined = [c \in Clients |-> {}]
    /\ send = [c \in Clients |-> <<>>]
    /\ closed = {} /\ lagged = {}

\* The owner of a room is a member of it from the start (RoomService.Create).
Init ==
    /\ status = "running"
    /\ conn = [c \in Clients |-> "none"]
    /\ MemoryInit
    /\ PubSubInit
    /\ presence = {}
    /\ exists = Rooms
    /\ members = [r \in Rooms |-> {OwnerOf[r]}]
    /\ messages = {}
    /\ posted = {}

-----------------------------------------------------------------------------
(* Sending to clients. *)

\* select { case c.send <- data: default: }, for all of out[c] in order.
\* Mutant: the buffer has no bound.
FitUnbounded(q) == q

Fit(q) == IF Len(q) <= SendCap THEN q ELSE SubSeq(q, 1, SendCap)

Offer(out) ==
    /\ send' = [c \in Clients |-> Fit(send[c] \o out[c])]
    /\ lagged' = lagged \cup {c \in Clients : Len(send[c] \o out[c]) > SendCap}

ToEach(S, e) == [c \in Clients |-> IF c \in S THEN <<e>> ELSE <<>>]

\* A send on a closed channel, full or not.
Panics(out) == \E c \in closed : out[c] # <<>>

\* The process ends: its memory and its connections are gone.
PodDown(why) ==
    /\ status' = why
    /\ conn' = [c \in Clients |-> IF conn[c] = "none" THEN "none" ELSE "gone"]
    /\ register' = <<>> /\ unregister' = <<>> /\ incoming' = <<>> /\ broadcast' = <<>>
    /\ asking' = "nothing" /\ witness' = FALSE
    /\ clients' = {}
    /\ rooms' = [r \in Rooms |-> {}]
    /\ voiceRooms' = [r \in Rooms |-> {}]
    /\ joined' = [c \in Clients |-> {}]
    /\ send' = [c \in Clients |-> <<>>]
    /\ closed' = {} /\ lagged' = {}
    /\ PubSubReset

\* A step of the hub that leaves the registry as it is and sends out.
SendOnly(out) ==
    IF Panics(out)
    THEN PodDown("panicked")
    ELSE Offer(out) /\ UNCHANGED <<status, conn, closed, registry, pubsubVars>>

-----------------------------------------------------------------------------
(* Connections: RegisterClient, readPump, writePump. *)

\* h.register <- c, then the pumps start.
Connect(c) ==
    /\ status = "running" /\ conn[c] = "none"
    /\ Len(register) < RegisterCap
    /\ conn' = [conn EXCEPT ![c] = "open"]
    /\ register' = Append(register, c)
    /\ UNCHANGED <<status, unregister, incoming, broadcast, asking, witness, registry, outbox,
                   durable, pubsubVars>>

PendingOf(t) == Cardinality({i \in DOMAIN incoming : incoming[i].type = t})
FreshMessages == Messages \ messages

\* A bound: a join may need a Subscribe slot and a chat message a fresh id.
WithinBounds(t) ==
    /\ t = "join_room" => PendingOf("join_room") < Cardinality(FreeSlots)
    /\ t = "chat_message" => PendingOf("chat_message") < Cardinality(FreshMessages)

\* readPump: c.hub.incoming <- &Envelope{client: c, msg: msg}
ReadMessage(c, t, r, target) ==
    /\ status = "running" /\ conn[c] \in {"open", "deaf"}
    /\ t \in Kinds \ {"invalid"} /\ WithinBounds(t)
    /\ t = "voice_signal" <=> target # NoUser
    /\ Len(incoming) < IncomingCap
    /\ incoming' = Append(incoming, [client |-> c, type |-> t, room |-> r, target |-> target])
    /\ UNCHANGED <<status, conn, register, unregister, broadcast, asking, witness, registry, outbox,
                   durable, pubsubVars>>

\* readPump: the data is no JSON; the reader itself replies.
ReadInvalid(c) ==
    /\ status = "running" /\ conn[c] \in {"open", "deaf"} /\ "invalid" \in Kinds
    /\ IF Panics(ToEach({c}, Error))
       THEN PodDown("panicked")
       ELSE Offer(ToEach({c}, Error))
            /\ UNCHANGED <<status, conn, closed, channels, registry, pubsubVars>>
    /\ UNCHANGED durable

\* Mutant: the reader ends without announcing it.
DisconnectSilent(c) ==
    /\ status = "running" /\ conn[c] \in {"open", "deaf"}
    /\ conn' = [conn EXCEPT ![c] = "gone"]
    /\ UNCHANGED <<status, channels, registry, outbox, durable, pubsubVars>>

\* readPump: Read fails; deferred c.hub.unregister <- c
Disconnect(c) ==
    /\ status = "running" /\ conn[c] \in {"open", "deaf"}
    /\ Len(unregister) < UnregisterCap
    /\ conn' = [conn EXCEPT ![c] = "gone"]
    /\ unregister' = Append(unregister, c)
    /\ UNCHANGED <<status, register, incoming, broadcast, asking, witness, registry, outbox,
                   durable, pubsubVars>>

\* writePump: the next event goes out.  (What is left for a connection that is
\* gone reaches nobody.)
Write(c) ==
    /\ status = "running" /\ conn[c] = "open" /\ send[c] # <<>>
    /\ send' = [send EXCEPT ![c] = Tail(@)]
    /\ UNCHANGED <<status, conn, channels, registry, closed, lagged, durable, pubsubVars>>

\* writePump returns after a failed write or ping, or waits for a pong that does
\* not come; the reader goes on.
WriterStops(c) ==
    /\ "deaf" \in Env
    /\ status = "running" /\ conn[c] = "open"
    /\ conn' = [conn EXCEPT ![c] = "deaf"]
    /\ UNCHANGED <<status, channels, registry, outbox, durable, pubsubVars>>

-----------------------------------------------------------------------------
(* Hub.Run, case register and case unregister. *)

\* The loop is at its select: no handler is under way.
AtSelect == status = "running" /\ asking = "nothing"

\* A call whose error is ignored: done, or not done when faults happen.
MayFail(done, notDone) == done \/ ("fault" \in Env /\ notDone)

HandleRegister ==
    /\ AtSelect /\ register # <<>>
    /\ register' = Tail(register)
    /\ clients' = clients \cup {Head(register)}
    /\ MayFail(presence' = presence \cup {UserOf[Head(register)]}, presence' = presence)
    /\ UNCHANGED <<status, conn, unregister, incoming, broadcast, asking, witness, rooms, voiceRooms,
                   joined, outbox, exists, members, messages, posted, pubsubVars>>

RoomPeers(c) == UNION {rooms[r] : r \in joined[c]} \ {c}

\* The rooms of R whose only local client is c: leaveRoom unsubscribes from them.
Emptied(c, R) == {r \in R : rooms[r] # {} /\ rooms[r] \subseteq {c}}

\* Mutant: forgets delete(c.rooms, roomID).
LeaveRoomsKeepsJoined(c, R) ==
    /\ joined' = joined
    /\ rooms' = [r \in Rooms |-> IF r \in R THEN rooms[r] \ {c} ELSE rooms[r]]
    /\ Unsubscribe(Emptied(c, R))

\* Mutant: the last client of a room is not taken out of it.
LeaveRoomsKeepsLast(c, R) ==
    /\ joined' = [joined EXCEPT ![c] = @ \ R]
    /\ rooms' = [r \in Rooms |-> IF r \in R /\ rooms[r] # {c} THEN rooms[r] \ {c} ELSE rooms[r]]
    /\ Unsubscribe(Emptied(c, R))

\* Mutant: the feed of an empty room is not closed.
LeaveRoomsKeepsFeed(c, R) ==
    /\ joined' = [joined EXCEPT ![c] = @ \ R]
    /\ rooms' = [r \in Rooms |-> IF r \in R THEN rooms[r] \ {c} ELSE rooms[r]]
    /\ UNCHANGED pubsubVars

\* leaveRoom, for each room of R.
LeaveRooms(c, R) ==
    /\ joined' = [joined EXCEPT ![c] = @ \ R]
    /\ rooms' = [r \in Rooms |-> IF r \in R THEN rooms[r] \ {c} ELSE rooms[r]]
    /\ Unsubscribe(Emptied(c, R))

\* Mutant: the voice rooms are not cleaned up.
LeaveVoiceForgotten(c) == voiceRooms' = voiceRooms

\* handleVoiceLeave, for each voice room of c.
LeaveVoice(c) == voiceRooms' = [r \in Rooms |-> voiceRooms[r] \ {c}]

\* Mutant: a disconnect is not announced to the voice rooms.
VoiceLeftsSilent(c, order) == <<>>

\* The voice_left events of the voice rooms in `order`.
VoiceLefts(c, order) == [i \in DOMAIN order |-> Event("voice_left", order[i], UserOf[c])]

SharedVoice(c, p) == {r \in Rooms : c \in voiceRooms[r] /\ p \in voiceRooms[r]}

\* What the cleanup of c sends to p: "offline" to the peers that were computed
\* first, after the voice_left of every voice room.
Farewell(c, p, order) ==
    IF p = c THEN <<>>
    ELSE VoiceLefts(c, order)
         \o (IF p \in RoomPeers(c) THEN <<Event("presence", NoRoom, UserOf[c])>> ELSE <<>>)

\* The connection is cleaned up: its channel is closed before it leaves its
\* rooms.  Go ranges over the voice rooms in an arbitrary order.
Cleanup(c) ==
    \E order \in [Clients -> SetToAllKPermutations({r \in Rooms : c \in voiceRooms[r]})] :
        /\ \A p \in Clients : order[p] \in SetToSeqs(SharedVoice(c, p))
        /\ LET out == [p \in Clients |-> Farewell(c, p, order[p])]
           IN  IF Panics(out)
               THEN PodDown("panicked")
               ELSE /\ clients' = clients \ {c}
                    /\ closed' = closed \cup {c}
                    /\ LeaveRooms(c, joined[c])
                    /\ LeaveVoice(c)
                    /\ Offer(out)
                    /\ unregister' = Tail(unregister)
                    /\ UNCHANGED <<status, conn, register, incoming, broadcast, asking, witness>>

\* Mutant: the key is deleted before the client is looked up.
HandleUnregisterOffline ==
    /\ AtSelect /\ unregister # <<>>
    /\ LET c == Head(unregister)
       IN  /\ IF c \in clients
              THEN Cleanup(c)
              ELSE /\ unregister' = Tail(unregister)
                   /\ UNCHANGED <<status, conn, register, incoming, broadcast, asking, witness,
                                  registry, outbox, pubsubVars>>
           /\ MayFail(presence' = presence \ {UserOf[c]}, presence' = presence)
           /\ UNCHANGED <<exists, members, messages, posted>>

HandleUnregister ==
    /\ AtSelect /\ unregister # <<>>
    /\ LET c == Head(unregister)
       IN  IF c \in clients
           THEN /\ Cleanup(c)
                /\ MayFail(presence' = presence \ {UserOf[c]}, presence' = presence)
                /\ UNCHANGED <<exists, members, messages, posted>>
           ELSE /\ unregister' = Tail(unregister)
                /\ UNCHANGED <<status, conn, register, incoming, broadcast, asking, witness,
                               registry, outbox, durable, pubsubVars>>

-----------------------------------------------------------------------------
(* Hub.Run, case incoming: handleMessage.  The channel itself is popped at   *)
(* the end of the handler unless that brings the pod down.                   *)

Popped ==
    /\ incoming' = Tail(incoming)
    /\ asking' = "nothing" /\ witness' = FALSE
    /\ UNCHANGED <<register, unregister, broadcast>>

\* A handler that only sends.
Reply(out) ==
    /\ SendOnly(out)
    /\ ~Panics(out) => Popped

\* The join goes on to its next call, or to the entry.
GoOn(next) ==
    /\ asking' = next
    /\ UNCHANGED <<status, conn, register, unregister, incoming, broadcast, registry, outbox,
                   pubsubVars>>

IsMember(c, r) == UserOf[c] \in members[r]
IsOwner(c, r) == OwnerOf[r] = UserOf[c]
Refuse(c) == Reply(ToEach({c}, Error)) /\ UNCHANGED durable

\* Mutant: a room that was not found is entered all the same.
FindRoomGoesOn(c, r) ==
    \/ r \in joined[c] /\ Reply(ToEach({}, Error)) /\ UNCHANGED durable
    \/ /\ r \notin joined[c] /\ (r \notin exists \/ "fault" \in Env)
       /\ joined' = [joined EXCEPT ![c] = @ \cup {r}]
       /\ rooms' = [rooms EXCEPT ![r] = @ \cup {c}]
       /\ Offer(ToEach({c}, Error))
       /\ Popped
       /\ UNCHANGED <<status, conn, closed, clients, voiceRooms, durable, pubsubVars>>
    \/ /\ r \notin joined[c] /\ r \in exists
       /\ GoOn(IF RoomType[r] = "private" /\ IsOwner(c, r) THEN "entry" ELSE "membership")
       /\ witness' = IsMember(c, r)
       /\ UNCHANGED durable

\* Joined already; GetRoom finds no row, or fails; or it finds one.  The owner
\* of a private room is not asked for a membership.
FindRoom(c, r) ==
    \/ r \in joined[c] /\ Reply(ToEach({}, Error)) /\ UNCHANGED durable
    \/ r \notin joined[c] /\ (r \notin exists \/ "fault" \in Env) /\ Refuse(c)
    \/ /\ r \notin joined[c] /\ r \in exists
       /\ GoOn(IF RoomType[r] = "private" /\ IsOwner(c, r) THEN "entry" ELSE "membership")
       /\ witness' = IsMember(c, r)
       /\ UNCHANGED durable

\* AddMember: an insert that needs the room; its error is ignored.
AddMember(c, r) ==
    /\ IF r \in exists
       THEN MayFail(members' = [members EXCEPT ![r] = @ \cup {UserOf[c]}], members' = members)
       ELSE members' = members
    /\ UNCHANGED <<presence, exists, messages, posted>>

\* Mutant: private rooms are open to everybody, like public ones.
AskMembershipPrivate(c, r) ==
    \/ /\ RoomType[r] # "dm"
       /\ AddMember(c, r)
       /\ GoOn("entry") /\ UNCHANGED witness
    \/ /\ RoomType[r] = "dm"
       /\ \/ IsMember(c, r) /\ GoOn("entry") /\ UNCHANGED <<witness, durable>>
          \/ (~IsMember(c, r) \/ "fault" \in Env) /\ Refuse(c)

\* The room may be gone by now, and its memberships other than they were.
AskMembership(c, r) ==
    \/ /\ RoomType[r] \in {"public", "voice"}
       /\ AddMember(c, r)
       /\ GoOn("entry") /\ UNCHANGED witness
    \/ /\ RoomType[r] \in {"dm", "private"}
       /\ \/ IsMember(c, r) /\ GoOn("entry") /\ UNCHANGED <<witness, durable>>
          \/ (~IsMember(c, r) \/ "fault" \in Env) /\ Refuse(c)

\* The first local client of a room starts its feed.
Enter(c, r) ==
    /\ UNCHANGED durable
    /\ LET out == ToEach({c}, Event("room_joined", r, NoUser))
       IN  IF Panics(out)
           THEN PodDown("panicked")
           ELSE /\ joined' = [joined EXCEPT ![c] = @ \cup {r}]
                /\ rooms' = [rooms EXCEPT ![r] = @ \cup {c}]
                /\ IF rooms[r] = {}
                   THEN \E s \in Subs : Spawn(s, r)
                   ELSE UNCHANGED pubsubVars
                /\ Offer(out)
                /\ Popped
                /\ UNCHANGED <<status, conn, closed, clients, voiceRooms>>

\* Three steps, and whatever the rest of the system does between them.
JoinRoom(c, r) ==
    \/ asking = "nothing" /\ FindRoom(c, r)
    \/ asking = "membership" /\ AskMembership(c, r)
    \/ asking = "entry" /\ Enter(c, r)

LeaveRoom(c, r) ==
    /\ LeaveRooms(c, {r})
    /\ Popped
    /\ UNCHANGED <<status, conn, clients, voiceRooms, outbox, durable>>

\* Mutant: publishes first; the save may still fail.
HandleChatPublishesFirst(c, r) ==
    /\ r \in exists
    /\ \E m \in FreshMessages :
          Publish(r, m) /\ (messages' = messages \cup {m} \/ messages' = messages)
    /\ Popped
    /\ UNCHANGED <<status, conn, registry, outbox, presence, exists, members, posted>>

\* SendMessage refuses (content, missing room, database) or saves a new
\* message, which the hub then publishes; Publish's error is ignored.  When the
\* database connection fails during the insert the row may be there all the same.
HandleChat(c, r) ==
    \/ Reply(ToEach({c}, Error)) /\ UNCHANGED durable
    \/ /\ "fault" \in Env /\ r \in exists
       /\ \E m \in FreshMessages : messages' = messages \cup {m}
       /\ Reply(ToEach({c}, Error))
       /\ UNCHANGED <<presence, exists, members, posted>>
    \/ /\ r \in exists
       /\ \E m \in FreshMessages :
             /\ messages' = messages \cup {m}
             /\ MayFail(Publish(r, m), UNCHANGED pubsubVars)
       /\ Popped
       /\ UNCHANGED <<status, conn, registry, outbox, presence, exists, members, posted>>

HandleTyping(c, r) ==
    Reply(ToEach(rooms[r], Event("typing", r, UserOf[c]))) /\ UNCHANGED durable

HandleVoiceJoin(c, r) ==
    LET peers == voiceRooms[r] \ {c}
        out == [p \in Clients |->
                  IF p = c THEN <<Event("voice_participants", r, {UserOf[q] : q \in peers})>>
                  ELSE IF p \in peers THEN <<Event("voice_joined", r, UserOf[c])>> ELSE <<>>]
    IN  /\ IF Panics(out)
           THEN PodDown("panicked")
           ELSE /\ voiceRooms' = [voiceRooms EXCEPT ![r] = @ \cup {c}]
                /\ Offer(out)
                /\ Popped
                /\ UNCHANGED <<status, conn, closed, clients, rooms, joined, pubsubVars>>
        /\ UNCHANGED durable

\* voice_left goes out whether or not c was in the voice room.
HandleVoiceLeave(c, r) ==
    LET out == ToEach(voiceRooms[r] \ {c}, Event("voice_left", r, UserOf[c]))
    IN  /\ IF Panics(out)
           THEN PodDown("panicked")
           ELSE /\ voiceRooms' = [voiceRooms EXCEPT ![r] = @ \ {c}]
                /\ Offer(out)
                /\ Popped
                /\ UNCHANGED <<status, conn, closed, clients, rooms, joined, pubsubVars>>
        /\ UNCHANGED durable

\* An offer, answer or candidate goes to one connection of the target user.
RelayVoiceSignal(c, r, target) ==
    LET peers == {p \in voiceRooms[r] : UserOf[p] = target}
    IN  /\ \/ peers = {} /\ Reply(ToEach({}, Error))
           \/ \E p \in peers : Reply(ToEach({p}, Event("voice_signal", r, UserOf[c])))
        /\ UNCHANGED durable

HandleIncoming ==
    /\ status = "running" /\ incoming # <<>>
    /\ LET c == Head(incoming).client
           r == Head(incoming).room
           t == Head(incoming).type
       IN  \/ t = "join_room" /\ JoinRoom(c, r)
           \/ t = "leave_room" /\ LeaveRoom(c, r)
           \/ t = "chat_message" /\ HandleChat(c, r)
           \/ t = "typing" /\ HandleTyping(c, r)
           \/ t = "voice_join" /\ HandleVoiceJoin(c, r)
           \/ t = "voice_leave" /\ HandleVoiceLeave(c, r)
           \/ t = "voice_signal" /\ RelayVoiceSignal(c, r, Head(incoming).target)
           \/ t = "unknown" /\ Reply(ToEach({}, Error)) /\ UNCHANGED durable

\* Mutant: skips the clients whose writer is behind.
HandleBroadcastSkipsSlow ==
    /\ AtSelect /\ broadcast # <<>>
    /\ LET bm == Head(broadcast)
           out == ToEach({c \in rooms[bm.room] : send[c] = <<>>},
                         Event("chat_message", bm.room, bm.msg))
       IN  /\ SendOnly(out)
           /\ ~Panics(out) => /\ broadcast' = Tail(broadcast)
                              /\ UNCHANGED <<register, unregister, incoming, asking, witness>>
    /\ UNCHANGED durable

\* Case broadcast: deliverLocal.
HandleBroadcast ==
    /\ AtSelect /\ broadcast # <<>>
    /\ LET bm == Head(broadcast)
           out == ToEach(rooms[bm.room], Event("chat_message", bm.room, bm.msg))
       IN  /\ SendOnly(out)
           /\ ~Panics(out) => /\ broadcast' = Tail(broadcast)
                              /\ UNCHANGED <<register, unregister, incoming, asking, witness>>
    /\ UNCHANGED durable

-----------------------------------------------------------------------------
(* The room feeds, and the rest of the system. *)

NotFeeds == <<status, conn, channels, registry, outbox, durable>>

\* The callback given to Subscribe: h.broadcast <- broadcastMsg{...}
ForwardToHub(s) ==
    /\ status = "running"
    /\ Len(broadcast) < BroadcastCap
    /\ Forward(s)
    /\ broadcast' = Append(broadcast, [room |-> feedRoom[s], msg |-> Head(msgCh[s])])
    /\ UNCHANGED <<status, conn, register, unregister, incoming, asking, witness, registry, outbox,
                   durable>>

FeedStarts(s)  == SubscribeSend(s) /\ UNCHANGED NotFeeds
FeedRecords(s) == Record(s) /\ UNCHANGED NotFeeds
FeedReturns(s) == SubscribeReturn(s) /\ UNCHANGED NotFeeds
FeedAcked(s)   == RedisAck(s) /\ UNCHANGED NotFeeds
FeedDrops(s)   == "drop" \in Env /\ RedisDrop(s) /\ UNCHANGED NotFeeds

\* An HTTP handler of some pod stores an edit, a deletion or a rename, or another
\* pod a chat message.
HttpStore(r, m) ==
    /\ "http" \in Env
    /\ m \in FreshMessages /\ r \in exists
    /\ PendingOf("chat_message") < Cardinality(FreshMessages)
    /\ messages' = messages \cup {m}
    /\ posted' = posted \cup {[room |-> r, msg |-> m]}
    /\ UNCHANGED <<status, conn, channels, registry, outbox, presence, exists, members, pubsubVars>>

\* And publishes it afterwards; the error is ignored, and the handler may be on a
\* pod that is gone by then.
HttpPublish(p) ==
    /\ p \in posted
    /\ posted' = posted \ {p}
    /\ MayFail(Publish(p.room, p.msg), UNCHANGED pubsubVars)
    /\ UNCHANGED <<status, conn, channels, registry, outbox, presence, exists, members, messages>>

\* DELETE /api/rooms/{id}: the rows go, the hub is not told.
RoomDeleted(r) ==
    /\ "delete" \in Env
    /\ r \in exists
    /\ exists' = exists \ {r}
    /\ members' = [members EXCEPT ![r] = {}]
    /\ UNCHANGED <<status, conn, channels, registry, outbox, presence, messages, posted, pubsubVars>>

\* The join under way is one of user u to room r.
JoinsNow(r, u) == asking # "nothing" /\ Head(incoming).room = r /\ UserOf[Head(incoming).client] = u

\* An accepted invite or a kick.
MembersChange(r, u) ==
    /\ "members" \in Env
    /\ r \in exists
    /\ members' = [members EXCEPT ![r] = IF u \in @ THEN @ \ {u} ELSE @ \cup {u}]
    /\ witness' = (witness \/ JoinsNow(r, u))
    /\ UNCHANGED <<status, conn, register, unregister, incoming, broadcast, asking, registry, outbox,
                   presence, exists, messages, posted, pubsubVars>>

\* presenceTTL runs out: nothing calls Heartbeat.
PresenceExpires(u) ==
    /\ "expire" \in Env
    /\ u \in presence
    /\ presence' = presence \ {u}
    /\ UNCHANGED <<status, conn, channels, registry, outbox, exists, members, messages, posted,
                   pubsubVars>>

\* Another pod registers a connection of u, or cleans one up: the key is one for
\* all pods.  Users who never come here are left out.
PresenceElsewhere(u) ==
    /\ "pods" \in Env
    /\ \E c \in Clients : UserOf[c] = u
    /\ presence' = IF u \in presence THEN presence \ {u} ELSE presence \cup {u}
    /\ UNCHANGED <<status, conn, channels, registry, outbox, exists, members, messages, posted,
                   pubsubVars>>

PodKilled ==
    /\ "kill" \in Env
    /\ status = "running"
    /\ PodDown("killed")
    /\ UNCHANGED durable

\* Kubernetes starts the pod again.
Restart ==
    /\ status # "running"
    /\ status' = "running"
    /\ UNCHANGED <<conn, channels, registry, outbox, durable, pubsubVars>>

-----------------------------------------------------------------------------

Feeds(s) ==
    FeedStarts(s) \/ FeedRecords(s) \/ FeedReturns(s) \/ FeedAcked(s) \/ FeedDrops(s)
    \/ ForwardToHub(s)

\* Every step but those of the writers.
OtherStep ==
    \/ \E c \in Clients : Connect(c) \/ ReadInvalid(c) \/ Disconnect(c) \/ WriterStops(c)
    \/ \E c \in Clients, t \in MessageTypes, r \in Rooms, u \in Users \cup {NoUser} :
          ReadMessage(c, t, r, u)
    \/ HandleRegister
    \/ HandleUnregister
    \/ HandleIncoming
    \/ HandleBroadcast
    \/ \E s \in Subs : Feeds(s)
    \/ \E r \in Rooms, m \in Messages : HttpStore(r, m)
    \/ \E p \in Post : HttpPublish(p)
    \/ \E r \in Rooms : RoomDeleted(r)
    \/ \E r \in Rooms, u \in Users : MembersChange(r, u)
    \/ \E u \in Users : PresenceExpires(u) \/ PresenceElsewhere(u)
    \/ PodKilled
    \/ Restart

Next == OtherStep \/ \E c \in Clients : Write(c)

Spec == Init /\ [][Next]_vars

=============================================================================

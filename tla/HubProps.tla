------------------------------ MODULE HubProps ------------------------------
(***************************************************************************)
(* What makes the hub correct: invariants, action properties, liveness,    *)
(* and that it implements RoomFeed.                                        *)
(***************************************************************************)
EXTENDS Hub

\* Hub.rooms and the c.rooms of the clients are two views of one relation
\* (hub.go:163, :175, :191-193): disconnects find every room to leave.
MembershipAgrees ==
    \A c \in Clients, r \in Rooms : c \in rooms[r] <=> r \in joined[c]

\* Once a client's channel is closed nothing in the registry leads to it any
\* more (hub.go:75-85): the fan-outs of deliverLocal, the voice handlers and
\* sendPresenceTo never meet a closed channel, and it is not closed twice.
ClosedIsForgotten ==
    \A c \in closed :
        /\ c \notin clients
        /\ \A r \in Rooms : c \notin rooms[r] /\ c \notin voiceRooms[r]

\* A connection is taken out only after its reader has announced it
\* (client.go:46-49), so the reader never sends on a closed channel itself.
ClosedIsGone == \A c \in closed : conn[c] = "gone"

\* The only way the pod panics: an envelope read from a connection is handled
\* after the unregister of that connection, and the handler replies to it
\* (hub.go:76 against :91).
OnlyStaleReplyPanics ==
    [][status = "running" /\ status' = "panicked" =>
          /\ incoming # <<>>
          /\ Head(incoming).client \in closed
          /\ Head(incoming).type \in {"join_room", "chat_message", "voice_join"}]_vars

\* The unregister of c is still to be handled.
Waits(c) == \E i \in DOMAIN unregister : unregister[i] = c

\* A connection that is gone, registered, and that nothing will take out.
Leaked(c) == c \in clients /\ conn[c] = "gone" /\ ~Waits(c)

\* The hub forgets every connection that ends, but for one race: the unregister
\* is taken before the register of the same connection (hub.go:67 against :72).
\* That connection then stays registered until the pod ends.
LeaksByOvertaking ==
    [][\A c \in Clients :
          /\ ~Leaked(c) /\ Leaked(c)' => HandleRegister /\ Head(register) = c /\ conn[c] = "gone"
          /\ Leaked(c) => Leaked(c)' \/ status' # "running"]_vars

\* This pod takes a user who has a registered connection offline only with the end
\* of another registered connection of the same user; otherwise the key expires or
\* another pod has changed it.  Redis keeps presence per user, every hub changes
\* it per connection, and nothing refreshes it (hub.go:69, :87, presence.go:22).
OfflineByOtherTab ==
    [][\A c \in clients' : UserOf[c] \in presence \ presence' =>
          \/ PresenceExpires(UserOf[c])
          \/ PresenceElsewhere(UserOf[c])
          \/ \E d \in clients \ clients' : UserOf[d] = UserOf[c] /\ conn[d] = "gone"]_vars

\* Whatever travels to clients has been stored before (hub.go:202 before :222;
\* message_handler.go:84 before :110): no client is shown a message that a
\* failed save has dropped.
PersistBeforePublish ==
    /\ \A s \in Subs : \A i \in DOMAIN msgCh[s] : msgCh[s][i] \in messages
    /\ \A i \in DOMAIN broadcast : broadcast[i].msg \in messages
    /\ \A c \in Clients : \A i \in DOMAIN send[c] :
          send[c][i].type = "chat_message" => send[c][i].arg \in messages

\* What a client is told is what happened (hub.go:136-188): it is told
\* room_joined exactly when it enters a room, unless its buffer is full, and an
\* error never comes with a change of the registry, whichever call failed.
AnswersMatchRegistry ==
    [][\A c \in Clients :
          LET told == Len(send'[c]) > Len(send[c])
              last == Last(send'[c])
          IN  /\ told /\ last.type = "room_joined" => c \in rooms'[last.room] \ rooms[last.room]
              /\ told /\ last.type = "error" => UNCHANGED registry
              /\ \A r \in Rooms : c \in rooms'[r] \ rooms[r] =>
                    c \in lagged' \/ (told /\ last = Event("room_joined", r, NoUser))]_vars

\* Whoever gets into a DM or a private room was a member of it at some moment
\* between the lookup of the room and the entry, or owns the private room: the
\* three calls of a join never combine answers about another room, another user or
\* an earlier join, while rows come and go between them (hub.go:140-163).
EntryIsAllowed ==
    [][\A c \in Clients, r \in Rooms :
          c \in rooms'[r] \ rooms[r] =>
              /\ RoomType[r] = "dm" => witness
              /\ RoomType[r] = "private" => witness \/ IsOwner(c, r)]_vars

\* Feeds live and die with the rooms of the hub as RoomFeed says.
Feed == INSTANCE RoomFeed WITH wanted <- {r \in Rooms : rooms[r] # {}}
ImplementsRoomFeed == Feed!Spec

-----------------------------------------------------------------------------
(* Statements of comments in the code that the code does not keep. *)

\* "It runs in a single goroutine to avoid races" (hub.go:27).
NoPanic == status # "panicked"

\* RegisterClient "registers a new client and ... blocks until the client
\* disconnects" (hub.go:100-102): once a connection is gone and its unregister
\* handled, it is not registered.
GoneNotRegistered ==
    \A c \in clients : conn[c] = "gone" => \E i \in DOMAIN unregister : unregister[i] = c

\* subs map: "channel -> subscription" (pubsub.go:16).
AtMostOneSubscription == Feed!AtMostOneSubscription

\* "publish to Redis so all pods receive it" (hub.go:221): a message a client
\* sends to a room it has joined comes back to this pod at least.
PublishReachesJoined ==
    [][\A m \in messages' \ messages :
          incoming' # incoming /\ Head(incoming).client \in rooms[Head(incoming).room] =>
              \E s \in Subs : \E i \in DOMAIN msgCh'[s] : msgCh'[s][i] = m]_vars

\* PresenceStore is "the port for tracking online presence" (ports.go:73).
ConnectedIsPresent == \A c \in clients : UserOf[c] \in presence

-----------------------------------------------------------------------------
(* Liveness.  Go picks at random among the ready cases of the select, so that *)
(* a case that is ready again and again is taken although other cases, and   *)
(* the handlers they start, keep the loop busy: strong fairness.  A handler  *)
(* ends when its calls return; the goroutines and Redis run.                 *)

Fairness ==
    /\ SF_vars(HandleRegister)
    /\ SF_vars(HandleUnregister)
    /\ SF_vars(HandleBroadcast)
    /\ WF_vars(HandleIncoming)
    /\ \A s \in Subs :
          /\ WF_vars(FeedStarts(s) \/ FeedRecords(s) \/ FeedReturns(s) \/ ForwardToHub(s))
          /\ WF_vars(FeedAcked(s))
    /\ \A c \in Clients : WF_vars(Write(c))

FairSpec == Spec /\ Fairness

Running == status = "running"

\* The announced end of a registered connection c is handled, and nothing of it is
\* left in the registry.
DisconnectEnds(c) ==
    (Running /\ c \in clients /\ Waits(c))
        ~> (~Running \/ (/\ c \notin clients /\ joined[c] = {}
                         /\ \A r \in Rooms : c \notin rooms[r] \cup voiceRooms[r]))

\* A room that keeps a local client gets a feed Redis has confirmed, even when
\* it was left and joined again while an older feed was starting.
JoinedIsFed ==
    \A r \in Rooms :
        (rooms[r] # {}) ~> (rooms[r] = {} \/ \E s \in acked : feedRoom[s] = r)

=============================================================================

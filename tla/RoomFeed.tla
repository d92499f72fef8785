------------------------------ MODULE RoomFeed ------------------------------
(***************************************************************************)
(* What the hub and redis.PubSub promise each other about room feeds.      *)
(*                                                                         *)
(* `wanted` is the domain of Hub.rooms: the rooms with at least one local  *)
(* client.  A feed is opened when a room enters it (joinRoom) and closed   *)
(* when the room leaves it (leaveRoom); everything else happens in the     *)
(* Subscribe goroutines and in Redis, in any order.  Module Hub is shown   *)
(* to implement this specification.                                        *)
(***************************************************************************)
EXTENDS PubSub

VARIABLE wanted

vars == <<subPc, feedRoom, acked, msgCh, subs, wanted>>

TypeOK == PubSubTypeOK /\ wanted \subseteq Rooms

Init == PubSubInit /\ wanted = {}

\* The first client joins r.
Open(r) ==
    /\ r \notin wanted
    /\ wanted' = wanted \cup {r}
    /\ \E s \in Subs : Spawn(s, r)

\* The last clients leave the rooms R; a closing connection may be the last
\* one in several rooms.
Close(R) ==
    /\ R # {}
    /\ R \subseteq wanted
    /\ wanted' = wanted \ R
    /\ Unsubscribe(R)

\* The pod ends.
Reset == PubSubReset /\ wanted' = {}

\* One step of the goroutine that serves slot s.
Goroutine(s) ==
    \/ SubscribeSend(s)
    \/ Record(s)
    \/ Forward(s)
    \/ SubscribeReturn(s)

Next ==
    \/ \E r \in Rooms : Open(r)
    \/ \E R \in SUBSET Rooms : Close(R)
    \/ \E s \in Subs : (Goroutine(s) \/ RedisAck(s) \/ RedisDrop(s)) /\ UNCHANGED wanted
    \/ \E r \in Rooms, m \in Messages : Publish(r, m) /\ UNCHANGED wanted
    \/ Reset

Spec == Init /\ [][Next]_vars

-----------------------------------------------------------------------------

Pending(s) == subPc[s] \in {"spawned", "sent"}

\* The table never points to a subscription that is closed, not yet recorded
\* or of another room, although goroutines write it in any order
\* (pubsub.go:34-36 against :54-59): Unsubscribe never closes a feed twice.
TableLive ==
    \A r \in Rooms : subs[r] # NoSub =>
        /\ subPc[subs[r]] = "listening"
        /\ feedRoom[subs[r]] = r

\* A room with local clients is in the table or a Subscribe goroutine that
\* will put it there is under way (hub.go:164-173): no order of leaves,
\* rejoins and late Subscribes leaves a joined room without a feed.
FeedOrPending ==
    \A r \in wanted :
        \/ subs[r] # NoSub
        \/ \E s \in Subs : Pending(s) /\ feedRoom[s] = r

\* The map PubSub.subs is documented as "channel -> subscription"
\* (pubsub.go:16): one live subscription per channel.
AtMostOneSubscription ==
    \A r \in Rooms : Cardinality({s \in acked : feedRoom[s] = r}) <= 1

\* Goroutines and Redis make progress.
Fairness ==
    /\ \A s \in Subs : WF_vars(Goroutine(s) /\ UNCHANGED wanted)
    /\ \A s \in Subs : WF_vars(RedisAck(s) /\ UNCHANGED wanted)

FairSpec == Spec /\ Fairness

\* A room whose clients stay gets a confirmed feed, whatever feeds of earlier
\* visits are still starting or closing (hub.go:164-173).
EventuallyFed ==
    \A r \in Rooms :
        (r \in wanted) ~> (r \notin wanted \/ \E s \in acked : feedRoom[s] = r)

\* Every closed feed hands on or loses what it holds and its goroutine ends
\* (pubsub.go:44-46): the feeds Unsubscribe closed are not the ones that leak.
ClosedFeedsEnd ==
    \A s \in Subs : (subPc[s] = "closed") ~> (subPc[s] = "free")

=============================================================================

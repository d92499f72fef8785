-------------------------- MODULE RoomFeed_proofs ---------------------------
(***************************************************************************)
(* The invariants of RoomFeed, for every set of rooms, goroutine slots and *)
(* messages.                                                               *)
(*                                                                         *)
(* TableLive is inductive together with the types: a subscription enters   *)
(* the table as it starts listening, and leaves it in the step that closes *)
(* it.  FeedOrPending then follows, because Unsubscribe closes only        *)
(* subscriptions that are in the table under a room it takes out of        *)
(* `wanted`: a pending goroutine of another visit is never hit by it.      *)
(*                                                                         *)
(* And the one way in which a feed comes to be read for ever.              *)
(***************************************************************************)
EXTENDS RoomFeed, TLAPS

\* A slot in use serves a room.
SlotsServe == \A s \in Subs : subPc[s] # "free" => feedRoom[s] \in Rooms

\* Redis forwards to subscriptions whose goroutine runs, and a goroutine that has
\* not subscribed yet, or has returned, holds no messages.
SlotsClean ==
    \A s \in Subs :
        /\ s \in acked => subPc[s] \in {"sent", "listening"}
        /\ subPc[s] \in {"free", "spawned"} => msgCh[s] = <<>>

\* The inductive invariant.
FeedInv == TypeOK /\ SlotsServe /\ SlotsClean /\ TableLive /\ FeedOrPending

\* Every feed starts and ends in well-typed states, whatever the goroutines
\* and Redis do (pubsub.go:26-65).
LEMMA TypeStep == TypeOK /\ [Next]_vars => TypeOK'
<1> SUFFICES ASSUME TypeOK, [Next]_vars PROVE TypeOK'
    OBVIOUS
<1> USE PubSubAssumption DEF TypeOK, PubSubTypeOK, SubStates
<1>1. ASSUME NEW r \in Rooms, Open(r) PROVE TypeOK'
    BY <1>1 DEF Open, Spawn
<1>2. ASSUME NEW R \in SUBSET Rooms, Close(R) PROVE TypeOK'
    BY <1>2 DEF Close, Unsubscribe
<1>3. ASSUME NEW s \in Subs, Goroutine(s), UNCHANGED wanted PROVE TypeOK'
    <2>1. CASE SubscribeSend(s)
        BY <1>3, <2>1 DEF SubscribeSend
    <2>2. CASE Record(s)
        BY <1>3, <2>2 DEF Record
    <2>3. CASE Forward(s)
        <3>1. Tail(msgCh[s]) \in Seq(Messages)
            BY <2>3 DEF Forward
        <3> QED BY <1>3, <2>3, <3>1 DEF Forward
    <2>4. CASE SubscribeReturn(s)
        BY <1>3, <2>4 DEF SubscribeReturn
    <2> QED BY <1>3, <2>1, <2>2, <2>3, <2>4 DEF Goroutine
<1>4. ASSUME NEW s \in Subs, RedisAck(s), UNCHANGED wanted PROVE TypeOK'
    BY <1>4 DEF RedisAck
<1>5. ASSUME NEW s \in Subs, RedisDrop(s), UNCHANGED wanted PROVE TypeOK'
    <2>1. PICK n \in 0..Len(msgCh[s]) : msgCh' = [msgCh EXCEPT ![s] = SubSeq(@, 1, n)]
        BY <1>5 DEF RedisDrop
    <2>2. SubSeq(msgCh[s], 1, n) \in Seq(Messages)
        BY <2>1
    <2> QED BY <1>5, <2>1, <2>2 DEF RedisDrop
<1>6. ASSUME NEW r \in Rooms, NEW m \in Messages, Publish(r, m), UNCHANGED wanted PROVE TypeOK'
    BY <1>6 DEF Publish
<1>7. ASSUME Reset PROVE TypeOK'
    BY <1>7 DEF Reset, PubSubReset
<1>8. CASE UNCHANGED vars
    BY <1>8 DEF vars
<1> QED BY <1>1, <1>2, <1>3, <1>4, <1>5, <1>6, <1>7, <1>8 DEF Next

\* No order of goroutine steps lets the table point to a feed that is closed,
\* unrecorded or of another room (pubsub.go:34-36, :54-59).
LEMMA TableStep == TypeOK /\ TableLive /\ [Next]_vars => TableLive'
<1> SUFFICES ASSUME TypeOK, TableLive, [Next]_vars PROVE TableLive'
    OBVIOUS
<1> USE PubSubAssumption DEF TypeOK, PubSubTypeOK, SubStates, TableLive
<1>1. ASSUME NEW r \in Rooms, Open(r) PROVE TableLive'
    BY <1>1 DEF Open, Spawn
<1>2. ASSUME NEW R \in SUBSET Rooms, Close(R) PROVE TableLive'
    BY <1>2 DEF Close, Unsubscribe
<1>3. ASSUME NEW s \in Subs, Goroutine(s) PROVE TableLive'
    <2>1. CASE SubscribeSend(s)
        BY <2>1 DEF SubscribeSend
    <2>2. CASE Record(s)
        BY <2>2 DEF Record
    <2>3. CASE Forward(s)
        BY <2>3 DEF Forward
    <2>4. CASE SubscribeReturn(s)
        BY <2>4 DEF SubscribeReturn
    <2> QED BY <1>3, <2>1, <2>2, <2>3, <2>4 DEF Goroutine
<1>4. ASSUME NEW s \in Subs, RedisAck(s) \/ RedisDrop(s) PROVE TableLive'
    BY <1>4 DEF RedisAck, RedisDrop
<1>5. ASSUME NEW r \in Rooms, NEW m \in Messages, Publish(r, m) PROVE TableLive'
    BY <1>5 DEF Publish
<1>6. ASSUME Reset PROVE TableLive'
    BY <1>6 DEF Reset, PubSubReset
<1>7. CASE UNCHANGED vars
    BY <1>7 DEF vars
<1> QED BY <1>1, <1>2, <1>3, <1>4, <1>5, <1>6, <1>7 DEF Next

\* No order of leaves, rejoins and late Subscribes leaves a joined room without
\* a feed or one under way (hub.go:164-174, :194-197).
LEMMA PendingStep == TypeOK /\ TableLive /\ FeedOrPending /\ [Next]_vars => FeedOrPending'
<1> SUFFICES ASSUME TypeOK, TableLive, FeedOrPending, [Next]_vars PROVE FeedOrPending'
    OBVIOUS
<1> USE PubSubAssumption DEF TypeOK, PubSubTypeOK, SubStates, FeedOrPending, Pending
<1>1. ASSUME NEW r \in Rooms, Open(r) PROVE FeedOrPending'
    <2>1. PICK s \in Subs : Spawn(s, r)
        BY <1>1 DEF Open
    <2>2. Pending(s)' /\ feedRoom'[s] = r
        BY <2>1 DEF Spawn
    <2>3. ASSUME NEW q \in wanted PROVE subs'[q] # NoSub \/ \E p \in Subs : Pending(p)' /\ feedRoom'[p] = q
        BY <2>1, <2>3 DEF Spawn
    <2> QED BY <1>1, <2>2, <2>3 DEF Open
<1>2. ASSUME NEW R \in SUBSET Rooms, Close(R) PROVE FeedOrPending'
    BY <1>2 DEF Close, Unsubscribe, TableLive
<1>3. ASSUME NEW s \in Subs, Goroutine(s), UNCHANGED wanted PROVE FeedOrPending'
    <2>1. CASE SubscribeSend(s)
        BY <1>3, <2>1 DEF SubscribeSend
    <2>2. CASE Record(s)
        BY <1>3, <2>2 DEF Record
    <2>3. CASE Forward(s)
        BY <1>3, <2>3 DEF Forward
    <2>4. CASE SubscribeReturn(s)
        BY <1>3, <2>4 DEF SubscribeReturn
    <2> QED BY <1>3, <2>1, <2>2, <2>3, <2>4 DEF Goroutine
<1>4. ASSUME NEW s \in Subs, RedisAck(s) \/ RedisDrop(s), UNCHANGED wanted PROVE FeedOrPending'
    BY <1>4 DEF RedisAck, RedisDrop
<1>5. ASSUME NEW r \in Rooms, NEW m \in Messages, Publish(r, m), UNCHANGED wanted
      PROVE FeedOrPending'
    BY <1>5 DEF Publish
<1>6. ASSUME Reset PROVE FeedOrPending'
    BY <1>6 DEF Reset, PubSubReset
<1>7. CASE UNCHANGED vars
    BY <1>7 DEF vars
<1> QED BY <1>1, <1>2, <1>3, <1>4, <1>5, <1>6, <1>7 DEF Next

\* A goroutine keeps the room it was started for (hub.go:167-168).
LEMMA SlotsStep == TypeOK /\ TableLive /\ SlotsServe /\ [Next]_vars => SlotsServe'
<1> SUFFICES ASSUME TypeOK, TableLive, SlotsServe, [Next]_vars PROVE SlotsServe'
    OBVIOUS
<1> USE DEF TypeOK, PubSubTypeOK, SlotsServe
<1>1. ASSUME NEW r \in Rooms, Open(r) PROVE SlotsServe'
    BY <1>1 DEF Open, Spawn
<1>2. ASSUME NEW R \in SUBSET Rooms, Close(R) PROVE SlotsServe'
    BY <1>2, PubSubAssumption DEF Close, Unsubscribe, TableLive
<1>3. ASSUME NEW s \in Subs, Goroutine(s) PROVE SlotsServe'
    BY <1>3 DEF Goroutine, SubscribeSend, Record, Forward, SubscribeReturn
<1>4. ASSUME NEW s \in Subs, RedisAck(s) \/ RedisDrop(s) PROVE SlotsServe'
    BY <1>4 DEF RedisAck, RedisDrop
<1>5. ASSUME NEW r \in Rooms, NEW m \in Messages, Publish(r, m) PROVE SlotsServe'
    BY <1>5 DEF Publish
<1>6. ASSUME Reset PROVE SlotsServe'
    BY <1>6 DEF Reset, PubSubReset
<1>7. CASE UNCHANGED vars
    BY <1>7 DEF vars
<1> QED BY <1>1, <1>2, <1>3, <1>4, <1>5, <1>6, <1>7 DEF Next

\* What Redis sends goes to goroutines that read it until they return
\* (pubsub.go:27-49, :51-60).
LEMMA CleanStep == TypeOK /\ SlotsClean /\ [Next]_vars => SlotsClean'
<1> SUFFICES ASSUME TypeOK, SlotsClean, [Next]_vars PROVE SlotsClean'
    OBVIOUS
<1> USE DEF TypeOK, PubSubTypeOK, SlotsClean
<1>1. ASSUME NEW r \in Rooms, Open(r) PROVE SlotsClean'
    BY <1>1 DEF Open, Spawn
<1>2. ASSUME NEW R \in SUBSET Rooms, Close(R) PROVE SlotsClean'
    BY <1>2 DEF Close, Unsubscribe
<1>3. ASSUME NEW s \in Subs, Goroutine(s) PROVE SlotsClean'
    BY <1>3 DEF Goroutine, SubscribeSend, Record, Forward, SubscribeReturn
<1>4. ASSUME NEW s \in Subs, RedisAck(s) PROVE SlotsClean'
    BY <1>4 DEF RedisAck
<1>5. ASSUME NEW s \in Subs, RedisDrop(s) PROVE SlotsClean'
    <2>1. PICK n \in 0..Len(msgCh[s]) : msgCh' = [msgCh EXCEPT ![s] = SubSeq(@, 1, n)]
        BY <1>5 DEF RedisDrop
    <2>2. msgCh[s] = <<>> => SubSeq(msgCh[s], 1, n) = <<>>
        BY <2>1
    <2> QED BY <1>5, <2>1, <2>2 DEF RedisDrop
<1>6. ASSUME NEW r \in Rooms, NEW m \in Messages, Publish(r, m) PROVE SlotsClean'
    BY <1>6 DEF Publish
<1>7. ASSUME Reset PROVE SlotsClean'
    BY <1>7 DEF Reset, PubSubReset
<1>8. CASE UNCHANGED vars
    BY <1>8 DEF vars
<1> QED BY <1>1, <1>2, <1>3, <1>4, <1>5, <1>6, <1>7, <1>8 DEF Next

\* A goroutine that goes on holding messages serves the room it served.
LEMMA RoomKept ==
    ASSUME TypeOK, SlotsClean, [Next]_vars, NEW s \in Subs, msgCh[s] # <<>>, msgCh'[s] # <<>>
    PROVE feedRoom'[s] = feedRoom[s]
<1> USE DEF TypeOK, PubSubTypeOK
<1>1. ASSUME NEW r \in Rooms, Open(r) PROVE feedRoom'[s] = feedRoom[s]
    BY <1>1 DEF Open, Spawn, SlotsClean
<1>2. ASSUME NEW R \in SUBSET Rooms, Close(R) PROVE feedRoom'[s] = feedRoom[s]
    BY <1>2 DEF Close, Unsubscribe
<1>3. ASSUME NEW q \in Subs, Goroutine(q) PROVE feedRoom'[s] = feedRoom[s]
    BY <1>3 DEF Goroutine, SubscribeSend, Record, Forward, SubscribeReturn
<1>4. ASSUME NEW q \in Subs, RedisAck(q) \/ RedisDrop(q) PROVE feedRoom'[s] = feedRoom[s]
    BY <1>4 DEF RedisAck, RedisDrop
<1>5. ASSUME NEW r \in Rooms, NEW m \in Messages, Publish(r, m) PROVE feedRoom'[s] = feedRoom[s]
    BY <1>5 DEF Publish
<1>6. ~Reset
    BY DEF Reset, PubSubReset
<1>7. CASE UNCHANGED vars
    BY <1>7 DEF vars
<1> QED BY <1>1, <1>2, <1>3, <1>4, <1>5, <1>6, <1>7 DEF Next

\* The invariant holds when nothing is subscribed.
LEMMA FeedInit == Init => FeedInv
BY PubSubAssumption DEF Init, PubSubInit, FeedInv, TypeOK, PubSubTypeOK, SubStates, SlotsServe,
   SlotsClean, TableLive, FeedOrPending

\* The invariant is inductive.
LEMMA FeedStep == FeedInv /\ [Next]_vars => FeedInv'
BY TypeStep, SlotsStep, CleanStep, TableStep, PendingStep DEF FeedInv

\* The inductive invariant holds in every reachable state.
THEOREM FeedInvariant == Spec => []FeedInv
BY FeedInit, FeedStep, PTL DEF Spec

\* Every variable keeps its type.
THEOREM FeedTypeCorrect == Spec => []TypeOK
<1>1. FeedInv => TypeOK
    BY DEF FeedInv
<1> QED BY <1>1, FeedInvariant, PTL

\* The table of pubsub.go:16 only ever points to live feeds of its rooms.
THEOREM TableIsLive == Spec => []TableLive
<1>1. FeedInv => TableLive
    BY DEF FeedInv
<1> QED BY <1>1, FeedInvariant, PTL

\* A room with local clients has a feed in the table or one under way
\* (hub.go:164-174).
THEOREM JoinedHasFeedOrPending == Spec => []FeedOrPending
<1>1. FeedInv => FeedOrPending
    BY DEF FeedInv
<1> QED BY <1>1, FeedInvariant, PTL

-----------------------------------------------------------------------------
(* Feeds that nobody can close. *)

\* A feed that is read, but that Unsubscribe does not find any more: its room is
\* delivered by it for as long as the pod runs, besides other feeds of the room.
Orphan(s) == subPc[s] = "listening" /\ subs[feedRoom[s]] # s

\* A feed is orphaned in one way, and for good: another Subscribe of the same room
\* overwrites its entry before the room was left (pubsub.go:34-36, "ps.subs[ch] =
\* sub"), and then only the end of the pod ends it.
OrphansByOverwriting ==
    [][\A s \in Subs :
          /\ ~Orphan(s) /\ Orphan(s)' =>
                /\ subPc[s] = "listening"
                /\ \E q \in Subs \ {s} : Record(q) /\ feedRoom[q] = feedRoom[s]
          /\ Orphan(s) => (Orphan(s)' /\ feedRoom'[s] = feedRoom[s]) \/ Reset]_vars

\* By the kinds of steps; the table tells that an entry is of its own room.
LEMMA OrphanStep ==
    ASSUME FeedInv, [Next]_vars, NEW s \in Subs
    PROVE /\ ~Orphan(s) /\ Orphan(s)' =>
                /\ subPc[s] = "listening"
                /\ \E q \in Subs \ {s} : Record(q) /\ feedRoom[q] = feedRoom[s]
          /\ Orphan(s) => (Orphan(s)' /\ feedRoom'[s] = feedRoom[s]) \/ Reset
<1> DEFINE Lasts == /\ ~Orphan(s) => ~Orphan(s)'
                    /\ Orphan(s) => Orphan(s)' /\ feedRoom'[s] = feedRoom[s]
<1> USE PubSubAssumption DEF FeedInv, TypeOK, PubSubTypeOK, SubStates, Orphan
<1>1. ASSUME NEW r \in Rooms, Open(r) PROVE Lasts
    BY <1>1 DEF Open, Spawn
<1>2. ASSUME NEW R \in SUBSET Rooms, Close(R) PROVE Lasts
    <2>1. subPc[s] = "listening" => feedRoom[s] \in Rooms
        BY DEF SlotsServe
    <2>2. \A r \in Rooms : subs[r] = s => r = feedRoom[s]
        BY DEF TableLive
    <2> QED BY <1>2, <2>1, <2>2 DEF Close, Unsubscribe
<1>3. ASSUME NEW q \in Subs, SubscribeSend(q) \/ Forward(q) \/ SubscribeReturn(q) PROVE Lasts
    BY <1>3 DEF SubscribeSend, Forward, SubscribeReturn
<1>4. ASSUME NEW q \in Subs, Record(q)
      PROVE /\ ~Orphan(s) /\ Orphan(s)' => subPc[s] = "listening" /\ q # s /\ feedRoom[q] = feedRoom[s]
            /\ Orphan(s) => Orphan(s)' /\ feedRoom'[s] = feedRoom[s]
    <2>1. feedRoom[q] \in Rooms /\ (subPc[s] = "listening" => feedRoom[s] \in Rooms)
        BY <1>4 DEF SlotsServe, Record
    <2>2. subs' = [subs EXCEPT ![feedRoom[q]] = q]
        BY <1>4 DEF Record
    <2>3. /\ subPc[q] = "sent" /\ subPc'[q] = "listening" /\ feedRoom' = feedRoom
          /\ q # s => subPc'[s] = subPc[s]
        BY <1>4 DEF Record
    <2> QED BY <2>1, <2>2, <2>3
<1>5. ASSUME NEW q \in Subs, RedisAck(q) \/ RedisDrop(q) PROVE Lasts
    BY <1>5 DEF RedisAck, RedisDrop
<1>6. ASSUME NEW r \in Rooms, NEW m \in Messages, Publish(r, m) PROVE Lasts
    BY <1>6 DEF Publish
<1>7. CASE Reset
    BY <1>7 DEF Reset, PubSubReset
<1>8. CASE UNCHANGED vars
    BY <1>8 DEF vars
<1> HIDE DEF FeedInv, TypeOK, PubSubTypeOK, SubStates, Orphan
<1> QED BY <1>1, <1>2, <1>3, <1>4, <1>5, <1>6, <1>7, <1>8 DEF Next, Goroutine

\* Feeds that leak do so by the overwriting of their entry, in every behaviour.
THEOREM OrphansAlwaysByOverwriting == Spec => OrphansByOverwriting
<1>1. FeedInv /\ [Next]_vars =>
          [\A s \in Subs :
              /\ ~Orphan(s) /\ Orphan(s)' =>
                    /\ subPc[s] = "listening"
                    /\ \E q \in Subs \ {s} : Record(q) /\ feedRoom[q] = feedRoom[s]
              /\ Orphan(s) => (Orphan(s)' /\ feedRoom'[s] = feedRoom[s]) \/ Reset]_vars
    BY OrphanStep
<1> QED BY <1>1, FeedInvariant, PTL DEF Spec, OrphansByOverwriting

=============================================================================

------------------------------- MODULE PubSub -------------------------------
(***************************************************************************)
(* The room feeds of one pod: internal/adapter/outbound/redis/pubsub.go.   *)
(*                                                                         *)
(* A call of PubSub.Subscribe runs in a goroutine of its own for as long   *)
(* as the feed lives.  The hub starts it for a room that gets its first    *)
(* local client, and calls Unsubscribe, synchronously, when the last one   *)
(* leaves; nothing orders the two.  A subscription therefore goes through  *)
(*                                                                         *)
(*   free      no goroutine uses this slot                                 *)
(*   spawned   `go func()` has started, Subscribe has not run yet          *)
(*   sent      the SUBSCRIBE command is written, the table not yet updated *)
(*   listening ps.subs[ch] = sub done: it reads sub.Channel()              *)
(*   closed    sub.Close() was called: it reads what is left, then returns *)
(*                                                                         *)
(* Redis confirms a subscription some time after the command was written;  *)
(* it forwards to it what is published from then on and nothing earlier.   *)
(*                                                                         *)
(* This module declares the state and one operator per step; RoomFeed and  *)
(* Hub build their next-state relations from them.                         *)
(***************************************************************************)
EXTENDS Naturals, FiniteSets, Sequences

CONSTANTS
    Rooms,      \* room ids
    Subs,       \* slots for Subscribe goroutines; bounds how many live at once
    Messages,   \* payloads
    NoSub,      \* no entry in the table
    NoRoom,     \* the room of a free slot
    FeedCap     \* bound on what Redis, the socket and sub.Channel() hold for one feed

ASSUME PubSubAssumption ==
    /\ NoSub \notin Subs
    /\ NoRoom \notin Rooms
    /\ FeedCap \in Nat \ {0}

VARIABLES
    subPc,      \* where each Subscribe goroutine is
    feedRoom,   \* the room each goroutine subscribes to
    acked,      \* subscriptions Redis forwards to
    msgCh,      \* what each subscription has been sent and not yet handed on
    subs        \* PubSub.subs: room -> subscription

pubsubVars == <<subPc, feedRoom, acked, msgCh, subs>>

SubStates == {"free", "spawned", "sent", "listening", "closed"}

PubSubTypeOK ==
    /\ subPc \in [Subs -> SubStates]
    /\ feedRoom \in [Subs -> Rooms \cup {NoRoom}]
    /\ acked \subseteq Subs
    /\ msgCh \in [Subs -> Seq(Messages)]
    /\ subs \in [Rooms -> Subs \cup {NoSub}]

PubSubInit ==
    /\ subPc = [s \in Subs |-> "free"]
    /\ feedRoom = [s \in Subs |-> NoRoom]
    /\ acked = {}
    /\ msgCh = [s \in Subs |-> <<>>]
    /\ subs = [r \in Rooms |-> NoSub]

\* The pod's memory is gone and its connections to Redis with it.
PubSubReset ==
    /\ subPc' = [s \in Subs |-> "free"]
    /\ feedRoom' = [s \in Subs |-> NoRoom]
    /\ acked' = {}
    /\ msgCh' = [s \in Subs |-> <<>>]
    /\ subs' = [r \in Rooms |-> NoSub]

FreeSlots == {s \in Subs : subPc[s] = "free"}

-----------------------------------------------------------------------------

\* joinRoom: go func() { h.broadcaster.Subscribe(...) }()
Spawn(s, r) ==
    /\ subPc[s] = "free"
    /\ subPc' = [subPc EXCEPT ![s] = "spawned"]
    /\ feedRoom' = [feedRoom EXCEPT ![s] = r]
    /\ UNCHANGED <<acked, msgCh, subs>>

\* Mutant: waits until no other goroutine serves the room.
SubscribeSendWaits(s) ==
    /\ subPc[s] = "spawned"
    /\ \A q \in Subs \ {s} : feedRoom[q] # feedRoom[s]
    /\ subPc' = [subPc EXCEPT ![s] = "sent"]
    /\ UNCHANGED <<feedRoom, acked, msgCh, subs>>

\* sub := ps.client.Subscribe(ctx, ch): writes SUBSCRIBE, does not wait for
\* the confirmation and has no error to return.
SubscribeSend(s) ==
    /\ subPc[s] = "spawned"
    /\ subPc' = [subPc EXCEPT ![s] = "sent"]
    /\ UNCHANGED <<feedRoom, acked, msgCh, subs>>

\* Redis processes the SUBSCRIBE.
RedisAck(s) ==
    /\ subPc[s] \in {"sent", "listening"}
    /\ s \notin acked
    /\ acked' = acked \cup {s}
    /\ UNCHANGED <<subPc, feedRoom, msgCh, subs>>

\* The connection breaks: what was not yet read from it is lost.  go-redis
\* reconnects and subscribes again by itself unless the feed was closed.
RedisDrop(s) ==
    /\ s \in acked \/ msgCh[s] # <<>>
    /\ acked' = acked \ {s}
    /\ \E n \in 0..Len(msgCh[s]) :
          msgCh' = [msgCh EXCEPT ![s] = SubSeq(@, 1, n)]
    /\ UNCHANGED <<subPc, feedRoom, subs>>

\* ps.subs[ch] = sub under ps.mu: an earlier entry is overwritten, its
\* subscription is not closed.
Record(s) ==
    /\ subPc[s] = "sent"
    /\ subPc' = [subPc EXCEPT ![s] = "listening"]
    /\ subs' = [subs EXCEPT ![feedRoom[s]] = s]
    /\ UNCHANGED <<feedRoom, acked, msgCh>>

\* Mutant: closes the subscription but forgets delete(ps.subs, ch).
UnsubscribeKeepsEntry(R) ==
    LET closing == {s \in Subs : \E r \in R : subs[r] = s}
    IN  /\ subPc' = [s \in Subs |-> IF s \in closing THEN "closed" ELSE subPc[s]]
        /\ acked' = acked \ closing
        /\ UNCHANGED <<feedRoom, msgCh, subs>>

\* Unsubscribe, for every room in R: takes the entry out of the table and
\* closes that subscription; without an entry it does nothing.
Unsubscribe(R) ==
    LET closing == {s \in Subs : \E r \in R : subs[r] = s}
    IN  /\ subs' = [r \in Rooms |-> IF r \in R THEN NoSub ELSE subs[r]]
        /\ subPc' = [s \in Subs |-> IF s \in closing THEN "closed" ELSE subPc[s]]
        /\ acked' = acked \ closing
        /\ UNCHANGED <<feedRoom, msgCh>>

\* PUBLISH room:<r>: Redis hands m to every subscription it has confirmed, and
\* never waits for one.  A feed that is not drained loses m: go-redis drops what
\* sub.Channel() has no room for.
Publish(r, m) ==
    LET taking == {s \in acked : feedRoom[s] = r /\ Len(msgCh[s]) < FeedCap}
    IN  /\ msgCh' = [s \in Subs |-> IF s \in taking THEN Append(msgCh[s], m) ELSE msgCh[s]]
        /\ UNCHANGED <<subPc, feedRoom, acked, subs>>

\* Mutant: a closed feed is not read any further.
ForwardUntilClosed(s) ==
    /\ subPc[s] = "listening"
    /\ msgCh[s] # <<>>
    /\ msgCh' = [msgCh EXCEPT ![s] = Tail(@)]
    /\ UNCHANGED <<subPc, feedRoom, acked, subs>>

\* case m, ok := <-msgCh: onMessage([]byte(m.Payload)).  A closed feed still
\* hands on what it holds.
Forward(s) ==
    /\ subPc[s] \in {"listening", "closed"}
    /\ msgCh[s] # <<>>
    /\ msgCh' = [msgCh EXCEPT ![s] = Tail(@)]
    /\ UNCHANGED <<subPc, feedRoom, acked, subs>>

\* Mutant: the goroutine deletes the table entry of its room when it returns.
SubscribeReturnDeletes(s) ==
    /\ subPc[s] = "closed"
    /\ msgCh[s] = <<>>
    /\ subPc' = [subPc EXCEPT ![s] = "free"]
    /\ feedRoom' = [feedRoom EXCEPT ![s] = NoRoom]
    /\ subs' = [subs EXCEPT ![feedRoom[s]] = NoSub]
    /\ UNCHANGED <<acked, msgCh>>

\* if !ok { return nil }
SubscribeReturn(s) ==
    /\ subPc[s] = "closed"
    /\ msgCh[s] = <<>>
    /\ subPc' = [subPc EXCEPT ![s] = "free"]
    /\ feedRoom' = [feedRoom EXCEPT ![s] = NoRoom]
    /\ UNCHANGED <<acked, msgCh, subs>>

=============================================================================

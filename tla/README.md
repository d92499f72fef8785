# chat-back in TLA+

Specifications of the chat backend in `src/` (Go; one process per pod, PostgreSQL and Redis shared
by the pods), model-checked with TLC and, for the safety properties that matter most, proved with
TLAPS. The repository has no design documents: everything is translated from the code; what the
comments of the code claim is quoted where a run contradicts it.

- [The system](#the-system)
- [Modules and how they correspond to the code](#modules-and-how-they-correspond-to-the-code)
- [What is abstracted](#what-is-abstracted)
- [Runs: what each checks and shows](#runs-what-each-checks-and-shows)
- [Disagreements with the code's comments](#disagreements-with-the-codes-comments)
- [Fairness](#fairness)
- [What is proved](#what-is-proved)
- [Only model-checked](#only-model-checked)
- [Not modelled](#not-modelled)
- [Plan](#plan)

## The system

A browser talks to a pod over HTTP (`adapter/inbound/http`) and over one WebSocket per tab
(`adapter/inbound/ws`). Handlers call services (`internal/app`), which call repositories
(`adapter/outbound/postgres`) and Redis (`adapter/outbound/redis`). Services keep no state and open
no transactions across statements; all shared state is in the hub of a pod, in PostgreSQL and in
Redis.

| Component | State | Operations | What is hard |
|---|---|---|---|
| Room feeds (`redis/pubsub.go`) | `subs`: channel → subscription, under a mutex; one `Subscribe` goroutine per feed; what Redis has confirmed and sent | `Subscribe`, `Unsubscribe`, `Publish` | `Subscribe` runs in a goroutine, `Unsubscribe` in the hub: nothing orders them; Redis confirms late and forgets on a broken connection |
| Hub (`ws/hub.go`) | `clients`, `rooms`, `voiceRooms`, `c.rooms`; four channels | the `Run` loop: register, unregister, incoming, broadcast; `handleMessage` | the loop picks among its channels in any order; the registry is kept in two places; a closed channel must be unreachable |
| Client pumps (`ws/client.go`, `http/ws_handler.go`) | `c.send`, bounded | `readPump`, `writePump`, `sendMsg` | full buffers drop events; reader and writer end separately |
| Voice signalling (`ws/hub.go:248-315`) | `voiceRooms` | voice join, leave, relay | snapshot and increments must add up in the browser |
| Presence (`redis/presence.go`) | one key per user with a TTL | `SetOnline`, `SetOffline`, `Heartbeat`, `IsOnline` | kept per user, changed per connection and by every pod; the TTL |
| Rooms, members, roles, invites (`app/room_service.go`, `postgres/{room,invite}_repo.go`) | rows of `rooms`, `room_members`, `room_invites` | create, rename, delete, invite, accept, decline, set role, kick, join | every operation is several transactions; any two requests interleave |
| Messages (`app/{chat,message}_service.go`, `message_repo.go`, `message_handler.go`) | rows of `messages`, `room_reads` | send, history, edit, delete, mark read, count unread | write order against publish order; paging by random ids; two clocks in one comparison |
| Friends and DMs (`app/friend_service.go`, `friend_repo.go`) | rows of `friendships`, DM rooms | request, accept, remove, `GetOrCreateDM` | look-up-then-insert; requests that cross or are repeated |
| Authentication (`auth_handler.go`, `middleware/jwt.go`) | `users`; tokens outside the server | register, login, refresh, demo, validate | claims outlive the rows they were copied from |
| Site administration (`admin_handler.go`) | all rows | delete users and rooms, rename rooms, toggle admins | guarded by a claim that may be out of date; a deletion cascades through the tables of every other component |
| Rate limiter (`middleware/ratelimit.go`) | token buckets per address, cleanup goroutine | `allow` | rounding, cleanup of live buckets |
| Start, seeding, shutdown (`cmd/server/main.go`) | demo rows | seed, serve, shut down | two pods seed at once, crash in between; hijacked connections are not waited for |
| Profiles and avatars, routing, configuration | rows / none | single statements | nothing interacts |

How they meet. `joinRoom` starts a `Subscribe` goroutine for the first local client of a room and
`leaveRoom` calls `Unsubscribe` when the last one leaves. A chat message is read by a `readPump`,
handled by the hub (save, then `PUBLISH`), comes back through the feed's callback into
`h.broadcast`, and is fanned out by the hub into each client's `send`, which its `writePump`
empties. HTTP handlers publish their own events after their own writes. A disconnect travels from
the `readPump` through `h.unregister` to the cleanup in `Run`. PostgreSQL rows change under all of
this: the hub reads them at a join and at a chat message, never again.

What makes the parts correct, in one line each: the table leads to live feeds only and a joined room has
one; the two halves of the registry agree and never lead to a closed channel; a client is told what
happened; what clients see was saved first; a participant list converges; a disconnect is processed;
membership of a private room comes from an accepted invite, decisions on invites are final and so are
kicks, but for the deletion of an inviter, and ownership is not given away; an announced text was
written, and clients agree with rows that are not being changed; a listing brings every message that
stays once; friends are made by consent; a room of two gets no third; what a token says is out of date
for a bounded time; no window of the limiter lets too much through. The hazards behind these are listed
with their lines in `PROJECT.json`.

## Modules and how they correspond to the code

```
PubSub  <- RoomFeed <- RoomFeed_proofs
   ^          ^ (refinement: wanted = rooms with local clients)
   |          |
  Hub  <- HubProps <- Hub_proofs <- HubEvents_proofs <- VoiceView_proofs
   ^          ^                                                |
   |          |                                                |
VoiceView    MCHub <- MCHubFeeds         VoiceView  <----------+
             MCVoiceView

Rooms              <- Rooms_proofs, MCRooms
Messages, History  <- Messages_proofs, MCMessages
Friends, Seeding   <- Friends_proofs, MCFriends
Accounts, RateLimit <- Auth_proofs, MCAuth
```

**PubSub** – state and steps of the feeds of one pod, without a next-state relation. `subPc[s]` is the
program counter of one `Subscribe` goroutine: `spawned` (after `go func()`), `sent` (after
`client.Subscribe`, which writes SUBSCRIBE and does not wait), `listening` (after the table was
written), `closed` (after `sub.Close()`). `subs` is `ps.subs`. `RedisAck` and `RedisDrop` are Redis and
go-redis (external): confirmation some time after the command, loss of what was in flight when the
connection breaks, resubscription by go-redis. `msgCh[s]` is everything between Redis and the callback:
at most `FeedCap` messages, and `Publish` hands nothing to a feed that is full, since `PUBLISH` waits
for nobody and go-redis drops what its channel has no room for. `Unsubscribe(R)` takes a set because one
disconnect may empty several rooms.

**RoomFeed** – the abstract specification of the feeds: a room becomes wanted and a goroutine is
started, rooms stop being wanted and are unsubscribed, the rest runs by itself, and the process may
end. It is checked on its own and is what the hub implements.

**Hub** – one pod: a connection is `none`, `open`, `deaf` (its writer returned, its reader did not) or
`gone`. One iteration of `Run` is one step (`HandleRegister`, `HandleUnregister`, `HandleIncoming`,
`HandleBroadcast`), with everything the iteration does: database calls, Redis calls, registry changes,
and all sends in order. A join is three steps of `HandleIncoming`, because what it decides rests on rows
that change meanwhile: `FindRoom` (`GetRoom`), `AskMembership` (`AddMember` or `IsMember`) and `Enter`;
`asking` says which comes next, the envelope stays at the head of `incoming` until the last, and the
other cases of the `select` wait (`AtSelect`). `witness` is a history variable: the user of the join
under way has been a member since the room was looked up. `posted` is what HTTP handlers have written
and not yet published. `Offer` is the sequence of `select { case c.send <- data: default: }` a step
makes; `Panics` says that one of them is a send on a closed channel, which panics although the `select`
has a default; a panic of any goroutine is `PodDown`. `Cleanup` closes the channel and leaves rooms and
voice rooms as `hub.go:72-89` does, for every order in which Go may range over the voice rooms. The
environment (`Env` selects what happens): failing calls, other pods and HTTP handlers that store and
then publish, rows that change, presence keys that expire or are set and deleted by other pods, a writer
that stops, a pod that is killed; a pod that is down starts again with empty memory.

**HubProps** – the properties of `Hub`, the liveness assumptions, and the refinement
`Feed == INSTANCE RoomFeed WITH wanted <- {r \in Rooms : rooms[r] # {}}`.

**VoiceView** – `Hub` and, per client, the participant list a browser derives from
`voice_participants`, `voice_joined` and `voice_left` in the order they are written. The browser is
external; `Apply` is what the three events say.

**Rooms** – `room_service.go` over the statements of the repositories. Each statement is an action;
a request (`req[q]`) carries its arguments, its next statement and the requester's role it has read
(`seen`). The guards are the `WHERE` clauses, unique and foreign keys, and the checks between
statements; `Refused` is every early return, `Aborted` a statement that fails, a cancelled request
context or a pod that stops. An invite is kept by room, invitee and inviter, and `DeleteUser` does what
the foreign keys make of `DELETE FROM users`: owned rooms, memberships, and the invites to and from the
user go. `kicked`, `cut` and `freed` (those whose accepted invite went with its inviter) are history
variables used by the properties only.

**Messages** – the rows of one room's messages and its name, what clients show of them, and requests
that send, edit, delete and rename: `read`, for some `role`, `write`, `publish`, each a step of its
own (`message_service.go`, `message_handler.go:69-161`, `room_service.go` `Rename`,
`room_handler.go`). A row is `None`, a text, or `Gone`. `view` is the text every client that stays
connected shows; `Published` says what an event does to it. `unsettled` collects the rows whose
changes overlapped, or were announced to nobody: a failed or cancelled publication (`Aborted` after
the write), a rename by the admin panel, a deleted room or author (`Cascade`).

**History** – the pages of `GET /rooms/{id}/messages` and the unread count while others send and
delete. `ListBefore` is the SQL of `message_repo.go` as a function of the rows: `FirstDescending` puts at
place i the row with i - 1 others above it. A listing walks it
with the last id as cursor, checks membership and reads in separate steps, and keeps what it got.
Composing a message (id and `created_at`, in the pod) and saving it are separate steps. `clock` is the
clock of the database; `sent[m]` is its reading when m was composed and `created[m]`, what the pod wrote,
is up to `Skew` away from it. `Unread` is the query of `GetUnreadCounts`: of rooms the reader is a member
of, and everything while there is no mark.

**Friends** – `friendships` with the unique pair and the statements that change it; `call[q]` is one
`GetOrCreateDM`: `lookup`, `insert`, `answered`. The deletion of a user takes friendships,
memberships and owned rooms along; a room of two can also be deleted like any other (`DeleteDm`) and a
member kicked from it (`KickFromDm`).

**Seeding** – `seedDemoUser` and `seedDemoData` as run by every pod that starts, statement by
statement, with failing statements and crashes. `knows` is whether `friendID` is the id of a row,
`exists` the variable both lookups of rooms write.

**Accounts** – rows of `users` (`none`, `user`, `admin`, `deleted`), the tokens that have not expired
with the time they have left, and requests that have read a row and not yet signed. The handlers of
the admin panel look at the claim of a token only (`requireAdmin`). Login, refresh and demo read the
row in one step and sign in another. `adminSince` and `userSince`
measure how long nothing has said admin, or user, any more.

**RateLimit** – one limiter: buckets by address, `allow` and the cleanup, under the mutex and hence
atomic. The clock is an integer; `granted` and `refused` record what happened, for the properties.
Limits are per pod, as in the code: with n pods a client gets n buckets.

**MCHubFeeds** – the liveness of the hub in three environments (`part`, chosen in the initial state):
`feeds` (HTTP events, failing calls, kills, restarts; one client), `breaks` (connections to Redis that
break) and `busy` (a second client that never stops joining and leaving). Only steps of the environment
are held back by a part; all four cases of `Run` and the goroutines are as in `Hub`.

**\*_proofs** – theorems, below. **MC\*** – instances for TLC. `MCMessages`,
`MCFriends` and `MCAuth` hold two components that share no variable: `part` is chosen in the initial
state and only the steps of that component happen, since their interleavings show nothing that each
does not show alone. (`Friends` is split in two parts the same way; the deletion of a user belongs to
both.)

`PROJECT.json` maps every definition to its lines. Definitions marked *Mutant* are plausible bugs of
the definition that follows them; each property is known to fail under at least one of them.

## What is abstracted

- Texts, names, timestamps, JSON and logging. A message is its id; an event is its type, room and one
  argument. The `typing` message without the flag, and a signal without a target, change and send
  nothing, and are the type `unknown`.
- An iteration of `Run` other than a join is atomic, including its calls to PostgreSQL and Redis:
  nothing else touches the registry meanwhile, and it reads one row at most. What is lost by this is a
  writer that takes an event out of a full buffer between two sends of the same step.
- The cleanup order of voice rooms is chosen per peer rather than once; a peer sees only the events
  of its own shared rooms, and no property relates the orders two peers see.
- What is left in the buffer of a connection that is gone reaches nobody, and is not written.
- `Send` buffers, channels, subscription slots and feed buffers are bounded by constants instead of
  64, 256 and so on. The behaviour at a limit is kept, so small values show it: whoever writes to one of
  the hub's channels waits, an event that does not fit into `send` is dropped, and a message that a feed
  has no room for is lost. (go-redis waits a minute before it drops; here the loss may come at once.)
- Chat messages and typing have no membership check in the code, and none here.
- `is_admin` tokens of a site admin (`DeleteAny`) only decide who may delete a room, which `Rooms`
  leaves open.
- `Messages`: roles of the room and the claims of tokens are constants, since no step of the module
  changes them; contents are members of a small set, limits on their length left out. A pod publishes
  through Redis; one `view` for all clients is what `RoomFeed` delivers to clients that stay
  connected over a working feed.
- `History`: ids are numbers drawn in any order, as `uuid.New` does. The clocks of the pods are each
  within `Skew` of that of the database, for any `Skew`; nothing in the code bounds it. The client that
  pages (next cursor is the last id, stop at an empty page) is external.
- `Friends`: a lookup may fail, and the code goes on to the insert as if nothing was found. Who may
  delete a room of two or kick from it is left open (`Rooms` has the rules).
- `Seeding`: `DEMO_USER_PASSWORD` is set, nobody else has registered the names or emails of the demo
  users, and no admin deletes the demo rows while a pod is starting.
- `Accounts`: usernames, emails and passwords only decide whether a request is refused, which
  `Aborted` covers; the three token lives are constants with `AccessLife <= DemoLife <= RefreshLife`
  as in the code. A user id and the deletion of its row are final (ids are random). Signatures are
  taken to be unforgeable.
- `RateLimit`: time in whole units of the constants; `IdleLimit >= 2 * RefillPer` is assumed, which
  the three limits of `server.go:30-36` satisfy (10 minutes against 3 minutes at most).

## Runs: what each checks and shows

State counts are distinct states, for orientation. The type invariants of every module
but `Hub`, and `ClosedIsGone` and `TagsUnique`, are theorems and not repeated in the runs.

| Run | Checks | Bounds, and why they are enough |
|---|---|---|
| `room_feed` (71 k) | `TableLive`, `FeedOrPending`, `EventuallyFed`, `ClosedFeedsEnd` | 2 rooms, 3 goroutines, feed buffer 1: two goroutines of one room in every order of leave, rejoin and late SUBSCRIBE, a third for the other room; a `Close` of both rooms at once, and messages a full feed loses |
| `hub_rooms` (852 k) | `TypeOK`, `MembershipAgrees`, `ClosedIsForgotten`, `OnlyStaleReplyPanics`, `LeaksByOvertaking`, `OfflineByOtherTab` | 2 connections of one user, 1 room of type public with a voice room of the same id, all channels of capacity 1, send buffer 1: one connection ends while the other shares rooms and the presence key with it, every selection order (with one place in `register` and in `unregister`, either can be taken first), buffers that overflow, broken Redis connections, keys that expire or are changed by another pod |
| `hub_entry` (1.3 M) | `AnswersMatchRegistry`, `EntryIsAllowed` | 1 connection, a DM and a private room; rows of rooms and members that come and go at any time, between the three steps of a join too, failing calls, a deaf writer, HTTP requests and kills of the pod. Access depends on one user and one room, the second room shows that answers are not mixed up |
| `hub_feeds` (217 k) | `PersistBeforePublish`, `ImplementsRoomFeed`, `DisconnectIsProcessed`, `JoinedIsFed`, `FeedReachesMembers` | 2 connections, 1 room, 2 goroutines, 1 message, in the parts of `MCHubFeeds`. Two goroutines are needed for a rejoin while the first feed is starting, and for the loss of a message in a feed that is full. In `busy` the second client fills `incoming` again after every message the hub takes, so the channel may be ready at every `select`: with weak instead of strong fairness of `HandleUnregister` TLC finds the disconnect starved |
| `voice_view` (1.7 M) | `VoiceViewConverges` | 2 connections of different users, 1 voice room, send buffer 2 (one snapshot and one increment). The constraint `NobodyLagged` cuts behaviours at the first dropped event, of either client: after it a browser's list is wrong by design |
| `rooms` (2.5 M) | `PrivateByInvite`, `KickIsFinal`, `OwnerRoleIsOwners`, `AcceptedIsMember`, `DecidedOnce`, `AdminsByOwner` | 1 room (private or public), an owner and two others, 2 requests at a time, failures, and one account that is deleted at any moment (`MaxDeletions`; the second deletion of three would leave one user): every pair of operations interleaved statement by statement, in sequences of any length |
| `messages` (9.4 M) | `AnnouncedWasWritten`, `ViewSettles`; `PagesOnce`, `PagesComplete`, `UnreadIsUnseen` | one message and the name, 3 users (author, owner, site admin), 2 texts, 2 requests: every pair of operations on one row interleaved between read, write and publication, and users deleted in between. History: 3 messages (one the reader's own), page sizes 1 and 2 (`MaxLimit` 2, `DefaultLimit` 1, so an asked limit of 3 falls back), clocks that are 1 apart (`Skew`), database time up to 6, so that messages are composed before, around and after a mark: deletions before, at and after the cursor, ids in any order |
| `friends` (2.2 M) | `FriendsByConsent`, `AcceptedStays`, `DmIsPrivate`, `SecondDmOnlyByRace`; `SeedsComplete`, `RoomTwiceOnlyByOverlap` | 3 users, 4 friendship ids (remove and ask again in both directions), 2 calls and 2 rooms: overlap, failure, rooms that are deleted or lose a member, and a third user who must stay outside. Seeding: 2 pods, any number of starts and crashes, up to 3 rooms of a name |
| `auth` (597 k) | `AdminClaimExpires`, `DeletedUserExpires`, `PanelInRecentHands`; `WindowBound`, `RefusedOnlyWhenBusy` | 2 users (one of them demo), 2 tags, 2 requests, lives of 2, 3 and 4 ticks: chains of refreshes, requests that hold an old claim, admins who revoke each other. Limiter: one address, capacity 2, a token per 3 ticks, cleanup every 5 of buckets older than 6, 13 ticks: refills with every remainder and a bucket forgotten and made again |
| `panic`, `owner_demoted`, `history_order` | one comment each | below |

What the nine passing runs show:

- *room_feed*: whatever the order of goroutines, the table never points to a closed or foreign feed
  (so `Close` is never called twice), a joined room always has a feed or one under way, and under
  fair goroutines it gets a confirmed one. It does **not** have at most one (below).
- *hub_rooms*: the fan-outs cannot panic the pod, the reader cannot either; the only panic is a
  reply to an envelope that was handled after the unregister of its connection. A connection is kept
  after its end in one case only, when its unregister overtook its register, and then until the pod
  ends. This pod takes a user who is connected offline for one reason only: another connection of the
  same user ended. Otherwise the key expired, or another pod has changed it.
- *hub_entry*: `room_joined` is offered exactly at the entry and an `error` never comes with a change,
  whichever call fails. Whoever enters a DM or a private room was a member at some moment of the join,
  or owns the private room; that moment may be over at the entry, and later kicks evict nobody.
- *hub_feeds*: nothing is shown that was not stored; the hub opens and closes feeds exactly as
  `RoomFeed` says, also through crashes; a disconnect is processed although
  it shares the select with a channel another client keeps ready for ever, and leaves nothing in rooms
  and voice rooms; what a feed has taken is offered to the client that stays, unless the connection of
  the feed to Redis breaks. What a full feed does not take is lost, without a trace in the code.
- *voice_view*: snapshot and increments add up, as long as no event was dropped.
- *rooms*: no interleaving of statements makes a member of a private room without an accepted
  invite, decides an invite twice, brings a kicked member back by an accept, gives away ownership or
  makes an admin without a request of the owner for this user; the half-done accept is the only way an
  accepted invite lacks its membership. One thing undoes what was decided: the deletion of the account
  that sent the invite takes the row along (`005_room_invites.sql:4`). The member stays without an
  invite, and somebody who was kicked can be invited again.
- *messages*: nobody is shown a text that was not saved, although edits and renames look at the row
  two steps before they change it; when changes of a row do not overlap and are published, clients
  and rows agree. Overlapping changes may leave them apart for good (hazard at
  `message_handler.go:110`). The messages of a deleted author go unannounced. A listing
  brings nothing twice and misses nothing that stays. The unread count of a member misses the messages
  that were between the reading of the clock and the insert when the room was marked; of those composed
  within `Skew` of the mark it may miss or count too many (`UnreadIsUnseen` says nothing of them), and
  it is right about all others.
- *friends*: no acceptance is reused for a later request; asking again does not undo a friendship. (Two
  users who ask each other at once have two rows; nothing here says they do not.) A
  second room for two users, or a second demo room, takes an overlap or a failed lookup; pods that
  start together seed everything between them.
- *auth*: a refresh never carries an old claim on; a revoked admin has the claim for `AccessLife`, a
  deleted user a valid token for `RefreshLife` at the longest, counted from the last request that had
  read the row before. Whatever the admin panel does to a user is done by another user who is an admin
  or was one less than `AccessLife` ago. That keeps no admin in office: two who demote each other leave
  none, and after `AccessLife` the panel is closed. The limiter keeps its capacity in any window of one
  refill period, also when buckets are forgotten: for the credential limit the cleanup gives back a full
  bucket after 10 minutes where refilling takes 15, which the window does not notice.

Bounds, by name: `Subs` (goroutines alive at once), `FeedCap` (what Redis and go-redis hold),
`RegisterCap`, `UnregisterCap`, `IncomingCap`, `BroadcastCap`, `SendCap` (the channels), `Messages`
(fresh ids), `Clients` (each connection is used once), `Requests` (requests at a time; a request slot is
reused), `Invitees`, `WithinBounds` (a join is read only when a goroutine slot is left for it, a chat
message only when an id is), `NobodyLagged` (above), `Msgs`, `Texts`, `Ids` and `MaxClock` (messages,
and readings of the clock), `RowIds`, `DmIds` and `Calls` (ids, and calls at a time), `MaxDeletions` (of
accounts), `Skew`, `MaxRooms` (rooms of one name), `Tags`, `Horizon` (the clock of the limiter).
`CHECK_DEADLOCK FALSE` in the configurations of the hub, rooms, messages and friends: every connection
and id is used once, and what is deleted stays deleted, so an instance really comes to rest. `room_feed`
and `auth` check deadlock. Symmetry is used where only safety is checked.

## Disagreements with the code's comments

With a run (`expect: violation`); `PROJECT.json` quotes the lines.

- `panic` – the hub runs "in a single goroutine to avoid races" (`hub.go:27`), and still sends on a
  closed channel: the unregister of a connection may be taken before an envelope of it that is waiting
  in `h.incoming`; its reply panics the hub and ends the pod.
- `owner_demoted` – "Add owner as member with owner role" (`room_service.go:35`): opening a public or
  voice room upserts the membership with role `member`; the owner loses the role at their first visit.
- `history_order` – "ListBefore returns messages before cursor (exclusive), newest first"
  (`message_repo.go:31`): ids are random, so the order is that of the ids and says nothing of time.

Stated in the modules, refuted by the code, without a run of their own. Each is found at once by
`MCHub` with one room `r1` that is public and nobody's (`PublicRooms`, `NobodysRooms`, `OwnUsers`,
`OwnUserOf`), the capacities of register, unregister and incoming 2 and the others 1, no deadlock
check, and:

- `GoneNotRegistered` (2 clients, no message kinds, empty `Env`) – "blocks until the client
  disconnects" (`hub.go:100`): `unregister` may be taken before `register`; the client then stays
  registered for ever. `LeaksByOvertaking` is what the code does keep.
- `ConnectedIsPresent` (the same, both clients of one user: `TabUsers`, `TabUserOf`) – presence
  (`ports.go:73`) is deleted when one of two tabs closes. `OfflineByOtherTab` is what the code does keep.
- `AtMostOneSubscription` (2 slots, kinds `join_room` and `leave_room`) – `subs` is "channel →
  subscription" (`pubsub.go:16`): leave and rejoin before the goroutine has recorded itself gives two
  live feeds; one can never be closed, every message of the room arrives twice. That this is the only
  way to a feed nobody can close is a theorem (`OrphansByOverwriting`).
- `PublishReachesJoined` (kinds `join_room` and `chat_message`) – published "so all pods receive it"
  (`hub.go:221`): `room_joined` is sent before Redis has confirmed the feed; a message sent then is
  stored and delivered to nobody on this pod.

Met while modelling:

- Nothing calls `Heartbeat`, so a presence key expires under a user who stays connected
  (`PresenceExpires` is in `hub_rooms`).
- `KickMember` reads roles and deletes in separate statements, so a kick by an admin may hit a member
  who has just been made admin, against "owner can kick anyone; admin can kick members only"
  (`room_service.go:169`).
- "Re-fetch username and is_admin from DB so changes take effect immediately" (`auth_handler.go:141`):
  they take effect at the next refresh; the access token issued before keeps the claim for up to 15
  minutes. `AdminClaimExpires` is what the code does keep.
- "30 req/min per IP" and "20 req/min per IP" (`server.go:32-34`): the first limiter gives a token
  every 2 seconds on top of a capacity of 30, up to 59 requests in a minute; the second one token a
  minute, 20 requests only after a rest of 20 minutes.
- A registration that loses the race for its tag is answered "username or email already exists"
  (`auth_handler.go:78`), although neither does.

## Fairness

`RoomFeed!Fairness` is weak fairness of single goroutines; `HubProps!Fairness` adds that of the loop:

- strong fairness of register, unregister and broadcast: the loop comes back to its `select` again and
  again and Go picks uniformly among the ready cases, so a case that is ready again and again is taken
  in the end, whatever the other cases keep the loop busy with;
- weak fairness of `HandleIncoming`: it is either one case of the same `select`, or the next step of a
  join that has begun, which nothing else disables (its calls return, with a result or an error);
- each `Subscribe` goroutine, Redis' confirmation, each `writePump`: they run while they can.

Nothing is assumed of clients (they need not send, read or disconnect), of calls that may fail, of other
pods, of a kill, of a broken connection, or of a restart. The modules about requests and rows (`Rooms`,
`Messages`, `History`, `Friends`, `Seeding`, `Accounts`, `RateLimit`) state safety only: nothing in the
code retries a request, so nothing must happen in them. `DisconnectIsProcessed` therefore excuses a pod
that ends, and `FeedReachesMembers` a full buffer, a client that leaves and a feed whose connection has
broken.

## What is proved

For every value of the constants that the modules' `ASSUME`s admit (any numbers of rooms,
connections, goroutines, users, requests, and channel capacities of at least one; `Rooms` of `Hub`
finite).

**RoomFeed_proofs.** `FeedInv` is `TypeOK`, `TableLive`, `FeedOrPending`, `SlotsServe` (a slot in use
serves a room) and `SlotsClean` (Redis forwards only to goroutines that run, and a goroutine that has
not subscribed yet or has returned holds nothing); `RoomFeed`'s own properties do not need the last two,
the hub's fan-out does, and `RoomKept` (a feed that holds messages keeps its room) is what it cites.
`TableLive` is inductive with the types: a subscription enters the table as it starts listening and
leaves it in the step that closes it. `FeedOrPending` follows from it: `Unsubscribe` closes only
subscriptions that are in the table under a room it takes out of `wanted`, so it never hits a pending
goroutine of another visit. A feed is an `Orphan` when it is read but the table does not lead to it any
more, so that no `Unsubscribe` will close it. `OrphansByOverwriting` says how the leak arises and that
it lasts: only `Record` of another goroutine of the same room makes an orphan, and only the end of the
pod unmakes it; no order of closes, late SUBSCRIBEs and broken connections does either (TLC reaches
orphans in the instance of `room_feed`, so the statement is not about nothing). It needs the table to be
right about rooms (`TableLive`), or a `Close` could take an entry away without closing the feed.
Theorems: `FeedTypeCorrect`, `TableIsLive`, `JoinedHasFeedOrPending`, `OrphansAlwaysByOverwriting`.

**Hub_proofs.** `RegistryInv`: the types of what the loop reads and writes (`LoopTypes`),
`MembershipAgrees`, `ClosedIsForgotten`, `ClosedIsGone`, and two facts about the channels: a connection
waits in `register` once, and then is neither registered nor closed yet (`RegistersOnce`); only
connections that are gone wait in `unregister` (`UnregistersGone`). Without the first, `HandleRegister`
could put a closed client back into `clients`; without the second, `HandleUnregister` could close the
channel of a reader that still replies. Theorems: `MembershipAlwaysAgrees`, `ClosedIsAlwaysForgotten`,
`ClosedIsAlwaysGone`.

Then the feeds: `HubInv` is `RegistryInv` and `RoomFeed`'s `FeedInv` under the mapping. Every step
of `Hub` is an `Open`, a `Close`, a goroutine step, a `Publish`, a `Reset` or a stutter of `RoomFeed`.
The cases with content are `Enter` (the first client of a room opens its feed) and `LeaveRooms`
(`Emptied` is exactly the set of rooms that stop being wanted, for one room or for all rooms of a
disconnect). `FeedInv` then carries over by `RoomFeed`'s own step lemma. Theorems:
`HubImplementsRoomFeed` (the refinement), `HubRoomsAreFed` (RoomFeed's invariants hold of the hub),
`HubOrphansByOverwriting` (and so does what it says of orphans).

`UnregisterAlwaysKept` is the safety half of `DisconnectIsProcessed`: a registered connection that waits
in `unregister` stays in both until a single step takes it out of the registry, its rooms and its voice
rooms. All steps but three are `Steady` (they register, announce and forget nobody) or end the pod
(`StepSteady`); so every step but `HandleUnregister` only adds to `clients` and to the end of
`unregister` (`StepKeeps`). That the rooms of the cleaned-up connection are all in its `joined` is
`MembershipAgrees`.

The same classification gives `LeaksAlwaysByOvertaking`: whom the cleanup takes is the head of
`unregister`, the others wait on (`TailWaits`), and a reader announces its end in the step in which the
connection is gone (`AppendWaits`); what is left is a register that comes after that, and nothing takes
such a connection out again. `OfflineAlwaysByOtherTab` needs that only connections that are gone wait
in `unregister` (`UnregistersGone`): whom this pod takes offline it does by the end of a connection that
was registered and is really gone. Steps of other pods are free to change the key.

**HubEvents_proofs.** `EventsInv` is `HubInv`, all of `Hub`'s `TypeOK`, `PersistBeforePublish`,
`PostsStored` (what HTTP handlers are about to publish is stored), `VoiceEventsShaped` (events about
voice carry rooms and users) and `JoinInv` (a join under way is that of the envelope at the head of
`incoming`, into a room its client is not in, and what it has been told so far was true at some moment
since the lookup). Its core is one classification of the steps, `StepSends`: a step leaves the outboxes
alone, or ends the pod, or lets a writer take one event, or offers each client a sequence of events that
are honest (`HonestOffer`: a chat message is stored, an error goes with an unchanged registry,
`room_joined` with the entry of exactly this client). What a bounded buffer makes of an offer is a lemma
of its own (`FitFacts`: what was there stays, and only a suffix of the offer is lost). `EntryIsAllowed`
needs that nothing but `Enter` puts a client into a room, and `JoinInv`: no step between lookup and
entry changes whose join it is or which room it is for, and every change of a membership in between is
seen by `witness`. For the panics: every fan-out goes to members of rooms and voice rooms, so it cannot
panic (`ClosedIsForgotten`), and a reader's own reply cannot either (`ClosedIsGone`). Together with the
run `panic` this pins the defect down: the only panic is the one the run exhibits. Theorems:
`EventsInvariant`, `HubTypeCorrect`, `AlwaysPersistBeforePublish`, `EntryAlwaysAllowed`,
`AnswersAlwaysMatchRegistry`, `OnlyStaleReplies`.

A second classification, `StepMoves`, says what a step does to the messages in the feeds and in
`broadcast`: nothing, the end of the pod, a publication (to the feeds that have room), a broken Redis
connection, a forward, or one delivery. From it follows the safety half of `FeedReachesMembers`,
`ReceivedAlwaysOffered`: a message a feed has taken stays in a feed of its room or in `broadcast` until
the delivery that puts it into the buffer of every client the room has then, unless that is full; only
the end of the pod and a broken connection of a feed of that room lose it. It rests on `RoomKept`:
between the `Unsubscribe` and the return of a goroutine its slot is not given to another room while it
still hands on what it holds. Conversely `ChatsAlwaysTaken`: a client is told of a chat message only by
the delivery of that entry, while it is in the room. And `ReceivedAlwaysInOrder`: a message that is
`Ahead` of another on their way to a room (in the same feed, in `broadcast`, or one in `broadcast` and
the other still in a feed) stays ahead of it until it is offered to every client of the room, although
feeds of other goroutines put their messages in between. It speaks of the places messages wait in, not
of pairs of messages: an orphaned feed brings each of them a second time.

**VoiceView_proofs.** `ViewsConverge`: for a client in voice that has not missed an event, folding
what waits in its buffer into its view gives a set that is always within the others in the room, and
is all of them when every user has one connection (`OneConnectionEach`, a fact about the users that
the code does not enforce: the second tab of a user takes the first out of the views when it leaves,
which is why the theorem assumes it and `ViewsNeverInvent` does not). The fold over the buffer is
replaced by the sequence of views it goes through (`Reads`), which exists by induction over its length;
appending events and taking the first one are then facts about that sequence. `VoiceMoves` classifies
the steps by what they do to voice rooms and offers. Theorems: `ViewInvariant`, `ViewsAlwaysConverge`,
`ViewsNeverInvent` (`NoGhosts`, also with several connections of a user: nobody is shown who is not
there).

**Rooms_proofs.** `RolesInv` adds to `OwnerRoleIsOwners` what each request still relies on
(`RequestsOK`: a `set_role` about to write was asked for by the owner; a join about to write is of a
room that is not private; a creator is the owner) and `CreatedOnce` (no two creations of one id).
`InvitesInv` adds `RowsLive` (rooms that do not exist have no rows), `InvitesRefer` (no invite refers to
a deleted user, and a user has one invite to a room at most), `AcceptsOK` and `AcceptedOnce` (an accept
between its two statements is the only one for its invite, the invite is accepted, and in a private room
the user is neither a member nor kicked yet), `KickedAccepted` and `AcceptedLeads`. `KickIsFinal` is not
inductive without `AcceptsOK`: the second statement of an accept would bring back a kicked member if a
kick could slip between the two, and it cannot because there is no row to kick yet. The deletion of an
inviter moves the invitee to `freed` in the step that takes the invite, which is why the invariants hold
with that exception and no other. Theorems: `RoomsTypeCorrect`, `OwnerRoleAlwaysOwners`,
`AdminsAreMadeByOwner`, `PrivateIsAlwaysByInvite`, `KickIsAlwaysFinal`, `AcceptedIsAlwaysMember`,
`InviteIsDecidedOnce`.

**Messages_proofs.** `ViewSettles` speaks of rows nobody is changing; `MessagesInv` adds what holds
between a write and its publication, for a row that is not `unsettled`: one request at most is about to
announce it (`OneInFlight`), and what it will announce is what the row holds (`InFlightAgrees`; for an
edit also that the message is shown, or the edit would change nothing on the screen). `TextsWritten`
does the same for `AnnouncedWasWritten`. Theorems: `MessagesTypeCorrect`, `AnnouncedIsAlwaysWritten`,
`ViewAlwaysSettles`.

Then `History`. `FirstInOrder` is what `ORDER BY id DESC LIMIT k` returns for every finite set of rows:
it is in descending order, and what it leaves out is below its last row; it rests on `RankExists` (for
every k below the size of the set, some row has exactly k others above it). `HistoryInv` adds to the
properties `Progress` (the cursor is the last message a listing has brought, and every row that has been
there since it began has been brought or is below the cursor) and `Dated` (a message, stored or on its
way, was composed after the mark, by the clock of the database, unless it was there or on its way at the
mark, and is dated within `Skew` of that; a message not composed yet is in neither set). Without the
first the last page says nothing about those before; without the second a message in composition when
the room is marked could become a stored one about which nothing is known. Theorems: `HistoryInvariant`,
`HistoryTypeCorrect`, `PagesAlwaysOnce`, `PagesAlwaysComplete`, `UnreadAlwaysUnseen`.

**Friends_proofs.** `FriendsInv` adds to the properties: ids are unique (`IdsUnique`), an accepted row
was agreed to (`AcceptedAgreed`), a room of type dm never has three members (`DmOfTwo`), and what a call
that has looked in vain knows (`RacedAtInsert`): if the room is there by now, or another call is about to
make it too, the pair has raced. Theorems: `FriendsTypeCorrect`, `AlwaysFriendsByConsent`,
`AcceptedAlwaysStays`, `DmAlwaysPrivate`, `SecondDmAlwaysByRace`.

Then `Seeding`, for any number of pods. `SeedingInv` adds what a pod has read and relies on
(`SeedsKnow`), what two pods about to add the same room know (`OverlapAtInsert`), and `SeedsGoOn`: while
nothing has failed, what is missing behind a pod another pod is about to add. The case that needs it is
a pod that finds `demofriend` just added and leaves: either everything is there, or some pod is ahead of
it; a pod ahead has the friendship behind it, or another is about to add it; and the pod that adds it is
itself ahead, so the last one out leaves everything complete. Theorems: `SeedingInvariant`,
`SeedingTypeCorrect`, `SeedsAlwaysComplete`, `RoomsDoubledOnlyByOverlap`.

**Auth_proofs.** Accounts: while anything says admin, `adminSince` is 0 (`SaidJustNow`), and no token
with the claim has more than `AccessLife` left (`AdminTokensShort`); so the bound holds at the moment
the last of them falls silent, and every tick takes from one side what it adds to the other. `FreshIds`
(a registration has its id for itself) keeps an insert from reviving a user. Limiter: a bucket may let
through as many requests at once as it has tokens; `Covered` says the grants these would follow by
`Capacity` are old enough, `Refilled` and `Recent` bound the grants the next refill will reach, and a
bucket that is forgotten leaves only grants older than `RefillPer`. Theorems: `AccountsTypeCorrect`,
`TagsAlwaysUnique`, `AdminClaimAlwaysExpires`, `DeletedUserAlwaysExpires`, `PanelAlwaysInRecentHands` (a
token with the claim has time left, so its user was an admin until recently), `LimiterTypeCorrect`,
`WindowAlwaysBound`, `AlwaysRefusedOnlyWhenBusy`. They assume of the constants what `AccountsAssumption`
and `LimiterAssumption` say.

## Only model-checked

Liveness (`EventuallyFed`, `ClosedFeedsEnd`, `DisconnectIsProcessed`, `JoinedIsFed`,
`FeedReachesMembers`): TLAPS does not reason about `ENABLED`. The safety halves of the last three are
theorems (`HubRoomsAreFed`, `UnregisterAlwaysKept`, `ReceivedAlwaysOffered`), so what only the runs show
is that the steps these leave open are taken. Every safety invariant and action property of the passing
runs is a theorem.

Induction. The induction theorems of the library take an operator and cannot be used with these
provers. Where the proofs need induction over numbers they go by `LeastNumber` (a nonempty set of
numbers has a least one, from `WFMin` of WellFoundedInduction): assume a counterexample and take the
least. Sets are measured by their cardinality, queues by their length.

## Not modelled

Left out for good: user profiles and avatars (single statements of one row that nothing relates to
another), routing, CORS, logging, JSON, configuration (no state), charts and scripts, cryptography, the
SQL of listings and searches that nothing pages through, and the wiring of `main.go` (including the
discovery of Redis slots). A kick or a deletion evicts no client that is in the room on some pod: there
is no code for it, so no step and no property. `MaxRoomMembers` (`domain/room.go:18`) is read by
nothing, so there is no step to model.

## Plan

Done, in this order: `PubSub`/`RoomFeed` (feeds), `Hub`/`HubProps` (the hub over the feeds, the
refinement), `VoiceView` (over the hub), `Rooms` (statements of room requests), `Messages`/`History`,
`Friends`/`Seeding`, `Accounts`/`RateLimit`, and the proofs above.

What could follow is `Cluster`: two pods over one Redis, that is the feeds of `Hub` twice, and an
abstract specification "a message published while both feeds are confirmed reaches both pods". The parts
that one pod adds to it are there: `Publish` hands a message to every confirmed feed that has room, and
`ReceivedAlwaysOffered` and `ReceivedAlwaysInOrder` say what becomes of it.

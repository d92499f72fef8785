----------------------------- MODULE MCHubFeeds -----------------------------
(***************************************************************************)
(* The liveness of the hub, in three environments.                         *)
(*                                                                         *)
(*   feeds  one connection; messages through Redis, failing calls and      *)
(*          restarts                                                       *)
(*   breaks the same, without restarts and failing calls, while the        *)
(*          connections to Redis break                                     *)
(*   busy   a second connection that never stops sending, so that the      *)
(*          channel incoming may be ready at every select                  *)
(*                                                                         *)
(* What is left out in each is left to the clients, the HTTP handlers and  *)
(* the cluster; the hub's own steps are never held back.  c1 stands for    *)
(* every client and s1 for every slot: slots are interchangeable, and c2   *)
(* stays connected and is sent no message.                                 *)
(***************************************************************************)
EXTENDS MCHub

CONSTANTS c1, c2, s1

VARIABLES
    part,       \* the environment, chosen at the start
    broken      \* feeds whose connection to Redis has broken (a history variable)

mcVars == <<vars, part, broken>>

\* The calls about presence succeed; all calls of the hub do.
PresenceFollows ==
    clients' # clients /\ status' = "running" => presence' = {UserOf[c] : c \in clients'}

NoFailures ==
    /\ PresenceFollows
    /\ asking' = "entry" => UserOf[Head(incoming').client] \in members'[Head(incoming').room]
    /\ \A c \in Clients : \A i \in DOMAIN send'[c] : send'[c][i] # Error

\* Of the messages each connection sends.
Sends(c, K) == \A i \in DOMAIN incoming' : incoming'[i].client = c => incoming'[i].type \in K

\* Clients send while no feed is starting or ending.
FeedsAtRest == Len(incoming') > Len(incoming) => \A s \in Subs : subPc[s] \in {"free", "listening"}

\* What the environment does.
Admitted ==
    CASE part = "feeds" -> /\ conn'[c2] = "none"
                           /\ Sends(c1, {"join_room", "leave_room", "chat_message"})
                           /\ PresenceFollows
                           /\ ~\E s \in Subs : FeedDrops(s)
      [] part = "breaks" -> /\ conn'[c2] = "none"
                           /\ Sends(c1, {"join_room", "leave_room", "chat_message"})
                           /\ posted' = {} /\ status' # "killed" /\ NoFailures /\ FeedsAtRest
      [] part = "busy"  -> /\ Sends(c2, {"join_room", "leave_room"})
                           /\ Sends(c1, {"join_room", "voice_join"})
                           /\ ~Disconnect(c2) /\ status' # "killed" /\ posted' = {}
                           /\ NoFailures /\ FeedsAtRest
                           /\ ~\E s \in Subs : FeedDrops(s)

MCInit == Init /\ part \in {"feeds", "breaks", "busy"} /\ broken = {}

MCNext ==
    /\ Next
    /\ Admitted
    /\ broken' = {s \in Subs : (s \in broken \/ FeedDrops(s)) /\ subPc'[s] # "free"}
    /\ UNCHANGED part

MCSpec == MCInit /\ [][MCNext]_mcVars /\ Fairness

\* What Redis handed to the room's feed, and the feed had room for, is offered to
\* every client that stays: it reaches the client's channel, or is dropped because
\* that is full, or the connection to Redis breaks (hub.go:94-95, :239-246).
FeedReachesMembers ==
    \A m \in Messages :
        (\E i \in DOMAIN msgCh[s1] : msgCh[s1][i] = m /\ c1 \in rooms[feedRoom[s1]])
            ~> \/ \E i \in DOMAIN send[c1] : send[c1][i].arg = m
               \/ c1 \in lagged
               \/ joined[c1] = {}
               \/ s1 \in broken

\* A registered client whose connection ends is forgotten, with its rooms and its
\* voice rooms, although another client keeps the loop busy for ever (hub.go:64-97).
DisconnectIsProcessed == DisconnectEnds(c1)

=============================================================================

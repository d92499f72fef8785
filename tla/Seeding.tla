------------------------------ MODULE Seeding -------------------------------
(***************************************************************************)
(* seedDemoUser and seedDemoData of cmd/server/main.go: every pod runs     *)
(* them when it starts, before it serves, and nothing orders two pods.     *)
(* Each looks a seed up and, with another statement, adds it when it is    *)
(* missing.  A pod may crash at any point and starts again from the        *)
(* beginning; DEMO_USER_PASSWORD is taken to be set.                       *)
(***************************************************************************)
EXTENDS Naturals, FiniteSets

CONSTANTS
    Pods,
    MaxRooms        \* a bound: rooms of one name

ASSUME SeedingAssumption == MaxRooms \in Nat

VARIABLES
    demo,           \* there is a user with the demo email
    friend,         \* there is a user with the email of demofriend
    friendship,     \* the accepted friendship of the two
    rooms,          \* how many rooms are named "demotexto" and "demo voice chat"
    pod,            \* what each pod is doing
    hurt,           \* a statement failed or a pod crashed since a pod last started
                    \* while no other was seeding (a history variable)
    overlapped      \* rooms that were looked for while another pod was about to add
                    \* them, or in vain (a history variable)

seedingVars == <<demo, friend, friendship, rooms, pod, hurt, overlapped>>

Names == {"text", "voice"}
Steps == {"count", "insert_demo", "find_demo", "find_friend", "insert_friend", "befriend",
          "find_text", "insert_text", "find_voice", "insert_voice"}
Down == [next |-> "down"]
Serving == [next |-> "serving"]
\* `knows`: friendID is the id of the row.  `exists`: the variable the two lookups
\* of rooms share.
Start == [next |-> "count", knows |-> FALSE, exists |-> FALSE]

SeedingTypeOK ==
    /\ {demo, friend, friendship, hurt} \subseteq BOOLEAN
    /\ friendship => demo /\ friend
    /\ rooms \in [Names -> 0..MaxRooms]
    /\ rooms["text"] + rooms["voice"] > 0 => demo
    /\ pod \in [Pods -> [next : Steps, knows : BOOLEAN, exists : BOOLEAN] \cup {Down, Serving}]
    /\ overlapped \subseteq Names

SeedingInit ==
    /\ demo = FALSE /\ friend = FALSE /\ friendship = FALSE
    /\ rooms = [n \in Names |-> 0]
    /\ pod = [p \in Pods |-> Down]
    /\ hurt = FALSE
    /\ overlapped = {}

-----------------------------------------------------------------------------

tables == <<demo, friend, friendship, rooms>>

Seeds(p) == pod[p].next \in Steps
Continue(p, next) == pod' = [pod EXCEPT ![p].next = next]
Serve(p) == pod' = [pod EXCEPT ![p] = Serving]

StartPod(p) ==
    /\ pod[p] = Down
    /\ pod' = [pod EXCEPT ![p] = Start]
    /\ hurt' = (hurt /\ \E other \in Pods : Seeds(other))
    /\ UNCHANGED <<tables, overlapped>>

\* A crash, or the end of a pod that serves.
StopPod(p) ==
    /\ pod[p] # Down
    /\ hurt' = (hurt \/ Seeds(p))
    /\ pod' = [pod EXCEPT ![p] = Down]
    /\ UNCHANGED <<tables, overlapped>>

\* SELECT COUNT(*): an error leaves the count at zero.
CountDemo(p) ==
    /\ pod[p].next = "count"
    /\ \/ Continue(p, IF demo THEN "find_demo" ELSE "insert_demo") /\ UNCHANGED hurt
       \/ Continue(p, "insert_demo") /\ hurt' = TRUE
    /\ UNCHANGED <<tables, overlapped>>

\* INSERT INTO users ... ON CONFLICT (email) DO NOTHING: when another pod was
\* first nothing happens, or the unique username makes it fail; an error is
\* logged.  Either way the data comes next.
InsertDemo(p) ==
    /\ pod[p].next = "insert_demo"
    /\ \/ demo' = TRUE /\ UNCHANGED hurt
       \/ hurt' = TRUE /\ UNCHANGED demo
    /\ Continue(p, "find_demo")
    /\ UNCHANGED <<friend, friendship, rooms, overlapped>>

\* Without the demo user, or on an error, there is no data.
FindDemo(p) ==
    /\ pod[p].next = "find_demo"
    /\ \/ demo /\ Continue(p, "find_friend") /\ UNCHANGED hurt
       \/ ~demo /\ Serve(p) /\ UNCHANGED hurt
       \/ Serve(p) /\ hurt' = TRUE
    /\ UNCHANGED <<tables, overlapped>>

\* Mutant: the friendship is left to whoever created demofriend.
FindFriendDone(p) ==
    /\ pod[p].next = "find_friend"
    /\ \/ friend /\ Continue(p, "find_text") /\ UNCHANGED hurt
       \/ ~friend /\ Continue(p, "insert_friend") /\ UNCHANGED hurt
       \/ Continue(p, "insert_friend") /\ hurt' = TRUE
    /\ UNCHANGED <<tables, overlapped>>

\* An error is taken for no row.
FindFriend(p) ==
    /\ pod[p].next = "find_friend"
    /\ \/ /\ friend
          /\ pod' = [pod EXCEPT ![p].next = "befriend", ![p].knows = TRUE]
          /\ UNCHANGED hurt
       \/ ~friend /\ Continue(p, "insert_friend") /\ UNCHANGED hurt
       \/ Continue(p, "insert_friend") /\ hurt' = TRUE
    /\ UNCHANGED <<tables, overlapped>>

\* INSERT INTO users under a fresh id, ON CONFLICT (email) DO NOTHING: when the
\* row is there already, the id is nobody's, or the insertion fails.  A failure
\* ends the seeding.
InsertFriend(p) ==
    /\ pod[p].next = "insert_friend"
    /\ \/ /\ friend' = TRUE
          /\ pod' = [pod EXCEPT ![p].next = "befriend", ![p].knows = ~friend]
          /\ UNCHANGED hurt
       \/ friend /\ Serve(p) /\ UNCHANGED <<friend, hurt>>
       \/ Serve(p) /\ hurt' = TRUE /\ UNCHANGED friend
    /\ UNCHANGED <<demo, friendship, rooms, overlapped>>

\* INSERT INTO friendships ... ON CONFLICT DO NOTHING: the foreign key refuses
\* an id that is nobody's; errors are logged.
Befriend(p) ==
    /\ pod[p].next = "befriend"
    /\ \/ friendship' = (friendship \/ pod[p].knows) /\ UNCHANGED hurt
       \/ hurt' = TRUE /\ UNCHANGED friendship
    /\ Continue(p, "find_text")
    /\ UNCHANGED <<demo, friend, rooms, overlapped>>

InsertsRoom(p, n) == pod[p].next = (IF n = "text" THEN "insert_text" ELSE "insert_voice")

\* After room n: the other room, or the pod serves.
AfterRoom(p, n, exists) ==
    pod' = [pod EXCEPT ![p] = IF n = "voice" THEN Serving
                              ELSE [@ EXCEPT !.next = "find_voice", !.exists = exists]]

\* Mutant: both lookups ask for rooms of type 'public'.
FindRoomPublic(p, n) ==
    /\ pod[p].next = (IF n = "text" THEN "find_text" ELSE "find_voice")
    /\ LET exists == n = "text" /\ rooms[n] > 0
           blind == \E other \in Pods \ {p} : InsertsRoom(other, n)
       IN  /\ IF exists THEN AfterRoom(p, n, TRUE)
              ELSE pod' = [pod EXCEPT ![p].exists = FALSE,
                                      ![p].next = IF n = "text" THEN "insert_text" ELSE "insert_voice"]
           /\ overlapped' = IF ~exists /\ blind THEN overlapped \cup {n} ELSE overlapped
    /\ UNCHANGED <<tables, hurt>>

\* SELECT EXISTS: an error leaves the variable as it was, false or what the
\* lookup of the text room left in it.
FindRoom(p, n) ==
    /\ pod[p].next = (IF n = "text" THEN "find_text" ELSE "find_voice")
    /\ \E failed \in BOOLEAN :
        LET exists == IF failed THEN pod[p].exists ELSE rooms[n] > 0
            blind == ~exists /\ (rooms[n] > 0 \/ \E other \in Pods \ {p} : InsertsRoom(other, n))
        IN  /\ IF exists THEN AfterRoom(p, n, TRUE)
               ELSE pod' = [pod EXCEPT ![p].exists = FALSE,
                                       ![p].next = IF n = "text" THEN "insert_text" ELSE "insert_voice"]
            /\ hurt' = (hurt \/ failed)
            /\ overlapped' = IF blind THEN overlapped \cup {n} ELSE overlapped
    /\ UNCHANGED tables

\* INSERT INTO rooms: no name is unique; an error is logged.
InsertRoom(p, n) ==
    /\ InsertsRoom(p, n) /\ rooms[n] < MaxRooms
    /\ \/ rooms' = [rooms EXCEPT ![n] = @ + 1] /\ UNCHANGED hurt
       \/ hurt' = TRUE /\ UNCHANGED rooms
    /\ AfterRoom(p, n, FALSE)
    /\ UNCHANGED <<demo, friend, friendship, overlapped>>

SeedingNext ==
    \E p \in Pods :
        \/ StartPod(p) \/ StopPod(p)
        \/ CountDemo(p) \/ InsertDemo(p) \/ FindDemo(p)
        \/ FindFriend(p) \/ InsertFriend(p) \/ Befriend(p)
        \/ \E n \in Names : FindRoom(p, n) \/ InsertRoom(p, n)

SeedingSpec == SeedingInit /\ [][SeedingNext]_seedingVars

-----------------------------------------------------------------------------

\* Pods that start together seed everything between them, whatever earlier
\* starts have left undone, unless a statement fails or a pod crashes on the way
\* (main.go:162-263): a pod that lost the race for a row goes on or leaves the
\* rest to the pod that won.
SeedsComplete ==
    (~hurt /\ ~(\E p \in Pods : Seeds(p)) /\ \E p \in Pods : pod[p] = Serving)
        => demo /\ friend /\ friendship /\ \A n \in Names : rooms[n] > 0

\* A demo room is there twice only when two pods looked for it at once or a
\* lookup failed (main.go:237, :251): restarts alone do not add rooms.
RoomTwiceOnlyByOverlap == \A n \in Names : rooms[n] > 1 => n \in overlapped

=============================================================================

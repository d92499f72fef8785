-------------------------- MODULE HubEvents_proofs ---------------------------
(***************************************************************************)
(* What the hub sends, for any connections, rooms, users and capacities:   *)
(* the types of every variable, and that an event a client is offered is   *)
(* honest -- a chat message is stored, an error has changed nothing, and   *)
(* room_joined comes with the entry.                                       *)
(*                                                                         *)
(* Every step either leaves the outboxes alone, or brings the pod down, or *)
(* lets a writer take one event, or offers events (StepSends).  The types, *)
(* PersistBeforePublish and AnswersMatchRegistry follow from that one      *)
(* classification; a second one (StepMoves) shows that what a feed has     *)
(* received comes to the members of its room, and in order.  And the pod   *)
(* panics only by a reply to an envelope of a connection that was already  *)
(* unregistered.                                                           *)
(***************************************************************************)
EXTENDS Hub_proofs, FiniteSetTheorems, FunctionTheorems, SequenceTheorems

\* Events about voice rooms name a room, and users (hub.go:248-289).
VoiceShape(e) ==
    /\ e.type \in {"voice_participants", "voice_joined", "voice_left"} => e.room \in Rooms
    /\ e.type = "voice_participants" => e.arg \in SUBSET Users
    /\ e.type \in {"voice_joined", "voice_left"} => e.arg \in Users

VoiceEventsShaped == \A c \in Clients : \A i \in DOMAIN send[c] : VoiceShape(send[c][i])

\* What an HTTP handler is about to publish is stored (message_handler.go:84-110).
PostsStored == \A p \in posted : p.msg \in messages

\* What the entry of c into r rests on.
Entitled(c, r) ==
    /\ RoomType[r] = "dm" => witness
    /\ RoomType[r] = "private" => witness \/ IsOwner(c, r)

\* A join under way is that of the envelope at the head, into a room its client is
\* not in, and a membership it has or had is witnessed (hub.go:136-162).
JoinUnderWay(c, r) ==
    /\ r \notin joined[c]
    /\ asking = "membership" /\ IsMember(c, r) => witness
    /\ asking = "entry" => Entitled(c, r)

JoinInv ==
    asking # "nothing" =>
        /\ incoming # <<>>
        /\ Head(incoming).type = "join_room"
        /\ JoinUnderWay(Head(incoming).client, Head(incoming).room)

\* The inductive invariant.
EventsInv ==
    /\ HubInv /\ TypeOK
    /\ PersistBeforePublish /\ PostsStored
    /\ VoiceEventsShaped
    /\ JoinInv

\* The step takes m of r from the channel broadcast, and c is in r.
TakenFor(c, r, m) ==
    /\ broadcast # <<>>
    /\ Head(broadcast) = [room |-> r, msg |-> m]
    /\ broadcast' = Tail(broadcast)
    /\ c \in rooms[r]

\* What a step may tell c.
Honest(c, e) ==
    /\ VoiceShape(e)
    /\ e.type = "chat_message" => e.arg \in messages /\ TakenFor(c, e.room, e.arg)
    /\ e.type = "error" => UNCHANGED registry
    /\ e.type = "room_joined" => c \in rooms'[e.room] \ rooms[e.room]

HonestOffer(out) ==
    \A c \in Clients : out[c] \in Seq(Events) /\ \A i \in DOMAIN out[c] : Honest(c, out[c][i])

-----------------------------------------------------------------------------
(* Sequences, and the bounded buffer of a client. *)

LEMMA HeadTailFacts ==
    ASSUME NEW S, NEW q \in Seq(S), q # <<>>
    PROVE /\ Head(q) = q[1] /\ Head(q) \in S /\ 1 \in DOMAIN q
          /\ Tail(q) \in Seq(S) /\ Len(Tail(q)) = Len(q) - 1
          /\ \A i \in DOMAIN Tail(q) : i + 1 \in DOMAIN q /\ Tail(q)[i] = q[i + 1]
OBVIOUS

\* An event offered is at the end of the buffer or is dropped; nothing else
\* changes in it.
LEMMA FitFacts ==
    ASSUME NEW q \in Seq(Events), NEW o \in Seq(Events), Len(q) <= SendCap
    PROVE /\ Fit(q \o o) \in Seq(Events)
          /\ Len(Fit(q \o o)) <= SendCap
          /\ \A i \in DOMAIN Fit(q \o o) :
                \/ i \in DOMAIN q /\ Fit(q \o o)[i] = q[i]
                \/ \E j \in DOMAIN o : Fit(q \o o)[i] = o[j]
          /\ Len(Fit(q \o o)) > Len(q) => \E j \in DOMAIN o : Last(Fit(q \o o)) = o[j]
          /\ ~(Len(q \o o) > SendCap) => Fit(q \o o) = q \o o
<1> DEFINE w == q \o o
           f == Fit(w)
<1>1. /\ w \in Seq(Events) /\ Len(w) = Len(q) + Len(o)
      /\ \A i \in DOMAIN q : w[i] = q[i]
      /\ \A i \in 1..Len(w) : i \notin DOMAIN q => w[i] = o[i - Len(q)] /\ i - Len(q) \in DOMAIN o
    OBVIOUS
<1>2. SendCap \in Nat
    BY HubAssumption
<1> HIDE DEF w
<1>3. /\ f \in Seq(Events) /\ Len(f) <= SendCap /\ Len(f) <= Len(w)
      /\ \A i \in DOMAIN f : i \in 1..Len(w) /\ f[i] = w[i]
    <2>1. CASE Len(w) <= SendCap
        <3>1. Fit(w) = w
            BY <2>1 DEF Fit
        <3>2. DOMAIN w = 1..Len(w) /\ Len(w) \in Nat
            BY <1>1
        <3>3. Fit(w) \in Seq(Events)
            BY <1>1, <3>1
        <3>4. Len(Fit(w)) = Len(w) /\ DOMAIN Fit(w) = 1..Len(w)
            BY <3>1, <3>2
        <3>5. \A i \in 1..Len(w) : Fit(w)[i] = w[i]
            BY <3>1
        <3> QED BY <2>1, <3>2, <3>3, <3>4, <3>5
    <2>2. CASE ~(Len(w) <= SendCap)
        <3>1. f = SubSeq(w, 1, SendCap)
            BY <2>2 DEF Fit
        <3>2. 1 \in 1..Len(w) + 1 /\ SendCap \in 0..Len(w)
            BY <1>1, <1>2, <2>2
        <3> QED BY <1>1, <1>2, <2>2, <3>1, <3>2, SubSeqProperties
    <2> QED BY <2>1, <2>2
<1> HIDE DEF f
<1>4. \A i \in DOMAIN f :
          \/ i \in DOMAIN q /\ f[i] = q[i]
          \/ i \notin DOMAIN q /\ \E j \in DOMAIN o : f[i] = o[j]
    BY <1>1, <1>3
<1>5. Len(f) > Len(q) => \E j \in DOMAIN o : Last(f) = o[j]
    <2> SUFFICES ASSUME Len(f) > Len(q) PROVE \E j \in DOMAIN o : Last(f) = o[j]
        OBVIOUS
    <2>1. Len(f) \in DOMAIN f /\ Len(f) \notin DOMAIN q
        BY <1>3
    <2> QED BY <1>4, <2>1 DEF Last
<1>6. ~(Len(w) > SendCap) => f = w
    <2>1. Len(w) \in Nat
        BY <1>1
    <2> QED BY <1>2, <2>1 DEF f, Fit
<1> QED BY <1>3, <1>4, <1>5, <1>6 DEF f, w

\* All buffers at once: select { case c.send <- data: default: }
LEMMA OfferFacts ==
    ASSUME OutboxTypeOK, NEW out, \A c \in Clients : out[c] \in Seq(Events), Offer(out)
    PROVE /\ OutboxTypeOK'
          /\ \A c \in Clients :
                /\ \A i \in DOMAIN send'[c] :
                      \/ i \in DOMAIN send[c] /\ send'[c][i] = send[c][i]
                      \/ \E j \in DOMAIN out[c] : send'[c][i] = out[c][j]
                /\ Len(send'[c]) > Len(send[c]) => \E j \in DOMAIN out[c] : Last(send'[c]) = out[c][j]
                /\ c \notin lagged' => send'[c] = send[c] \o out[c]
<1>1. \A c \in Clients : /\ send[c] \in Seq(Events) /\ Len(send[c]) <= SendCap
                         /\ send'[c] = Fit(send[c] \o out[c])
    BY DEF Offer, OutboxTypeOK
<1>2. \A c \in Clients :
          /\ send'[c] \in Seq(Events) /\ Len(send'[c]) <= SendCap
          /\ \A i \in DOMAIN send'[c] :
                \/ i \in DOMAIN send[c] /\ send'[c][i] = send[c][i]
                \/ \E j \in DOMAIN out[c] : send'[c][i] = out[c][j]
          /\ Len(send'[c]) > Len(send[c]) => \E j \in DOMAIN out[c] : Last(send'[c]) = out[c][j]
    <2> TAKE c \in Clients
    <2> QED BY <1>1, FitFacts
<1>3. \A c \in Clients : c \notin lagged' => send'[c] = send[c] \o out[c]
    <2> SUFFICES ASSUME NEW c \in Clients, c \notin lagged' PROVE send'[c] = send[c] \o out[c]
        OBVIOUS
    <2>1. ~(Len(send[c] \o out[c]) > SendCap)
        BY DEF Offer
    <2> QED BY <1>1, <2>1, FitFacts
<1>4. OutboxTypeOK'
    BY <1>2 DEF Offer, OutboxTypeOK
<1> QED BY <1>2, <1>3, <1>4

-----------------------------------------------------------------------------
(* What a step does to the outboxes. *)

Quiet  == UNCHANGED <<send, lagged>>
Offers == \E out : HonestOffer(out) /\ Offer(out)
Down   == \E why \in {"panicked", "killed"} : PodDown(why)
Writes == \E c \in Clients : Write(c)

\* One event for every client of a set.
LEMMA ToEachHonest ==
    ASSUME NEW S, NEW e \in Events, \A c \in Clients : c \in S => Honest(c, e)
    PROVE HonestOffer(ToEach(S, e))
<1> SUFFICES ASSUME NEW c \in Clients
             PROVE ToEach(S, e)[c] \in Seq(Events)
                   /\ \A i \in DOMAIN ToEach(S, e)[c] : Honest(c, ToEach(S, e)[c][i])
    BY DEF HonestOffer
<1>1. CASE c \in S
    <2>1. ToEach(S, e)[c] = <<e>>
        BY <1>1 DEF ToEach
    <2>2. <<e>> \in Seq(Events) /\ \A i \in DOMAIN <<e>> : <<e>>[i] = e
        OBVIOUS
    <2> QED BY <1>1, <2>1, <2>2
<1>2. CASE c \notin S
    <2>1. ToEach(S, e)[c] = <<>>
        BY <1>2 DEF ToEach
    <2>2. <<>> \in Seq(Events) /\ DOMAIN <<>> = {}
        OBVIOUS
    <2> QED BY <2>1, <2>2
<1> QED BY <1>1, <1>2

\* The events of the hub (hub.go:293-303).
LEMMA EventFacts ==
    /\ Error \in Events /\ Error.type = "error"
    /\ \A r \in Rooms, m \in Messages :
          LET e == Event("chat_message", r, m)
          IN  e \in Events /\ e.type = "chat_message" /\ e.arg = m /\ e.room = r
    /\ \A r \in Rooms, u \in Users \cup {NoUser}, t \in {"room_joined", "typing", "voice_signal",
                                                         "voice_joined", "voice_left"} :
          LET e == Event(t, r, u) IN e \in Events /\ e.type = t /\ e.room = r /\ e.arg = u
    /\ \A r \in Rooms, U \in SUBSET Users :
          LET e == Event("voice_participants", r, U)
          IN  e \in Events /\ e.type = "voice_participants" /\ e.room = r /\ e.arg = U
    /\ \A u \in Users : LET e == Event("presence", NoRoom, u) IN e \in Events /\ e.type = "presence"
BY DEF Error, Event, Events, EventTypes

LEMMA TypesOfInv ==
    ASSUME EventsInv
    PROVE /\ RegistryInv /\ LoopTypes /\ RegistryTypeOK /\ OutboxTypeOK /\ DurableTypeOK /\ PubSubTypeOK
          /\ UserOf \in [Clients -> Users]
          /\ broadcast \in Seq(Post)
          /\ asking \in {"nothing", "membership", "entry"} /\ witness \in BOOLEAN
BY HubAssumption DEF EventsInv, HubInv, RegistryInv, LoopTypes, TypeOK, ChannelsTypeOK

\* A handler that only replies (hub.go:114-134).
LEMMA ReplySends ==
    ASSUME NEW out, Reply(out), UNCHANGED registry => HonestOffer(out)
    PROVE Down \/ Offers
BY DEF Reply, SendOnly, Down, Offers

\* An error, a typing or a signal is honest wherever nothing has changed.
LEMMA PlainHonest ==
    ASSUME NEW c, NEW e, e.type \in {"typing", "voice_signal", "presence", "error"}, UNCHANGED registry
    PROVE Honest(c, e)
BY DEF Honest, VoiceShape

\* The order in which a disconnect goes through voice rooms takes each once.
LEMMA OrderFacts ==
    ASSUME NEW c \in Clients, NEW R \in SUBSET Rooms, NEW o \in SetToSeqs(R), EventsInv
    PROVE /\ VoiceLefts(c, o) \in Seq(Events) /\ DOMAIN VoiceLefts(c, o) = DOMAIN o
          /\ \A i \in DOMAIN o : /\ o[i] \in R
                                 /\ VoiceLefts(c, o)[i] = Event("voice_left", o[i], UserOf[c])
          /\ \A r \in R : \E i \in DOMAIN o : o[i] = r
<1> DEFINE n == Cardinality(R)
<1>1. IsFiniteSet(R) /\ n \in Nat
    BY HubAssumption, FS_Subset, FS_CardinalityType
<1>2. o \in [1..n -> R] /\ \A i, j \in 1..n : i # j => o[i] # o[j]
    BY DEF SetToSeqs
<1>3. IsFiniteSet(1..n) /\ Cardinality(1..n) = n
    BY <1>1, FS_Interval
<1>4. o \in Injection(1..n, R)
    BY <1>2, Fun_IsInj
<1>5. o \in Surjection(1..n, R)
    BY <1>1, <1>3, <1>4, FS_Injection
<1>6. \A r \in R : \E i \in 1..n : o[i] = r
    BY <1>5 DEF Surjection
<1>7. \A i \in 1..n : Event("voice_left", o[i], UserOf[c]) \in Events
    BY <1>2, EventFacts, TypesOfInv
<1>8. VoiceLefts(c, o) \in [1..n -> Events]
    BY <1>2, <1>7 DEF VoiceLefts
<1>9. VoiceLefts(c, o) \in Seq(Events)
    BY <1>1, <1>8 DEF Seq
<1> QED BY <1>2, <1>6, <1>9 DEF VoiceLefts

\* What a cleanup tells another client (hub.go:74-88).
LEMMA FarewellFacts ==
    ASSUME EventsInv, NEW c \in Clients, NEW p \in Clients, p # c, NEW o \in SetToSeqs(SharedVoice(c, p))
    PROVE /\ Farewell(c, p, o) \in Seq(Events)
          /\ \A i \in DOMAIN Farewell(c, p, o) : LET e == Farewell(c, p, o)[i] IN
                \/ e.type = "presence"
                \/ /\ e.type = "voice_left" /\ e.room \in SharedVoice(c, p) /\ e.arg = UserOf[c]
          /\ \A r \in SharedVoice(c, p) : \E i \in DOMAIN Farewell(c, p, o) :
                LET e == Farewell(c, p, o)[i] IN e.type = "voice_left" /\ e.room = r /\ e.arg = UserOf[c]
<1> DEFINE R == SharedVoice(c, p)
           v == VoiceLefts(c, o)
           e0 == Event("presence", NoRoom, UserOf[c])
           rest == IF p \in RoomPeers(c) THEN <<e0>> ELSE <<>>
<1>1. R \in SUBSET Rooms /\ UserOf[c] \in Users
    BY TypesOfInv DEF SharedVoice
<1>2. /\ v \in Seq(Events) /\ DOMAIN v = DOMAIN o
      /\ \A i \in DOMAIN o : o[i] \in R /\ v[i] = Event("voice_left", o[i], UserOf[c])
      /\ \A r \in R : \E i \in DOMAIN o : o[i] = r
    BY <1>1, OrderFacts
<1>3. rest \in Seq(Events) /\ \A i \in DOMAIN rest : rest[i].type = "presence"
    BY <1>1, EventFacts
<1>4. \A i \in DOMAIN v : v[i].type = "voice_left" /\ v[i].room \in R /\ v[i].arg = UserOf[c]
                          /\ v[i].room = o[i]
    <2> SUFFICES ASSUME NEW i \in DOMAIN v
                 PROVE v[i].type = "voice_left" /\ v[i].room \in R /\ v[i].arg = UserOf[c]
                       /\ v[i].room = o[i]
        OBVIOUS
    <2>1. o[i] \in R /\ o[i] \in Rooms /\ v[i] = Event("voice_left", o[i], UserOf[c])
        BY <1>1, <1>2
    <2> QED BY <1>1, <2>1, EventFacts
<1>5. Farewell(c, p, o) = v \o rest
    BY DEF Farewell
<1> HIDE DEF v, rest, R
<1>6. /\ v \o rest \in Seq(Events)
      /\ \A i \in DOMAIN v : i \in DOMAIN (v \o rest) /\ (v \o rest)[i] = v[i]
      /\ \A i \in DOMAIN (v \o rest) : i \notin DOMAIN v =>
            i - Len(v) \in DOMAIN rest /\ (v \o rest)[i] = rest[i - Len(v)]
    BY <1>2, <1>3
<1>7. \A i \in DOMAIN (v \o rest) : LET e == (v \o rest)[i] IN
          \/ e.type = "presence"
          \/ e.type = "voice_left" /\ e.room \in R /\ e.arg = UserOf[c]
    BY <1>3, <1>4, <1>6
<1>8. \A r \in R : \E i \in DOMAIN (v \o rest) : LET e == (v \o rest)[i] IN
          e.type = "voice_left" /\ e.room = r /\ e.arg = UserOf[c]
    BY <1>2, <1>4, <1>6
<1> QED BY <1>5, <1>6, <1>7, <1>8 DEF R

\* A connection is cleaned up (hub.go:72-89).
LEMMA CleanupSends ==
    ASSUME EventsInv, NEW c \in Clients, Cleanup(c) PROVE Down \/ Offers
<1>1. PICK order \in [Clients -> SetToAllKPermutations({r \in Rooms : c \in voiceRooms[r]})] :
        /\ \A p \in Clients : order[p] \in SetToSeqs(SharedVoice(c, p))
        /\ \/ PodDown("panicked")
           \/ Offer([p \in Clients |-> Farewell(c, p, order[p])])
    BY DEF Cleanup
<1> DEFINE out == [p \in Clients |-> Farewell(c, p, order[p])]
<1>2. \A p \in Clients : out[p] \in Seq(Events) /\ \A i \in DOMAIN out[p] : Honest(p, out[p][i])
    <2> TAKE p \in Clients
    <2>1. CASE p = c
        <3>1. out[p] = <<>>
            BY <2>1 DEF Farewell
        <3> QED BY <3>1
    <2>2. CASE p # c
        <3> DEFINE f == Farewell(c, p, order[p])
        <3>1. /\ f \in Seq(Events)
              /\ \A i \in DOMAIN f :
                    \/ f[i].type = "presence"
                    \/ f[i].type = "voice_left" /\ f[i].room \in SharedVoice(c, p) /\ f[i].arg = UserOf[c]
            BY <1>1, <2>2, FarewellFacts
        <3>2. SharedVoice(c, p) \subseteq Rooms /\ UserOf[c] \in Users
            BY TypesOfInv DEF SharedVoice
        <3> HIDE DEF f
        <3>3. \A i \in DOMAIN f : Honest(p, f[i])
            BY <3>1, <3>2 DEF Honest, VoiceShape
        <3> QED BY <3>1, <3>3 DEF f
    <2> QED BY <2>1, <2>2
<1> HIDE DEF out
<1>3. HonestOffer(out)
    BY <1>2 DEF HonestOffer
<1>4. PodDown("panicked") \/ Offer(out)
    BY <1>1 DEF out
<1> QED BY <1>3, <1>4 DEF Down, Offers

\* room_joined comes with the entry on both sides (hub.go:163-187).
LEMMA EnterSends ==
    ASSUME EventsInv, NEW c \in Clients, NEW r \in Rooms, r \notin joined[c], Enter(c, r)
    PROVE Down \/ Offers
<1> DEFINE e == Event("room_joined", r, NoUser)
           out == ToEach({c}, e)
<1>1. CASE PodDown("panicked")
    BY <1>1 DEF Down
<1>2. CASE rooms' = [rooms EXCEPT ![r] = @ \cup {c}] /\ Offer(out)
    <2>1. c \notin rooms[r] /\ c \in rooms'[r]
        BY <1>2, TypesOfInv DEF RegistryInv, MembershipAgrees, RegistryTypeOK
    <2>2. e \in Events /\ e.type = "room_joined" /\ e.room = r
        BY EventFacts
    <2>3. Honest(c, e)
        BY <2>1, <2>2 DEF Honest, VoiceShape
    <2>4. \A d \in Clients : d \in {c} => Honest(d, e)
        BY <2>3
    <2> HIDE DEF e
    <2>5. HonestOffer(out)
        BY <2>2, <2>4, ToEachHonest
    <2> QED BY <1>2, <2>5 DEF Offers
<1> QED BY <1>1, <1>2 DEF Enter

\* The participants to the one who joins, voice_joined to them (hub.go:248-273).
LEMMA VoiceJoinSends ==
    ASSUME EventsInv, NEW c \in Clients, NEW r \in Rooms, HandleVoiceJoin(c, r)
    PROVE Down \/ Offers
<1> DEFINE peers == voiceRooms[r] \ {c}
           U == {UserOf[q] : q \in peers}
           e1 == Event("voice_participants", r, U)
           e2 == Event("voice_joined", r, UserOf[c])
           out == [p \in Clients |-> IF p = c THEN <<e1>> ELSE IF p \in peers THEN <<e2>> ELSE <<>>]
<1>1. PodDown("panicked") \/ Offer(out)
    BY DEF HandleVoiceJoin
<1>2. U \in SUBSET Users /\ UserOf[c] \in Users
    BY TypesOfInv DEF RegistryTypeOK
<1> HIDE DEF U
<1>3. e1 \in Events /\ e1.type = "voice_participants" /\ e1.room = r /\ e1.arg \in SUBSET Users
    BY <1>2, EventFacts
<1>4. e2 \in Events /\ e2.type = "voice_joined" /\ e2.room = r /\ e2.arg \in Users
    BY <1>2, EventFacts
<1> HIDE DEF e1, e2
<1>5. \A p \in Clients : Honest(p, e1) /\ Honest(p, e2)
    BY <1>3, <1>4 DEF Honest, VoiceShape
<1>6. \A p \in Clients : out[p] \in Seq(Events) /\ \A i \in DOMAIN out[p] : Honest(p, out[p][i])
    <2> TAKE p \in Clients
    <2>1. out[p] = <<e1>> \/ out[p] = <<e2>> \/ out[p] = <<>>
        OBVIOUS
    <2> HIDE DEF out
    <2>2. ASSUME NEW e \in Events, Honest(p, e), out[p] = <<e>>
          PROVE out[p] \in Seq(Events) /\ \A i \in DOMAIN out[p] : Honest(p, out[p][i])
        <3>1. <<e>> \in Seq(Events) /\ \A i \in DOMAIN <<e>> : <<e>>[i] = e
            OBVIOUS
        <3> QED BY <2>2, <3>1
    <2>3. <<>> \in Seq(Events) /\ DOMAIN <<>> = {}
        OBVIOUS
    <2> QED BY <1>3, <1>4, <1>5, <2>1, <2>2, <2>3
<1> HIDE DEF out
<1>7. HonestOffer(out)
    BY <1>6 DEF HonestOffer
<1> QED BY <1>1, <1>7 DEF Offers, Down

\* voice_left to the others of the voice room (hub.go:275-289).
LEMMA VoiceLeaveSends ==
    ASSUME EventsInv, NEW c \in Clients, NEW r \in Rooms, HandleVoiceLeave(c, r)
    PROVE Down \/ Offers
<1> DEFINE e == Event("voice_left", r, UserOf[c])
           out == ToEach(voiceRooms[r] \ {c}, e)
<1>1. PodDown("panicked") \/ Offer(out)
    BY DEF HandleVoiceLeave
<1>2. UserOf[c] \in Users
    BY TypesOfInv
<1>3. e \in Events /\ e.type = "voice_left" /\ e.room = r /\ e.arg = UserOf[c]
    BY <1>2, EventFacts
<1> HIDE DEF e
<1>4. \A d \in Clients : Honest(d, e)
    BY <1>2, <1>3 DEF Honest, VoiceShape
<1>5. HonestOffer(out)
    BY <1>3, <1>4, ToEachHonest
<1> QED BY <1>1, <1>5 DEF Offers, Down

\* Every message type (hub.go:114-134).
LEMMA IncomingSends == ASSUME EventsInv, HandleIncoming PROVE Quiet \/ Down \/ Offers
<1> DEFINE c == Head(incoming).client
           r == Head(incoming).room
           target == Head(incoming).target
<1>1. c \in Clients /\ r \in Rooms /\ UserOf[c] \in Users /\ incoming # <<>>
    <2>1. incoming # <<>>
        BY DEF HandleIncoming
    <2>2. Head(incoming) \in Envelope
        BY <2>1, TypesOfInv DEF LoopTypes
    <2> QED BY <2>1, <2>2, TypesOfInv DEF Envelope
<1> HIDE DEF c, r, target
<1>2. ASSUME NEW S, Reply(ToEach(S, Error)) PROVE Down \/ Offers
    <2>1. UNCHANGED registry => HonestOffer(ToEach(S, Error))
        BY EventFacts, PlainHonest, ToEachHonest
    <2> QED BY <1>2, <2>1, ReplySends
<1>3. CASE JoinRoom(c, r)
    <2>1. CASE Onward(c, r)
        BY <2>1 DEF Onward, outbox, Quiet
    <2>2. CASE asking = "entry" /\ Enter(c, r)
        <3>1. r \notin joined[c]
            BY <2>2 DEF EventsInv, JoinInv, JoinUnderWay, c, r
        <3> QED BY <1>1, <2>2, <3>1, EnterSends
    <2> QED BY <1>2, <1>3, <2>1, <2>2, JoinSteps
<1>4. CASE LeaveRoom(c, r)
    BY <1>4 DEF LeaveRoom, Quiet, outbox
<1>5. CASE HandleChat(c, r)
    BY <1>2, <1>5 DEF HandleChat, Quiet, outbox
<1>6. ASSUME NEW S, NEW t \in {"typing", "voice_signal"}, Reply(ToEach(S, Event(t, r, UserOf[c])))
      PROVE Down \/ Offers
    <2> DEFINE e == Event(t, r, UserOf[c])
    <2>1. e \in Events /\ e.type = t
        BY <1>1, EventFacts
    <2> HIDE DEF e
    <2>2. UNCHANGED registry => \A d \in Clients : Honest(d, e)
        BY <2>1, PlainHonest
    <2>3. UNCHANGED registry => HonestOffer(ToEach(S, e))
        BY <2>1, <2>2, ToEachHonest
    <2> QED BY <1>6, <2>3, ReplySends DEF e
<1>7. CASE HandleTyping(c, r)
    BY <1>6, <1>7 DEF HandleTyping
<1>8. CASE HandleVoiceJoin(c, r)
    BY <1>1, <1>8, VoiceJoinSends
<1>9. CASE HandleVoiceLeave(c, r)
    BY <1>1, <1>9, VoiceLeaveSends
<1>10. CASE RelayVoiceSignal(c, r, target)
    BY <1>2, <1>6, <1>10 DEF RelayVoiceSignal
<1>11. CASE Reply(ToEach({}, Error))
    BY <1>2, <1>11
<1> QED BY <1>3, <1>4, <1>5, <1>7, <1>8, <1>9, <1>10, <1>11 DEF HandleIncoming, c, r, target

\* deliverLocal hands on what was stored (hub.go:94-95, :239-246).
LEMMA BroadcastSends == ASSUME EventsInv, HandleBroadcast PROVE Down \/ Offers
<1> DEFINE bm == Head(broadcast)
           e == Event("chat_message", bm.room, bm.msg)
           out == ToEach(rooms[bm.room], e)
<1>1. bm = broadcast[1] /\ 1 \in DOMAIN broadcast /\ bm \in Post
    BY TypesOfInv, HeadTailFacts DEF HandleBroadcast
<1>2. bm.room \in Rooms /\ bm.msg \in Messages /\ bm.msg \in messages
    BY <1>1 DEF EventsInv, PersistBeforePublish, Post
<1>3. Down \/ (Offer(out) /\ broadcast' = Tail(broadcast))
    BY DEF HandleBroadcast, AtSelect, SendOnly, Down
<1>4. /\ e \in Events /\ e.type = "chat_message"
      /\ e.arg = bm.msg /\ e.room = bm.room
    BY <1>2, EventFacts
<1>5. bm = [room |-> e.room, msg |-> e.arg] /\ bm = Head(broadcast) /\ broadcast # <<>>
    BY <1>1, <1>4 DEF HandleBroadcast, Post
<1> HIDE DEF e, bm
<1>6. ASSUME broadcast' = Tail(broadcast) PROVE HonestOffer(out)
    <2>1. \A d \in Clients : d \in rooms[bm.room] => Honest(d, e)
        BY <1>2, <1>4, <1>5, <1>6 DEF Honest, VoiceShape, TakenFor
    <2> QED BY <1>4, <2>1, ToEachHonest
<1> QED BY <1>3, <1>6 DEF Offers

\* Every step does one of four things to the outboxes.
LEMMA StepSends == ASSUME EventsInv, [Next]_vars PROVE Quiet \/ Down \/ Writes \/ Offers
<1>1. ASSUME NEW c \in Clients,
             \/ Connect(c) \/ Disconnect(c) \/ WriterStops(c)
             \/ \E t \in MessageTypes, r \in Rooms, u \in Users \cup {NoUser} : ReadMessage(c, t, r, u)
      PROVE Quiet
    BY <1>1 DEF Connect, Disconnect, WriterStops, ReadMessage, outbox, Quiet
<1>2. ASSUME NEW c \in Clients, ReadInvalid(c) PROVE Down \/ Offers
    <2>1. UNCHANGED registry => HonestOffer(ToEach({c}, Error))
        BY EventFacts, PlainHonest, ToEachHonest
    <2> QED BY <1>2, <2>1 DEF ReadInvalid, Down, Offers
<1>3. CASE HandleRegister
    BY <1>3 DEF HandleRegister, AtSelect, outbox, Quiet
<1>4. CASE HandleUnregister
    <2>1. Head(unregister) \in Clients
        BY <1>4, TypesOfInv, HeadTailFacts DEF HandleUnregister, AtSelect, LoopTypes
    <2> QED BY <1>4, <2>1, CleanupSends DEF HandleUnregister, AtSelect, outbox, Quiet
<1>5. ASSUME NEW s \in Subs, Feeds(s) PROVE Quiet
    BY <1>5 DEF Feeds, FeedStarts, FeedRecords, FeedReturns, FeedAcked, FeedDrops, ForwardToHub,
       NotFeeds, outbox, Quiet
<1>6. ASSUME \/ \E r \in Rooms, m \in Messages : HttpStore(r, m)
             \/ \E p \in Post : HttpPublish(p)
             \/ \E r \in Rooms : RoomDeleted(r)
             \/ \E r \in Rooms, u \in Users : MembersChange(r, u)
             \/ \E u \in Users : PresenceExpires(u) \/ PresenceElsewhere(u)
             \/ Restart
             \/ UNCHANGED vars
      PROVE Quiet
    BY <1>6 DEF HttpStore, HttpPublish, RoomDeleted, MembersChange, PresenceExpires, PresenceElsewhere, Restart, vars, outbox, Quiet
<1>7. CASE PodKilled
    BY <1>7 DEF PodKilled, Down
<1> QED BY <1>1, <1>2, <1>3, <1>4, <1>5, <1>6, <1>7, IncomingSends, BroadcastSends
       DEF Next, OtherStep, Writes

-----------------------------------------------------------------------------
(* What a step does to the messages on their way: those in the feeds and in  *)
(* the channel broadcast.                                                    *)

Still == UNCHANGED <<msgCh, broadcast>>
Published == \E r \in Rooms, m \in Messages \cap messages' : Publish(r, m) /\ UNCHANGED broadcast
Dropped == \E s \in Subs : RedisDrop(s) /\ UNCHANGED broadcast
Forwarded == \E s \in Subs : ForwardToHub(s)
Delivered == HandleBroadcast /\ broadcast' = Tail(broadcast) /\ UNCHANGED msgCh

Moves == Still \/ Down \/ Published \/ Dropped \/ Forwarded \/ Delivered

LEMMA ReplyIsStill == ASSUME NEW out, Reply(out) PROVE Still \/ Down
BY DEF Reply, SendOnly, Popped, pubsubVars, Still, Down

\* Messages are only added to the table and only steps that store one publish
\* it (hub.go:202-222, message_handler.go:84-110).
LEMMA StepMoves == ASSUME EventsInv, [Next]_vars PROVE Moves /\ messages \subseteq messages'
<1>1. ASSUME NEW c \in Clients,
             \/ Connect(c) \/ ReadInvalid(c) \/ Disconnect(c) \/ WriterStops(c) \/ Write(c)
             \/ \E t \in MessageTypes, r \in Rooms, u \in Users \cup {NoUser} : ReadMessage(c, t, r, u)
      PROVE (Still \/ Down) /\ UNCHANGED messages
    BY <1>1 DEF Connect, ReadInvalid, Disconnect, WriterStops, Write, ReadMessage, channels, durable,
       pubsubVars, Still, Down
<1>2. CASE HandleRegister
    BY <1>2 DEF HandleRegister, AtSelect, pubsubVars, Still, Moves
<1>3. CASE HandleUnregister
    <2>1. CASE Head(unregister) \in clients
        BY <1>3, <2>1 DEF HandleUnregister, AtSelect, Cleanup, LeaveRooms, Unsubscribe, Still, Down, Moves
    <2>2. CASE Head(unregister) \notin clients
        BY <1>3, <2>2 DEF HandleUnregister, AtSelect, pubsubVars, durable, Still, Moves
    <2> QED BY <2>1, <2>2
<1>4. CASE HandleIncoming
    <2>1. ASSUME NEW c, NEW r, JoinRoom(c, r) PROVE (Still \/ Down) /\ UNCHANGED messages
        BY <2>1, JoinSteps, ReplyIsStill
           DEF Onward, Enter, Popped, durable, Spawn, pubsubVars, Still, Down
    <2>2. ASSUME NEW c, NEW r, LeaveRoom(c, r) PROVE Still /\ UNCHANGED messages
        BY <2>2 DEF LeaveRoom, LeaveRooms, Unsubscribe, Popped, durable, Still
    <2>3. ASSUME NEW c, NEW r \in Rooms, HandleChat(c, r) PROVE Moves /\ messages \subseteq messages'
        <3>1. ASSUME NEW m \in FreshMessages, messages' = messages \cup {m},
                     MayFail(Publish(r, m), UNCHANGED pubsubVars), Popped
              PROVE Moves
            BY <3>1 DEF FreshMessages, MayFail, Popped, pubsubVars, Still, Published, Moves
        <3>2. ASSUME Reply(ToEach({c}, Error)) PROVE Moves
            BY <3>2, ReplyIsStill DEF Moves
        <3> QED BY <2>3, <3>1, <3>2 DEF HandleChat, durable
    <2>4. ASSUME NEW c, NEW r, HandleTyping(c, r) PROVE (Still \/ Down) /\ UNCHANGED messages
        BY <2>4, ReplyIsStill DEF HandleTyping, durable
    <2>5. ASSUME NEW c, NEW r, HandleVoiceJoin(c, r) \/ HandleVoiceLeave(c, r)
          PROVE (Still \/ Down) /\ UNCHANGED messages
        BY <2>5 DEF HandleVoiceJoin, HandleVoiceLeave, Popped, durable, pubsubVars, Still, Down
    <2>6. ASSUME NEW c, NEW r, NEW u, RelayVoiceSignal(c, r, u)
          PROVE (Still \/ Down) /\ UNCHANGED messages
        BY <2>6, ReplyIsStill DEF RelayVoiceSignal, durable
    <2>7. Head(incoming) \in Envelope
        BY <1>4, TypesOfInv, HeadTailFacts DEF HandleIncoming, LoopTypes
    <2>8. Head(incoming).room \in Rooms
        BY <2>7 DEF Envelope
    <2> QED BY <1>4, <2>1, <2>2, <2>3, <2>4, <2>5, <2>6, <2>8, ReplyIsStill
            DEF HandleIncoming, durable, Moves
<1>5. CASE HandleBroadcast
    BY <1>5 DEF HandleBroadcast, AtSelect, SendOnly, durable, pubsubVars, Delivered, Down, Moves
<1>6. ASSUME NEW s \in Subs, Feeds(s) PROVE Moves /\ UNCHANGED messages
    BY <1>6 DEF Feeds, FeedStarts, FeedRecords, FeedReturns, FeedAcked, FeedDrops, ForwardToHub,
       NotFeeds, channels, durable, SubscribeSend, Record, SubscribeReturn, RedisAck,
       Still, Dropped, Forwarded, Moves
<1>7. ASSUME NEW p \in Post, HttpPublish(p) PROVE Moves /\ messages \subseteq messages'
    <2>1. p.room \in Rooms /\ p.msg \in Messages
        BY DEF Post
    <2>2. p.msg \in messages /\ UNCHANGED messages
        BY <1>7 DEF HttpPublish, EventsInv, PostsStored
    <2> QED BY <1>7, <2>1, <2>2 DEF HttpPublish, MayFail, channels, pubsubVars, Still, Published, Moves
<1>71. ASSUME NEW r \in Rooms, NEW m \in Messages, HttpStore(r, m)
       PROVE Still /\ messages \subseteq messages'
    BY <1>71 DEF HttpStore, channels, pubsubVars, Still
<1>8. ASSUME \/ \E r \in Rooms : RoomDeleted(r)
             \/ \E r \in Rooms, u \in Users : MembersChange(r, u)
             \/ \E u \in Users : PresenceExpires(u) \/ PresenceElsewhere(u)
             \/ Restart \/ PodKilled
             \/ UNCHANGED vars
       PROVE (Still \/ Down) /\ UNCHANGED messages
    BY <1>8 DEF RoomDeleted, MembersChange, PresenceExpires, PresenceElsewhere, Restart, PodKilled, vars, channels,
       durable, pubsubVars, Still, Down
<1> QED BY <1>1, <1>2, <1>3, <1>4, <1>5, <1>6, <1>7, <1>71, <1>8 DEF Next, OtherStep, Moves

\* What the hub has to deliver names rooms and messages that are stored.
BroadcastOK == broadcast \in Seq(Post)

Carried ==
    /\ \A s \in Subs : \A i \in DOMAIN msgCh[s] : msgCh[s][i] \in messages
    /\ \A i \in DOMAIN broadcast : broadcast[i].msg \in messages

LEMMA MovesCarried ==
    ASSUME EventsInv, Moves, messages \subseteq messages' PROVE BroadcastOK' /\ Carried'
<1>1. BroadcastOK /\ Carried /\ PubSubTypeOK
    BY TypesOfInv DEF EventsInv, PersistBeforePublish, BroadcastOK, Carried
<1>2. CASE Still
    BY <1>1, <1>2 DEF Still, BroadcastOK, Carried
<1>3. CASE Down
    BY <1>3 DEF Down, PodDown, PubSubReset, BroadcastOK, Carried
<1>4. CASE Published
    <2>1. PICK r \in Rooms, m \in Messages \cap messages' : Publish(r, m) /\ UNCHANGED broadcast
        BY <1>4 DEF Published
    <2>2. \A s \in Subs : msgCh'[s] = Append(msgCh[s], m) \/ msgCh'[s] = msgCh[s]
        BY <2>1 DEF Publish
    <2>3. \A s \in Subs : \A i \in DOMAIN msgCh'[s] : msgCh'[s][i] \in messages'
        <3> TAKE s \in Subs
        <3>1. msgCh[s] \in Seq(Messages) /\ \A i \in DOMAIN msgCh[s] : msgCh[s][i] \in messages'
            BY <1>1 DEF PubSubTypeOK, Carried
        <3> QED BY <2>1, <2>2, <3>1
    <2> QED BY <1>1, <2>1, <2>3 DEF BroadcastOK, Carried
<1>5. CASE Dropped
    <2>1. PICK s \in Subs : RedisDrop(s) /\ UNCHANGED broadcast
        BY <1>5 DEF Dropped
    <2>2. PICK n \in 0..Len(msgCh[s]) : msgCh' = [msgCh EXCEPT ![s] = SubSeq(@, 1, n)]
        BY <2>1 DEF RedisDrop
    <2>3. \A q \in Subs : \A i \in DOMAIN msgCh'[q] : msgCh'[q][i] \in messages'
        <3> TAKE q \in Subs
        <3>1. msgCh[q] \in Seq(Messages) /\ \A i \in DOMAIN msgCh[q] : msgCh[q][i] \in messages'
            BY <1>1 DEF PubSubTypeOK, Carried
        <3>2. msgCh'[q] = IF q = s THEN SubSeq(msgCh[s], 1, n) ELSE msgCh[q]
            BY <1>1, <2>2 DEF PubSubTypeOK
        <3> QED BY <2>2, <3>1, <3>2
    <2> QED BY <1>1, <2>1, <2>3 DEF BroadcastOK, Carried
<1>6. CASE Forwarded
    <2>1. PICK s \in Subs : ForwardToHub(s)
        BY <1>6 DEF Forwarded
    <2>2. feedRoom[s] \in Rooms
        BY <2>1 DEF ForwardToHub, Forward, EventsInv, HubInv, FP!FeedInv, FP!SlotsServe
    <2>3. msgCh[s] \in Seq(Messages) /\ msgCh[s] # <<>>
        BY <1>1, <2>1 DEF ForwardToHub, Forward, PubSubTypeOK
    <2>4. Head(msgCh[s]) \in Messages /\ Head(msgCh[s]) = msgCh[s][1] /\ 1 \in DOMAIN msgCh[s]
        BY <2>3, HeadTailFacts
    <2>5. Head(msgCh[s]) \in messages
        BY <1>1, <2>4 DEF Carried
    <2> DEFINE bm == [room |-> feedRoom[s], msg |-> Head(msgCh[s])]
    <2>6. broadcast' = Append(broadcast, bm) /\ msgCh' = [msgCh EXCEPT ![s] = Tail(@)]
        BY <2>1 DEF ForwardToHub, Forward
    <2>7. bm \in Post /\ bm.msg \in messages
        BY <2>2, <2>4, <2>5 DEF Post
    <2> HIDE DEF bm
    <2>8. BroadcastOK' /\ \A i \in DOMAIN broadcast' : broadcast'[i].msg \in messages'
        BY <1>1, <2>6, <2>7 DEF BroadcastOK, Carried
    <2>9. \A q \in Subs : \A i \in DOMAIN msgCh'[q] : msgCh'[q][i] \in messages'
        <3> TAKE q \in Subs
        <3>1. \A i \in DOMAIN msgCh[q] : msgCh[q][i] \in messages'
            BY <1>1 DEF Carried
        <3>2. msgCh'[q] = IF q = s THEN Tail(msgCh[s]) ELSE msgCh[q]
            BY <1>1, <2>6 DEF PubSubTypeOK
        <3>3. \A i \in DOMAIN Tail(msgCh[s]) :
                  i + 1 \in DOMAIN msgCh[s] /\ Tail(msgCh[s])[i] = msgCh[s][i + 1]
            BY <2>3, HeadTailFacts
        <3> QED BY <3>1, <3>2, <3>3
    <2> QED BY <2>8, <2>9 DEF Carried
<1>7. CASE Delivered
    <2>1. /\ Tail(broadcast) \in Seq(Post)
          /\ \A i \in DOMAIN Tail(broadcast) :
                i + 1 \in DOMAIN broadcast /\ Tail(broadcast)[i] = broadcast[i + 1]
        BY <1>1, <1>7, HeadTailFacts DEF Delivered, HandleBroadcast, BroadcastOK
    <2> QED BY <1>1, <1>7, <2>1 DEF Delivered, BroadcastOK, Carried
<1> QED BY <1>2, <1>3, <1>4, <1>5, <1>6, <1>7 DEF Moves

-----------------------------------------------------------------------------
(* The invariant is inductive. *)

StatusOK == status \in {"running", "panicked", "killed"}

\* A call that fails leaves a table as it was or has changed it all the same.
LEMMA DurableStep == ASSUME EventsInv, [Next]_vars PROVE StatusOK' /\ DurableTypeOK'
<1>1. StatusOK /\ DurableTypeOK /\ UserOf \in [Clients -> Users]
    BY HubAssumption DEF EventsInv, TypeOK, StatusOK
<1>2. ASSUME UNCHANGED durable PROVE DurableTypeOK'
    BY <1>1, <1>2 DEF durable, DurableTypeOK
<1>3. ASSUME UNCHANGED status \/ PodDown("panicked") \/ PodDown("killed") PROVE StatusOK'
    BY <1>1, <1>3 DEF PodDown, StatusOK
<1>4. ASSUME NEW out, Reply(out) PROVE StatusOK'
    BY <1>3, <1>4 DEF Reply, SendOnly
<1>5. ASSUME NEW c \in Clients,
             \/ Connect(c) \/ ReadInvalid(c) \/ Disconnect(c) \/ WriterStops(c) \/ Write(c)
             \/ \E t \in MessageTypes, r \in Rooms, u \in Users \cup {NoUser} : ReadMessage(c, t, r, u)
      PROVE StatusOK' /\ DurableTypeOK'
    BY <1>2, <1>3, <1>5 DEF Connect, ReadInvalid, Disconnect, WriterStops, Write, ReadMessage
<1>6. CASE HandleRegister
    <2>1. Head(register) \in Clients
        BY <1>6, TypesOfInv, HeadTailFacts DEF HandleRegister, AtSelect, LoopTypes
    <2> QED BY <1>1, <1>3, <1>6, <2>1 DEF HandleRegister, AtSelect, MayFail, DurableTypeOK
<1>7. CASE HandleUnregister
    <2>1. StatusOK'
        BY <1>3, <1>7 DEF HandleUnregister, AtSelect, Cleanup
    <2> QED BY <1>1, <1>2, <1>7, <2>1 DEF HandleUnregister, AtSelect, MayFail, DurableTypeOK
<1>8. CASE HandleIncoming
    <2> DEFINE c == Head(incoming).client
               r == Head(incoming).room
               target == Head(incoming).target
    <2>1. c \in Clients /\ r \in Rooms
        <3>1. Head(incoming) \in Envelope
            BY <1>8, TypesOfInv, HeadTailFacts DEF HandleIncoming, LoopTypes
        <3> QED BY <3>1 DEF Envelope
    <2> HIDE DEF c, r, target
    <2>2. CASE JoinRoom(c, r)
        <3>1. CASE UNCHANGED durable /\ \E out : Reply(out)
            BY <1>2, <1>4, <3>1
        <3>2. CASE Enter(c, r)
            BY <1>2, <1>3, <3>2 DEF Enter
        <3>3. CASE Onward(c, r)
            BY <1>1, <1>3, <2>1, <3>3 DEF Onward, DurableTypeOK
        <3> QED BY <2>2, <3>1, <3>2, <3>3, JoinSteps
    <2>3. CASE LeaveRoom(c, r)
        BY <1>2, <1>3, <2>3 DEF LeaveRoom
    <2>4. CASE HandleChat(c, r)
        <3>1. StatusOK'
            BY <1>3, <1>4, <2>4 DEF HandleChat
        <3>2. UNCHANGED durable \/ (UNCHANGED <<presence, exists, members, posted>> /\ \E m \in FreshMessages : messages' = messages \cup {m})
            BY <2>4 DEF HandleChat, durable
        <3> QED BY <1>1, <1>2, <3>1, <3>2 DEF DurableTypeOK, FreshMessages
    <2>5. CASE HandleTyping(c, r) \/ RelayVoiceSignal(c, r, target)
        BY <1>2, <1>4, <2>5 DEF HandleTyping, RelayVoiceSignal
    <2>6. CASE HandleVoiceJoin(c, r) \/ HandleVoiceLeave(c, r)
        BY <1>2, <1>3, <2>6 DEF HandleVoiceJoin, HandleVoiceLeave
    <2>7. CASE Reply(ToEach({}, Error)) /\ UNCHANGED durable
        BY <1>2, <1>4, <2>7
    <2> QED BY <1>8, <2>2, <2>3, <2>4, <2>5, <2>6, <2>7 DEF HandleIncoming, c, r, target
<1>9. CASE HandleBroadcast
    BY <1>2, <1>3, <1>9 DEF HandleBroadcast, AtSelect, SendOnly
<1>10. ASSUME NEW s \in Subs, Feeds(s) PROVE StatusOK' /\ DurableTypeOK'
    <2>1. UNCHANGED <<status, durable>>
        BY <1>10 DEF Feeds, FeedStarts, FeedRecords, FeedReturns, FeedAcked, FeedDrops, ForwardToHub,
           NotFeeds
    <2> QED BY <1>2, <1>3, <2>1
<1>11. ASSUME \/ \E r \in Rooms, m \in Messages : HttpStore(r, m)
              \/ \E p \in Post : HttpPublish(p)
              \/ \E r \in Rooms : RoomDeleted(r)
              \/ \E r \in Rooms, u \in Users : MembersChange(r, u)
              \/ \E u \in Users : PresenceExpires(u) \/ PresenceElsewhere(u)
       PROVE StatusOK' /\ DurableTypeOK'
    BY <1>1, <1>3, <1>11 DEF HttpStore, HttpPublish, RoomDeleted, MembersChange, PresenceExpires,
       PresenceElsewhere, Post, DurableTypeOK
<1>12. CASE PodKilled \/ Restart \/ UNCHANGED vars
    BY <1>1, <1>2, <1>3, <1>12 DEF PodKilled, Restart, vars, StatusOK
<1> QED BY <1>5, <1>6, <1>7, <1>8, <1>9, <1>10, <1>11, <1>12 DEF Next, OtherStep

\* What waits for the writers.
Waiting ==
    /\ OutboxTypeOK
    /\ \A c \in Clients : \A i \in DOMAIN send[c] :
          /\ send[c][i].type = "chat_message" => send[c][i].arg \in messages
          /\ VoiceShape(send[c][i])

LEMMA SendsWaiting ==
    ASSUME EventsInv, Quiet \/ Down \/ Writes \/ Offers, messages \subseteq messages'
    PROVE Waiting'
<1>1. Waiting
    BY TypesOfInv DEF EventsInv, PersistBeforePublish, VoiceEventsShaped, Waiting
<1>2. CASE Quiet
    BY <1>1, <1>2 DEF Quiet, Waiting, OutboxTypeOK, VoiceShape
<1>3. CASE Down
    <2>1. SendCap \in Nat
        BY HubAssumption
    <2> QED BY <1>3, <2>1 DEF Down, PodDown, Waiting, OutboxTypeOK
<1>4. CASE Writes
    <2>1. PICK c \in Clients : Write(c)
        BY <1>4 DEF Writes
    <2>2. send' = [send EXCEPT ![c] = Tail(@)] /\ send[c] # <<>> /\ lagged' = lagged
        BY <2>1 DEF Write
    <2>3. \A d \in Clients : send[d] \in Seq(Events) /\ Len(send[d]) <= SendCap
        BY <1>1 DEF Waiting, OutboxTypeOK
    <2>4. /\ Tail(send[c]) \in Seq(Events) /\ Len(Tail(send[c])) <= SendCap
          /\ \A i \in DOMAIN Tail(send[c]) :
                i + 1 \in DOMAIN send[c] /\ Tail(send[c])[i] = send[c][i + 1]
        BY <2>2, <2>3, HubAssumption, HeadTailFacts
    <2>5. \A d \in Clients : send'[d] = IF d = c THEN Tail(send[c]) ELSE send[d]
        BY <1>1, <2>2 DEF Waiting, OutboxTypeOK
    <2>6. OutboxTypeOK'
        BY <1>1, <2>2, <2>3, <2>4, <2>5 DEF Waiting, OutboxTypeOK
    <2>7. \A d \in Clients : \A i \in DOMAIN send'[d] : \E j \in DOMAIN send[d] : send'[d][i] = send[d][j]
        BY <2>4, <2>5
    <2> QED BY <1>1, <2>6, <2>7 DEF Waiting, VoiceShape
<1>5. CASE Offers
    <2>1. PICK out : HonestOffer(out) /\ Offer(out)
        BY <1>5 DEF Offers
    <2>2. \A c \in Clients : \A i \in DOMAIN out[c] : Honest(c, out[c][i])
        BY <2>1 DEF HonestOffer
    <2>3. OutboxTypeOK' /\ \A c \in Clients : \A i \in DOMAIN send'[c] :
              \/ i \in DOMAIN send[c] /\ send'[c][i] = send[c][i]
              \/ \E j \in DOMAIN out[c] : send'[c][i] = out[c][j]
        <3>1. OutboxTypeOK
            BY <1>1 DEF Waiting
        <3>2. \A c \in Clients : out[c] \in Seq(Events)
            BY <2>1 DEF HonestOffer
        <3>3. Offer(out)
            BY <2>1
        <3>4. OutboxTypeOK'
            BY <3>1, <3>2, <3>3, OfferFacts
        <3>5. \A c \in Clients : \A i \in DOMAIN send'[c] :
                  \/ i \in DOMAIN send[c] /\ send'[c][i] = send[c][i]
                  \/ \E j \in DOMAIN out[c] : send'[c][i] = out[c][j]
            <4>1. \A c \in Clients :
                      /\ \A i \in DOMAIN send'[c] :
                            \/ i \in DOMAIN send[c] /\ send'[c][i] = send[c][i]
                            \/ \E j \in DOMAIN out[c] : send'[c][i] = out[c][j]
                      /\ Len(send'[c]) > Len(send[c]) => \E j \in DOMAIN out[c] : Last(send'[c]) = out[c][j]
                      /\ c \notin lagged' => send'[c] = send[c] \o out[c]
                BY ONLY <3>1, <3>2, <3>3, OfferFacts, Zenon
            <4> QED BY ONLY <4>1
        <3> QED BY <3>4, <3>5
    <2>4. \A c \in Clients : \A j \in DOMAIN out[c] :
              /\ out[c][j].type = "chat_message" => out[c][j].arg \in messages
              /\ VoiceShape(out[c][j])
        BY <2>2 DEF Honest
    <2>5. \A c \in Clients : \A i \in DOMAIN send'[c] :
              /\ send'[c][i].type = "chat_message" => send'[c][i].arg \in messages'
              /\ VoiceShape(send'[c][i])
        BY <1>1, <2>3, <2>4 DEF Waiting
    <2> QED BY <2>3, <2>5 DEF Waiting, VoiceShape
<1> QED BY <1>2, <1>3, <1>4, <1>5

\* Only an HTTP handler that has stored its message means to publish it.
LEMMA StepPosts ==
    ASSUME EventsInv, [Next]_vars
    PROVE posted' \subseteq posted \/ \E r \in Rooms, m \in Messages : HttpStore(r, m)
<1> DEFINE Untouched == posted' = posted
<1>1. ASSUME NEW c \in Clients,
             \/ Connect(c) \/ ReadInvalid(c) \/ Disconnect(c) \/ WriterStops(c) \/ Write(c)
             \/ \E t \in MessageTypes, r \in Rooms, u \in Users \cup {NoUser} : ReadMessage(c, t, r, u)
      PROVE Untouched
    BY <1>1 DEF Connect, ReadInvalid, Disconnect, WriterStops, Write, ReadMessage, durable
<1>2. ASSUME HandleRegister \/ HandleUnregister \/ HandleBroadcast PROVE Untouched
    BY <1>2 DEF HandleRegister, HandleUnregister, HandleBroadcast, durable
<1>3. ASSUME HandleIncoming PROVE Untouched
    <2>1. ASSUME NEW c, NEW r, JoinRoom(c, r) \/ LeaveRoom(c, r) PROVE Untouched
        BY <2>1, JoinSteps DEF Onward, Enter, LeaveRoom, durable
    <2>2. ASSUME NEW c, NEW r, HandleChat(c, r) \/ HandleTyping(c, r) PROVE Untouched
        BY <2>2 DEF HandleChat, HandleTyping, durable
    <2>3. ASSUME NEW c, NEW r, HandleVoiceJoin(c, r) \/ HandleVoiceLeave(c, r) PROVE Untouched
        BY <2>3 DEF HandleVoiceJoin, HandleVoiceLeave, durable
    <2>4. ASSUME NEW c, NEW r, NEW u, RelayVoiceSignal(c, r, u) PROVE Untouched
        BY <2>4 DEF RelayVoiceSignal, durable
    <2> HIDE DEF Untouched
    <2>5. Untouched
        BY <1>3, <2>1, <2>2, <2>3, <2>4 DEF HandleIncoming, durable, Untouched
    <2> QED BY <2>5
<1>4. ASSUME NEW s \in Subs, Feeds(s) PROVE Untouched
    BY <1>4 DEF Feeds, FeedStarts, FeedRecords, FeedReturns, FeedAcked, FeedDrops, ForwardToHub,
       NotFeeds, durable
<1>5. ASSUME \/ \E r \in Rooms : RoomDeleted(r)
             \/ \E r \in Rooms, u \in Users : MembersChange(r, u)
             \/ \E u \in Users : PresenceExpires(u) \/ PresenceElsewhere(u)
             \/ PodKilled \/ Restart
             \/ UNCHANGED vars
      PROVE Untouched
    BY <1>5 DEF RoomDeleted, MembersChange, PresenceExpires, PresenceElsewhere, PodKilled, Restart, vars,
       durable
<1>6. ASSUME NEW p \in Post, HttpPublish(p) PROVE posted' \subseteq posted
    BY <1>6 DEF HttpPublish
<1> QED BY <1>1, <1>2, <1>3, <1>4, <1>5, <1>6 DEF Next, OtherStep

\* No join is under way after the step.
Rested == asking' = "nothing" /\ witness' \in {witness, FALSE}

\* The join under way goes on as it was, with more envelopes behind it.
Carries ==
    /\ UNCHANGED <<asking, witness, joined>>
    /\ \A r \in Rooms : members'[r] \subseteq members[r]
    /\ incoming' = incoming \/ \E e \in Envelope : incoming' = Append(incoming, e)

\* What a step does to the join under way.
LEMMA StepJoins ==
    ASSUME EventsInv, [Next]_vars
    PROVE \/ Rested \/ Carries
          \/ \E r \in Rooms, u \in Users : MembersChange(r, u)
          \/ /\ incoming # <<>> /\ Head(incoming).type = "join_room"
             /\ JoinRoom(Head(incoming).client, Head(incoming).room)
             /\ Onward(Head(incoming).client, Head(incoming).room)
<1> DEFINE Alike == UNCHANGED <<asking, witness, joined, members, incoming>>
<1>0. Alike => Carries
    BY DEF Carries
<1>1. ASSUME NEW why, PodDown(why) PROVE Rested
    BY <1>1 DEF PodDown, Rested
<1>2. ASSUME Popped PROVE Rested
    BY <1>2 DEF Popped, Rested
<1>3. ASSUME NEW out, Reply(out) PROVE Rested
    BY <1>1, <1>2, <1>3 DEF Reply, SendOnly
<1>4. ASSUME NEW c \in Clients, Connect(c) \/ Disconnect(c) \/ WriterStops(c) \/ Write(c) PROVE Alike
    BY <1>4 DEF Connect, Disconnect, WriterStops, Write, channels, registry, durable
<1>5. ASSUME NEW c \in Clients, ReadInvalid(c) PROVE Alike \/ Rested
    BY <1>1, <1>5 DEF ReadInvalid, channels, registry, durable
<1>6. ASSUME NEW c \in Clients, NEW t \in MessageTypes, NEW r \in Rooms, NEW u \in Users \cup {NoUser},
             ReadMessage(c, t, r, u)
      PROVE Carries
    <2>1. [client |-> c, type |-> t, room |-> r, target |-> u] \in Envelope
        BY DEF Envelope
    <2> QED BY <1>6, <2>1 DEF ReadMessage, registry, durable, Carries
<1>7. ASSUME HandleRegister \/ HandleUnregister \/ HandleBroadcast PROVE Rested
    BY <1>1, <1>7 DEF HandleRegister, HandleUnregister, HandleBroadcast, AtSelect, Cleanup, SendOnly, Rested
<1>8. CASE HandleIncoming
    <2> DEFINE c == Head(incoming).client
               r == Head(incoming).room
    <2>1. CASE Head(incoming).type = "join_room" /\ JoinRoom(c, r)
        <3>1. ASSUME Enter(c, r) PROVE Rested
            BY <1>1, <1>2, <3>1 DEF Enter
        <3>2. Rested \/ Onward(c, r)
            BY <1>3, <2>1, <3>1, JoinSteps
        <3>3. incoming # <<>>
            BY <1>8 DEF HandleIncoming
        <3> QED BY <2>1, <3>2, <3>3
    <2>2. ASSUME LeaveRoom(c, r) \/ HandleChat(c, r) \/ HandleTyping(c, r) PROVE Rested
        BY <1>2, <1>3, <2>2 DEF LeaveRoom, HandleChat, HandleTyping
    <2>3. ASSUME HandleVoiceJoin(c, r) \/ HandleVoiceLeave(c, r) PROVE Rested
        BY <1>1, <1>2, <2>3 DEF HandleVoiceJoin, HandleVoiceLeave
    <2>4. ASSUME NEW u, RelayVoiceSignal(c, r, u) PROVE Rested
        BY <1>3, <2>4 DEF RelayVoiceSignal
    <2> QED BY <1>3, <1>8, <2>1, <2>2, <2>3, <2>4 DEF HandleIncoming
<1>9. ASSUME NEW s \in Subs, Feeds(s) PROVE Alike
    BY <1>9 DEF Feeds, FeedStarts, FeedRecords, FeedReturns, FeedAcked, FeedDrops, ForwardToHub,
       NotFeeds, channels, registry, durable
<1>10. ASSUME NEW r \in Rooms, RoomDeleted(r) PROVE Carries
    BY <1>10, TypesOfInv DEF RoomDeleted, channels, registry, DurableTypeOK, Carries
<1>11. ASSUME \/ \E r \in Rooms, m \in Messages : HttpStore(r, m)
              \/ \E p \in Post : HttpPublish(p)
              \/ \E u \in Users : PresenceExpires(u) \/ PresenceElsewhere(u)
              \/ Restart
              \/ UNCHANGED vars
       PROVE Alike
    BY <1>11 DEF HttpStore, HttpPublish, PresenceExpires, PresenceElsewhere, Restart, vars, channels,
       registry, durable
<1>12. ASSUME PodKilled PROVE Rested
    BY <1>1, <1>12 DEF PodKilled
<1> HIDE DEF Alike
<1> QED BY <1>0, <1>4, <1>5, <1>6, <1>7, <1>8, <1>9, <1>10, <1>11, <1>12 DEF Next, OtherStep

\* The answers a join has gathered stay true of its user and its room.
LEMMA JoinStep ==
    ASSUME EventsInv, [Next]_vars
    PROVE JoinInv' /\ asking' \in {"nothing", "membership", "entry"} /\ witness' \in BOOLEAN
<1> DEFINE c == Head(incoming).client
           r == Head(incoming).room
<1>1. /\ asking \in {"nothing", "membership", "entry"} /\ witness \in BOOLEAN
      /\ incoming \in Seq(Envelope) /\ JoinInv
    BY TypesOfInv DEF EventsInv, LoopTypes
<1>2. incoming # <<>> => c \in Clients /\ r \in Rooms /\ UserOf[c] \in Users
    <2> SUFFICES ASSUME incoming # <<>> PROVE c \in Clients /\ r \in Rooms /\ UserOf[c] \in Users
        OBVIOUS
    <2>1. Head(incoming) \in Envelope
        BY <1>1
    <2> QED BY <2>1, TypesOfInv DEF Envelope
<1>3. CASE Rested
    BY <1>1, <1>3 DEF Rested, JoinInv
<1>4. CASE Carries
    <2>1. asking # "nothing" => incoming' # <<>> /\ Head(incoming') = Head(incoming)
        BY <1>1, <1>4 DEF Carries, JoinInv
    <2>2. asking # "nothing" => (IsMember(c, r)' => IsMember(c, r))
        BY <1>1, <1>2, <1>4, <2>1 DEF Carries, JoinInv, IsMember
    <2> QED BY <1>1, <1>4, <2>1, <2>2 DEF Carries, JoinInv, JoinUnderWay, Entitled, IsOwner
<1>5. ASSUME NEW q \in Rooms, NEW u \in Users, MembersChange(q, u)
      PROVE JoinInv' /\ asking' \in {"nothing", "membership", "entry"} /\ witness' \in BOOLEAN
    <2>1. /\ UNCHANGED <<asking, incoming, joined>>
          /\ witness' = (witness \/ JoinsNow(q, u))
        BY <1>5 DEF MembersChange, registry
    <2>2. asking # "nothing" /\ ~witness' => (IsMember(c, r)' => IsMember(c, r))
        <3> SUFFICES ASSUME asking # "nothing", ~witness', IsMember(c, r)' PROVE IsMember(c, r)
            OBVIOUS
        <3>1. ~(r = q /\ UserOf[c] = u)
            BY <2>1 DEF JoinsNow
        <3>2. UserOf[c] \in members'[r]
            BY <2>1 DEF IsMember
        <3>3. members' = [members EXCEPT ![q] = IF u \in @ THEN @ \ {u} ELSE @ \cup {u}]
            BY <1>5 DEF MembersChange
        <3>4. members \in [Rooms -> SUBSET Users] /\ r \in Rooms
            BY <1>1, <1>2, TypesOfInv DEF DurableTypeOK, JoinInv
        <3> QED BY <3>1, <3>2, <3>3, <3>4 DEF IsMember
    <2>3. witness' \in BOOLEAN /\ (witness => witness')
        BY <1>1, <2>1
    <2> QED BY <1>1, <2>1, <2>2, <2>3 DEF JoinInv, JoinUnderWay, Entitled, IsOwner
<1>6. CASE /\ incoming # <<>> /\ Head(incoming).type = "join_room"
           /\ JoinRoom(c, r) /\ Onward(c, r)
    <2>1. UNCHANGED <<incoming, joined>> /\ asking' \in {"membership", "entry"}
        BY <1>6 DEF Onward, registry
    <2>2. asking' # "nothing" /\ incoming # Tail(incoming)
        BY <1>1, <1>6, <2>1
    <2>3. CASE FindRoom(c, r) /\ asking = "nothing"
        <3>1. ~Reply(ToEach({}, Error)) /\ ~Refuse(c)
            BY <2>1, <2>2 DEF Refuse, Reply, SendOnly, Popped, PodDown
        <3>2. /\ r \notin joined[c]
              /\ asking' = IF RoomType[r] = "private" /\ IsOwner(c, r) THEN "entry" ELSE "membership"
              /\ witness' = IsMember(c, r) /\ UNCHANGED members
            BY <2>3, <3>1 DEF FindRoom, GoOn, durable
        <3>3. witness' \in BOOLEAN
            BY <3>2 DEF IsMember
        <3> QED BY <1>6, <2>1, <3>2, <3>3 DEF JoinInv, JoinUnderWay, Entitled, IsMember, IsOwner
    <2>4. CASE AskMembership(c, r) /\ asking = "membership"
        <3>1. ~Refuse(c)
            BY <2>1, <2>2 DEF Refuse, Reply, SendOnly, Popped, PodDown
        <3>2. /\ asking' = "entry" /\ witness' = witness
              /\ \/ RoomType[r] \in {"public", "voice"}
                 \/ IsMember(c, r)
            BY <2>4, <3>1 DEF AskMembership, GoOn
        <3> QED BY <1>1, <1>6, <2>1, <2>4, <3>2 DEF JoinInv, JoinUnderWay, Entitled, IsOwner
    <2>5. ~(asking = "entry" /\ Enter(c, r))
        BY <2>1, <2>2 DEF Enter, PodDown, Popped
    <2> QED BY <1>6, <2>3, <2>4, <2>5 DEF JoinRoom
<1> QED BY <1>3, <1>4, <1>5, <1>6, StepJoins

LEMMA EventsStep == EventsInv /\ [Next]_vars => EventsInv'
<1> SUFFICES ASSUME EventsInv, [Next]_vars PROVE EventsInv'
    OBVIOUS
<1>1. HubInv'
    BY HubStep DEF EventsInv
<1>2. PubSubTypeOK'
    BY <1>1, HubTypes, PTL
<1>3. BroadcastOK' /\ Carried' /\ Waiting'
    BY StepMoves, StepSends, MovesCarried, SendsWaiting
<1>4. StatusOK' /\ DurableTypeOK'
    BY DurableStep
<1>41. JoinInv' /\ asking' \in {"nothing", "membership", "entry"} /\ witness' \in BOOLEAN
    BY JoinStep
<1>42. PostsStored'
    <2>1. messages \subseteq messages'
        BY StepMoves
    <2>2. ASSUME NEW r \in Rooms, NEW m \in Messages, HttpStore(r, m) PROVE PostsStored'
        BY <2>1, <2>2 DEF HttpStore, EventsInv, PostsStored
    <2> QED BY <2>1, <2>2, StepPosts DEF EventsInv, PostsStored
<1>5. TypeOK'
    BY <1>1, <1>2, <1>3, <1>4, <1>41 DEF HubInv, RegistryInv, LoopTypes, TypeOK, ChannelsTypeOK, BroadcastOK,
       Waiting, StatusOK
<1> QED BY <1>1, <1>3, <1>41, <1>42, <1>5
       DEF EventsInv, PersistBeforePublish, VoiceEventsShaped, Carried, Waiting

LEMMA EventsInit ==
    Init => TypeOK /\ PersistBeforePublish /\ PostsStored /\ VoiceEventsShaped /\ JoinInv
<1> SUFFICES ASSUME Init
             PROVE TypeOK /\ PersistBeforePublish /\ PostsStored /\ VoiceEventsShaped /\ JoinInv
    OBVIOUS
<1>1. SendCap \in Nat /\ OwnerOf \in [Rooms -> Users]
    BY HubAssumption
<1>2. RegistryTypeOK /\ ChannelsTypeOK /\ OutboxTypeOK /\ DurableTypeOK
    <2>1. RegistryTypeOK /\ OutboxTypeOK
        BY <1>1 DEF Init, MemoryInit, RegistryTypeOK, OutboxTypeOK
    <2>2. ChannelsTypeOK
        <3>1. witness \in BOOLEAN /\ asking \in {"nothing", "membership", "entry"}
            BY DEF Init, MemoryInit
        <3>2. <<>> \in Seq(Clients) /\ <<>> \in Seq(Envelope) /\ <<>> \in Seq(Post)
            OBVIOUS
        <3>3. /\ register \in Seq(Clients) /\ unregister \in Seq(Clients)
              /\ incoming \in Seq(Envelope) /\ broadcast \in Seq(Post)
            BY <3>2 DEF Init, MemoryInit
        <3> QED BY <3>1, <3>3, Zenon DEF ChannelsTypeOK
    <2>3. DurableTypeOK
        BY <1>1 DEF Init, DurableTypeOK
    <2> QED BY <2>1, <2>2, <2>3
<1>3. PubSubTypeOK
    BY DEF Init, PubSubInit, PubSubTypeOK, SubStates
<1>4. TypeOK
    BY <1>2, <1>3 DEF Init, TypeOK
<1>5. PersistBeforePublish /\ PostsStored /\ VoiceEventsShaped /\ JoinInv
    BY DEF Init, MemoryInit, PubSubInit, PersistBeforePublish, PostsStored, VoiceEventsShaped, JoinInv
<1> QED BY <1>4, <1>5

\* The invariant holds in every reachable state.
THEOREM EventsInvariant == Spec => []EventsInv
<1>1. Init /\ HubInv => EventsInv
    BY EventsInit DEF EventsInv
<1> QED BY <1>1, EventsStep, HubInvariant, PTL DEF Spec

\* Every variable of the hub keeps its type, and no client's buffer ever holds
\* more than SendCap events, whatever the handlers send (client.go:14, hub.go:227-237).
THEOREM HubTypeCorrect == Spec => []TypeOK
<1>1. EventsInv => TypeOK
    BY DEF EventsInv
<1> QED BY <1>1, EventsInvariant, PTL

\* Whatever travels to a client -- in a feed, in the channel broadcast or in its
\* buffer -- is a message PostgreSQL has, however the saves and publications of
\* any handlers fail or interleave (hub.go:202-222, message_handler.go:84-110).
THEOREM AlwaysPersistBeforePublish == Spec => []PersistBeforePublish
<1>1. EventsInv => PersistBeforePublish
    BY DEF EventsInv
<1> QED BY <1>1, EventsInvariant, PTL

-----------------------------------------------------------------------------
(* Who enters, and what a client is told. *)

Shrinks == \A r \in Rooms : rooms'[r] \subseteq rooms[r]

\* The join under way, of c to r, ends with the entry; c is told so unless its buffer
\* is full.
Enters(c, r) ==
    /\ asking = "entry" /\ incoming # <<>>
    /\ Head(incoming).client = c /\ Head(incoming).room = r
    /\ rooms' = [rooms EXCEPT ![r] = @ \cup {c}]
    /\ Offer(ToEach({c}, Event("room_joined", r, NoUser)))

\* Only joinRoom adds a client to a room (hub.go:163-176).
LEMMA StepEnters ==
    ASSUME EventsInv, [Next]_vars
    PROVE Shrinks \/ \E c \in Clients, r \in Rooms : Enters(c, r)
<1>1. ASSUME UNCHANGED rooms PROVE Shrinks
    BY <1>1 DEF Shrinks
<1>2. ASSUME NEW why, PodDown(why) PROVE Shrinks
    BY <1>2 DEF PodDown, Shrinks
<1>3. ASSUME NEW out, Reply(out) PROVE Shrinks
    BY <1>1, <1>2, <1>3 DEF Reply, SendOnly, registry
<1>4. ASSUME NEW c, NEW R, LeaveRooms(c, R) PROVE Shrinks
    BY <1>4 DEF LeaveRooms, Shrinks
<1>5. ASSUME NEW c \in Clients,
             \/ Connect(c) \/ ReadInvalid(c) \/ Disconnect(c) \/ WriterStops(c) \/ Write(c)
             \/ \E t \in MessageTypes, r \in Rooms, u \in Users \cup {NoUser} : ReadMessage(c, t, r, u)
      PROVE Shrinks
    BY <1>1, <1>2, <1>5 DEF Connect, ReadInvalid, Disconnect, WriterStops, Write, ReadMessage, registry
<1>6. CASE HandleRegister \/ HandleBroadcast
    BY <1>1, <1>2, <1>6 DEF HandleRegister, AtSelect, HandleBroadcast, SendOnly, registry
<1>7. CASE HandleUnregister
    BY <1>1, <1>2, <1>4, <1>7 DEF HandleUnregister, AtSelect, Cleanup, registry
<1>8. CASE HandleIncoming
    <2> DEFINE c == Head(incoming).client
               r == Head(incoming).room
               target == Head(incoming).target
    <2>1. c \in Clients /\ r \in Rooms
        <3>1. Head(incoming) \in Envelope
            BY <1>8, TypesOfInv, HeadTailFacts DEF HandleIncoming, LoopTypes
        <3> QED BY <3>1 DEF Envelope
    <2> HIDE DEF c, r, target
    <2>2. CASE JoinRoom(c, r)
        <3>1. CASE asking = "entry" /\ Enter(c, r)
            <4>1. incoming # <<>> /\ Head(incoming).client = c /\ Head(incoming).room = r
                BY <1>8 DEF HandleIncoming, c, r
            <4> QED BY <1>2, <2>1, <3>1, <4>1 DEF Enter, Enters
        <3>2. CASE Onward(c, r)
            BY <1>1, <3>2 DEF Onward, registry
        <3> QED BY <1>3, <2>2, <3>1, <3>2, JoinSteps
    <2>3. CASE LeaveRoom(c, r)
        BY <1>4, <2>3 DEF LeaveRoom
    <2>4. CASE HandleChat(c, r)
        BY <1>1, <1>3, <2>4 DEF HandleChat, registry
    <2>5. CASE HandleTyping(c, r) \/ RelayVoiceSignal(c, r, target)
        BY <1>3, <2>5 DEF HandleTyping, RelayVoiceSignal
    <2>6. CASE HandleVoiceJoin(c, r) \/ HandleVoiceLeave(c, r)
        BY <1>1, <1>2, <2>6 DEF HandleVoiceJoin, HandleVoiceLeave
    <2>7. CASE Reply(ToEach({}, Error))
        BY <1>3, <2>7
    <2> QED BY <1>8, <2>2, <2>3, <2>4, <2>5, <2>6, <2>7 DEF HandleIncoming, c, r, target
<1>9. ASSUME NEW s \in Subs, Feeds(s) PROVE UNCHANGED rooms
    BY <1>9 DEF Feeds, FeedStarts, FeedRecords, FeedReturns, FeedAcked, FeedDrops, ForwardToHub,
       NotFeeds, registry
<1>10. ASSUME \/ \E r \in Rooms, m \in Messages : HttpStore(r, m)
              \/ \E p \in Post : HttpPublish(p)
              \/ \E r \in Rooms : RoomDeleted(r)
              \/ \E r \in Rooms, u \in Users : MembersChange(r, u)
              \/ \E u \in Users : PresenceExpires(u) \/ PresenceElsewhere(u)
              \/ PodKilled \/ Restart
              \/ UNCHANGED vars
       PROVE Shrinks
    BY <1>1, <1>2, <1>10 DEF HttpStore, HttpPublish, RoomDeleted, MembersChange, PresenceExpires, PresenceElsewhere, PodKilled, Restart,
       vars, registry
<1> QED BY <1>1, <1>5, <1>6, <1>7, <1>8, <1>9, <1>10 DEF Next, OtherStep

Allowed == \A c \in Clients, r \in Rooms : c \in rooms'[r] \ rooms[r] =>
              /\ RoomType[r] = "dm" => witness
              /\ RoomType[r] = "private" => witness \/ IsOwner(c, r)

LEMMA EntersAllowed == ASSUME EventsInv, [Next]_vars PROVE Allowed
<1>1. CASE Shrinks
    BY <1>1 DEF Shrinks, Allowed
<1>2. ASSUME NEW c \in Clients, NEW r \in Rooms, Enters(c, r) PROVE Allowed
    <2>1. \A d \in Clients, q \in Rooms : d \in rooms'[q] \ rooms[q] => d = c /\ q = r
        BY <1>2, TypesOfInv DEF Enters, RegistryTypeOK
    <2>2. Entitled(c, r)
        BY <1>2 DEF Enters, EventsInv, JoinInv, JoinUnderWay
    <2> QED BY <2>1, <2>2 DEF Entitled, Allowed
<1> QED BY <1>1, <1>2, StepEnters

\* Whoever gets into a DM or a private room was a member of it at some moment
\* between the lookup of the room and the entry, or owns the private room, although
\* the calls of a join are separate and the rows change between them, for any rooms,
\* members and clients (hub.go:140-163).
THEOREM EntryAlwaysAllowed == Spec => EntryIsAllowed
<1>1. EventsInv /\ [Next]_vars => [Allowed]_vars
    BY EntersAllowed
<1> QED BY <1>1, EventsInvariant, PTL DEF Spec, EntryIsAllowed, Allowed

\* What a step tells a client last is honest.
LEMMA ToldHonest ==
    ASSUME EventsInv, [Next]_vars, NEW c \in Clients, Len(send'[c]) > Len(send[c])
    PROVE Honest(c, Last(send'[c]))
<1>0. OutboxTypeOK /\ send[c] \in Seq(Events) /\ Len(send[c]) \in Nat
    BY TypesOfInv DEF OutboxTypeOK
<1>1. CASE Quiet
    BY <1>0, <1>1 DEF Quiet
<1>2. CASE Down
    <2>1. send'[c] = <<>>
        BY <1>2 DEF Down, PodDown
    <2> QED BY <1>0, <2>1
<1>3. CASE Writes
    <2>1. PICK d \in Clients : Write(d)
        BY <1>3 DEF Writes
    <2>2. send'[c] = (IF c = d THEN Tail(send[c]) ELSE send[c]) /\ send[d] # <<>>
        BY <1>0, <2>1 DEF Write, OutboxTypeOK
    <2>3. send[c] # <<>> => Len(Tail(send[c])) = Len(send[c]) - 1
        BY <1>0, HeadTailFacts
    <2> QED BY <1>0, <2>2, <2>3
<1>4. CASE Offers
    <2>1. PICK out : HonestOffer(out) /\ Offer(out)
        BY <1>4 DEF Offers
    <2>2. \A d \in Clients : out[d] \in Seq(Events) /\ \A i \in DOMAIN out[d] : Honest(d, out[d][i])
        BY <2>1 DEF HonestOffer
    <2>3. PICK j \in DOMAIN out[c] : Last(send'[c]) = out[c][j]
        BY <1>0, <2>1, <2>2, OfferFacts
    <2>4. Honest(c, out[c][j])
        BY <2>2
    <2> QED BY <2>3, <2>4
<1> QED BY <1>1, <1>2, <1>3, <1>4, StepSends

Answered == \A c \in Clients :
    LET told == Len(send'[c]) > Len(send[c])
        last == Last(send'[c])
    IN  /\ told /\ last.type = "room_joined" => c \in rooms'[last.room] \ rooms[last.room]
        /\ told /\ last.type = "error" => UNCHANGED registry
        /\ \A r \in Rooms : c \in rooms'[r] \ rooms[r] =>
              c \in lagged' \/ (told /\ last = Event("room_joined", r, NoUser))

LEMMA StepAnswers == ASSUME EventsInv, [Next]_vars PROVE Answered
<1> SUFFICES ASSUME NEW c \in Clients
             PROVE LET told == Len(send'[c]) > Len(send[c])
                       last == Last(send'[c])
                   IN  /\ told /\ last.type = "room_joined" => c \in rooms'[last.room] \ rooms[last.room]
                       /\ told /\ last.type = "error" => UNCHANGED registry
                       /\ \A r \in Rooms : c \in rooms'[r] \ rooms[r] =>
                             c \in lagged' \/ (told /\ last = Event("room_joined", r, NoUser))
    BY DEF Answered
<1> DEFINE told == Len(send'[c]) > Len(send[c])
           last == Last(send'[c])
<1>1. OutboxTypeOK /\ send[c] \in Seq(Events) /\ Len(send[c]) \in Nat
    BY TypesOfInv DEF OutboxTypeOK
<1>2. told => Honest(c, last)
    BY ToldHonest
<1>3. \A r \in Rooms : c \in rooms'[r] \ rooms[r] =>
          c \in lagged' \/ (told /\ last = Event("room_joined", r, NoUser))
    <2> SUFFICES ASSUME NEW r \in Rooms, c \in rooms'[r] \ rooms[r], c \notin lagged'
                 PROVE told /\ last = Event("room_joined", r, NoUser)
        OBVIOUS
    <2>1. PICK d \in Clients, q \in Rooms : Enters(d, q)
        BY StepEnters DEF Shrinks
    <2>2. c = d /\ r = q
        BY <2>1, TypesOfInv DEF Enters, RegistryTypeOK
    <2> DEFINE e == Event("room_joined", r, NoUser)
    <2>3. e \in Events
        BY EventFacts
    <2>4. Offer(ToEach({c}, e))
        BY <2>1, <2>2 DEF Enters
    <2> HIDE DEF e
    <2>5. \A x \in Clients : ToEach({c}, e)[x] = IF x = c THEN <<e>> ELSE <<>>
        BY DEF ToEach
    <2>6. <<e>> \in Seq(Events) /\ <<>> \in Seq(Events)
        BY <2>3
    <2>7. \A x \in Clients : ToEach({c}, e)[x] \in Seq(Events)
        BY <2>5, <2>6
    <2>8. send'[c] = send[c] \o ToEach({c}, e)[c]
        BY <1>1, <2>4, <2>7, OfferFacts
    <2>9. send'[c] = send[c] \o <<e>>
        BY <2>5, <2>8
    <2>10. Len(send'[c]) = Len(send[c]) + 1 /\ send'[c][Len(send'[c])] = e
        BY <1>1, <2>3, <2>9
    <2> QED BY <1>1, <2>10 DEF e, Last
<1> QED BY <1>2, <1>3 DEF Honest

\* What a client is told is what happened, for every interleaving of joins,
\* failures and full buffers (hub.go:136-188).
THEOREM AnswersAlwaysMatchRegistry == Spec => AnswersMatchRegistry
<1>1. EventsInv /\ [Next]_vars => [Answered]_vars
    BY StepAnswers
<1> QED BY <1>1, EventsInvariant, PTL DEF Spec, AnswersMatchRegistry, Answered


-----------------------------------------------------------------------------
(* From a feed to the members of its room. *)

\* m is on its way to the members of r: in a feed of r, or in broadcast.
InFeed(r, m) == \E s \in Subs : feedRoom[s] = r /\ \E i \in DOMAIN msgCh[s] : msgCh[s][i] = m
InBroadcast(r, m) == \E i \in DOMAIN broadcast : broadcast[i] = [room |-> r, msg |-> m]
Coming(r, m) == InFeed(r, m) \/ InBroadcast(r, m)

\* The step puts m into the buffer of c, unless that is full.
Buffered(c, r, m) ==
    Len(send[c]) = SendCap \/ send'[c] = Append(send[c], Event("chat_message", r, m))

\* The ways a message may stop coming.
Arrives(r, m) ==
    \/ \A c \in rooms[r] : Buffered(c, r, m)
    \/ status' # "running"
    \/ \E s \in Subs : feedRoom[s] = r /\ RedisDrop(s)

\* What a feed of a room has taken from Redis is offered, in one step, to every
\* client the room has then (hub.go:94-95, :239-246). A feed that is full when
\* Redis delivers never takes it (PubSub.Publish); from then on only a broken
\* connection to Redis and the end of the pod lose it -- not the leaves, the
\* rejoins and the late Subscribes in between.
ReceivedIsOffered == [][\A r \in Rooms, m \in Messages : Coming(r, m) => Coming(r, m)' \/ Arrives(r, m)]_vars

\* A client is told of a chat message only by the step that takes it from
\* broadcast, while it is in the room: never again for the same arrival, and never
\* after it left (hub.go:190-199, :239-246).
ChatsAreTaken ==
    [][\A c \in Clients :
          LET last == Last(send'[c])
          IN  Len(send'[c]) > Len(send[c]) /\ last.type = "chat_message" =>
                  TakenFor(c, last.room, last.arg)]_vars

\* No feed changes its room while it holds messages (pubsub.go:37-49).
LEMMA FeedsKeepRooms ==
    ASSUME EventsInv, [Next]_vars, NEW s \in Subs, msgCh[s] # <<>>, msgCh'[s] # <<>>
    PROVE feedRoom'[s] = feedRoom[s]
<1>1. [FP!Next]_(FP!vars)
    BY FeedsStep DEF EventsInv
<1>2. FP!TypeOK /\ FP!SlotsClean
    BY DEF EventsInv, HubInv, FP!FeedInv
<1> QED BY <1>1, <1>2, FP!RoomKept, PubSubAssumption DEF FP!PubSubAssumption

\* A feed that keeps a message keeps it for its room.
LEMMA FeedKeeps ==
    ASSUME EventsInv, [Next]_vars, NEW r, NEW s \in Subs, feedRoom[s] = r, msgCh[s] # <<>>,
           NEW i \in DOMAIN msgCh'[s], NEW m, msgCh'[s][i] = m
    PROVE feedRoom'[s] = r /\ InFeed(r, m)'
<1>1. PubSubTypeOK'
    <2>1. EventsInv'
        BY EventsStep
    <2> QED BY <2>1 DEF EventsInv, TypeOK
<1>2. msgCh'[s] # <<>>
    BY <1>1 DEF PubSubTypeOK
<1>3. feedRoom'[s] = r
    BY <1>2, FeedsKeepRooms
<1> QED BY <1>3 DEF InFeed

\* One entry of broadcast goes to every client of its room.
LEMMA DeliveredIsTold ==
    ASSUME EventsInv, Delivered, NEW r \in Rooms, NEW m \in Messages,
           Head(broadcast) = [room |-> r, msg |-> m]
    PROVE status' # "running" \/ \A c \in rooms[r] : Buffered(c, r, m)
<1> DEFINE e == Event("chat_message", r, m)
           out == ToEach(rooms[r], e)
<1>1. PodDown("panicked") \/ Offer(out)
    BY DEF Delivered, HandleBroadcast, SendOnly
<1>2. ASSUME PodDown("panicked") PROVE status' # "running"
    BY <1>2 DEF PodDown
<1>3. ASSUME Offer(out), NEW c \in rooms[r] PROVE Buffered(c, r, m)
    <2>1. c \in Clients /\ send[c] \in Seq(Events) /\ Len(send[c]) <= SendCap /\ SendCap \in Nat
        BY TypesOfInv, HubAssumption DEF RegistryTypeOK, OutboxTypeOK
    <2>2. e \in Events
        BY EventFacts
    <2> HIDE DEF e
    <2>3. out[c] = <<e>>
        BY <1>3, <2>1 DEF ToEach
    <2>4. send'[c] = Fit(send[c] \o <<e>>)
        BY <1>3, <2>1, <2>3 DEF Offer
    <2>5. send[c] \o <<e>> = Append(send[c], e) /\ Len(send[c] \o <<e>>) = Len(send[c]) + 1
        BY <2>1, <2>2
    <2>6. CASE Len(send[c]) < SendCap
        <3>1. Fit(send[c] \o <<e>>) = send[c] \o <<e>>
            BY <2>1, <2>5, <2>6 DEF Fit
        <3> QED BY <2>4, <2>5, <3>1 DEF Buffered, e
    <2> QED BY <2>1, <2>6 DEF Buffered
<1> QED BY <1>1, <1>2, <1>3

\* By the kinds of steps.
LEMMA StepReceived ==
    ASSUME EventsInv, [Next]_vars, NEW r \in Rooms, NEW m \in Messages, Coming(r, m)
    PROVE Coming(r, m)' \/ Arrives(r, m)
<1>1. /\ PubSubTypeOK /\ PubSubTypeOK' /\ BroadcastOK
      /\ Moves
    <2>1. EventsInv'
        BY EventsStep
    <2>2. PubSubTypeOK'
        BY <2>1 DEF EventsInv, TypeOK
    <2> QED BY <2>2, TypesOfInv, StepMoves DEF BroadcastOK
<1>2. CASE Down
    BY <1>2 DEF Down, PodDown, Arrives
<1>3. ASSUME InFeed(r, m), ~Down PROVE Coming(r, m)' \/ Arrives(r, m)
    <2>1. PICK s \in Subs : feedRoom[s] = r /\ \E i \in DOMAIN msgCh[s] : msgCh[s][i] = m
        BY <1>3 DEF InFeed
    <2>2. PICK i \in DOMAIN msgCh[s] : msgCh[s][i] = m
        BY <2>1
    <2>3. msgCh[s] # <<>> /\ msgCh[s] \in Seq(Messages) /\ i \in 1..Len(msgCh[s])
        BY <1>1, <2>2 DEF PubSubTypeOK
    <2>4. ASSUME NEW k \in DOMAIN msgCh'[s], msgCh'[s][k] = m PROVE Coming(r, m)'
        BY <1>1, <2>1, <2>3, <2>4, FeedKeeps DEF Coming
    <2>5. CASE msgCh'[s] = msgCh[s]
        BY <2>2, <2>4, <2>5
    <2>6. CASE Published
        <3>1. PICK q \in Rooms, n \in Messages : Publish(q, n)
            BY <2>6 DEF Published
        <3>2. msgCh'[s] = Append(msgCh[s], n) \/ msgCh'[s] = msgCh[s]
            BY <3>1 DEF Publish
        <3>3. i \in DOMAIN Append(msgCh[s], n) /\ Append(msgCh[s], n)[i] = m
            BY <2>2, <2>3
        <3> QED BY <2>4, <2>5, <3>2, <3>3
    <2>7. CASE Dropped
        <3>1. PICK q \in Subs : RedisDrop(q)
            BY <2>7 DEF Dropped
        <3>2. q # s => msgCh'[s] = msgCh[s]
            BY <1>1, <3>1 DEF RedisDrop, PubSubTypeOK
        <3> QED BY <2>1, <2>5, <3>1, <3>2 DEF Arrives
    <2>8. CASE Forwarded
        <3>1. PICK q \in Subs : ForwardToHub(q)
            BY <2>8 DEF Forwarded
        <3>2. /\ msgCh' = [msgCh EXCEPT ![q] = Tail(@)]
              /\ broadcast' = Append(broadcast, [room |-> feedRoom[q], msg |-> Head(msgCh[q])])
            BY <3>1 DEF ForwardToHub, Forward
        <3>3. CASE q # s
            BY <1>1, <2>5, <3>2, <3>3 DEF PubSubTypeOK
        <3>4. CASE q = s /\ i # 1
            <4>1. msgCh'[s] = Tail(msgCh[s])
                BY <1>1, <3>2, <3>4 DEF PubSubTypeOK
            <4>2. i - 1 \in DOMAIN Tail(msgCh[s]) /\ Tail(msgCh[s])[i - 1] = m
                BY <2>2, <2>3, <3>4
            <4> QED BY <2>4, <4>1, <4>2
        <3>5. CASE q = s /\ i = 1
            <4>1. broadcast' = Append(broadcast, [room |-> r, msg |-> m])
                BY <2>1, <2>2, <2>3, <3>2, <3>5
            <4>2. /\ Len(broadcast) + 1 \in DOMAIN broadcast'
                  /\ broadcast'[Len(broadcast) + 1] = [room |-> r, msg |-> m]
                BY <1>1, <4>1 DEF BroadcastOK
            <4> QED BY <4>2 DEF Coming, InBroadcast
        <3> QED BY <3>3, <3>4, <3>5
    <2> QED BY <1>1, <1>3, <2>5, <2>6, <2>7, <2>8 DEF Moves, Still, Delivered
<1>4. ASSUME InBroadcast(r, m), ~Down PROVE Coming(r, m)' \/ Arrives(r, m)
    <2>1. PICK i \in DOMAIN broadcast : broadcast[i] = [room |-> r, msg |-> m]
        BY <1>4 DEF InBroadcast
    <2>2. i \in 1..Len(broadcast) /\ broadcast # <<>> /\ Head(broadcast) = broadcast[1]
        BY <1>1, <2>1 DEF BroadcastOK
    <2>3. CASE UNCHANGED broadcast
        BY <2>1, <2>3 DEF Coming, InBroadcast
    <2>4. CASE Forwarded
        <3>1. PICK bm : broadcast' = Append(broadcast, bm)
            BY <2>4 DEF Forwarded, ForwardToHub
        <3>2. i \in DOMAIN broadcast' /\ broadcast'[i] = broadcast[i]
            BY <1>1, <2>2, <3>1 DEF BroadcastOK
        <3> QED BY <2>1, <3>2 DEF Coming, InBroadcast
    <2>5. CASE Delivered
        <3>1. CASE i = 1
            BY <2>1, <2>2, <2>5, <3>1, DeliveredIsTold DEF Arrives
        <3>2. CASE i # 1
            <4>1. i - 1 \in DOMAIN Tail(broadcast) /\ Tail(broadcast)[i - 1] = broadcast[i]
                BY <1>1, <2>2, <3>2 DEF BroadcastOK
            <4> QED BY <2>1, <2>5, <4>1 DEF Delivered, Coming, InBroadcast
        <3> QED BY <3>1, <3>2
    <2> QED BY <1>1, <1>4, <2>3, <2>4, <2>5 DEF Moves, Still, Published, Dropped
<1> QED BY <1>2, <1>3, <1>4 DEF Coming

\* No message that a feed has taken goes astray between the feed and the members of
\* the room, however the feed is closed, overwritten or drained
\* (hub.go:94-95, :164-173, :239-246, pubsub.go:37-49).
THEOREM ReceivedAlwaysOffered == Spec => ReceivedIsOffered
<1>1. EventsInv /\ [Next]_vars =>
          [\A r \in Rooms, m \in Messages : Coming(r, m) => Coming(r, m)' \/ Arrives(r, m)]_vars
    BY StepReceived
<1> QED BY <1>1, EventsInvariant, PTL DEF Spec, ReceivedIsOffered

\* a is ahead of b on the way to the members of r: in one feed, in broadcast, or a
\* in broadcast and b still in a feed.
Ahead(r, a, b) ==
    \/ \E s \in Subs : /\ feedRoom[s] = r
                       /\ \E i, j \in DOMAIN msgCh[s] :
                             i < j /\ msgCh[s][i] = a /\ msgCh[s][j] = b
    \/ InBroadcast(r, a) /\ InFeed(r, b)
    \/ \E i, j \in DOMAIN broadcast :
          i < j /\ broadcast[i] = [room |-> r, msg |-> a] /\ broadcast[j] = [room |-> r, msg |-> b]

\* What Redis handed to a feed keeps its order: nothing overtakes a message before
\* it is offered to the members, whatever the other feeds of the room bring into
\* broadcast meanwhile (pubsub.go:37-49, hub.go:94-95).
ReceivedInOrder ==
    [][\A r \in Rooms, a, b \in Messages : Ahead(r, a, b) => Ahead(r, a, b)' \/ Arrives(r, a)]_vars

\* What a step does to one feed that holds messages.
LEMMA FeedMoves ==
    ASSUME EventsInv, [Next]_vars, ~Down, NEW r, NEW s \in Subs, feedRoom[s] = r, msgCh[s] # <<>>
    PROVE \/ \E q \in Subs : feedRoom[q] = r /\ RedisDrop(q)
          \/ msgCh'[s] = msgCh[s]
          \/ \E n \in Messages : msgCh'[s] = Append(msgCh[s], n)
          \/ /\ msgCh'[s] = Tail(msgCh[s])
             /\ broadcast' = Append(broadcast, [room |-> r, msg |-> Head(msgCh[s])])
<1>1. PubSubTypeOK /\ Moves
    BY TypesOfInv, StepMoves
<1>2. CASE Published
    BY <1>2 DEF Published, Publish
<1>3. CASE Dropped
    <2>1. PICK q \in Subs : RedisDrop(q)
        BY <1>3 DEF Dropped
    <2>2. q # s => msgCh'[s] = msgCh[s]
        BY <1>1, <2>1 DEF RedisDrop, PubSubTypeOK
    <2> QED BY <2>1, <2>2
<1>4. CASE Forwarded
    <2>1. PICK q \in Subs : ForwardToHub(q)
        BY <1>4 DEF Forwarded
    <2>2. /\ msgCh' = [msgCh EXCEPT ![q] = Tail(@)]
          /\ broadcast' = Append(broadcast, [room |-> feedRoom[q], msg |-> Head(msgCh[q])])
        BY <2>1 DEF ForwardToHub, Forward
    <2> QED BY <1>1, <2>2 DEF PubSubTypeOK
<1> QED BY <1>1, <1>2, <1>3, <1>4 DEF Moves, Still, Delivered

\* What a step does to broadcast.
LEMMA BroadcastMoves ==
    ASSUME EventsInv, [Next]_vars, ~Down
    PROVE UNCHANGED broadcast \/ (\E e : broadcast' = Append(broadcast, e)) \/ Delivered
BY StepMoves DEF Moves, Still, Published, Dropped, Forwarded, ForwardToHub

\* Two messages of one feed.
LEMMA FeedOrder ==
    ASSUME EventsInv, [Next]_vars, ~Down, NEW r \in Rooms, NEW a, NEW b,
           NEW s \in Subs, feedRoom[s] = r, NEW i \in DOMAIN msgCh[s], NEW j \in DOMAIN msgCh[s],
           i < j, msgCh[s][i] = a, msgCh[s][j] = b
    PROVE Ahead(r, a, b)' \/ Arrives(r, a)
<1>1. msgCh[s] \in Seq(Messages) /\ BroadcastOK
    BY TypesOfInv DEF PubSubTypeOK, BroadcastOK
<1>2. /\ i \in 1..Len(msgCh[s]) /\ j \in 1..Len(msgCh[s]) /\ msgCh[s] # <<>>
      /\ Len(msgCh[s]) \in Nat
    BY <1>1
<1>3. ASSUME NEW k \in DOMAIN msgCh'[s], NEW l \in DOMAIN msgCh'[s], k < l,
             msgCh'[s][k] = a, msgCh'[s][l] = b
      PROVE Ahead(r, a, b)'
    <2>1. feedRoom'[s] = r
        BY <1>2, <1>3, FeedKeeps
    <2> QED BY <1>3, <2>1 DEF Ahead
<1>4. ASSUME NEW k \in DOMAIN msgCh'[s], msgCh'[s][k] = b PROVE InFeed(r, b)'
    BY <1>2, <1>4, FeedKeeps
<1>5. CASE msgCh'[s] = msgCh[s]
    BY <1>3, <1>5
<1>6. ASSUME NEW n \in Messages, msgCh'[s] = Append(msgCh[s], n) PROVE Ahead(r, a, b)'
    <2>1. /\ i \in DOMAIN msgCh'[s] /\ msgCh'[s][i] = a
          /\ j \in DOMAIN msgCh'[s] /\ msgCh'[s][j] = b
        BY <1>1, <1>2, <1>6
    <2> QED BY <1>3, <2>1
<1>7. CASE /\ msgCh'[s] = Tail(msgCh[s])
           /\ broadcast' = Append(broadcast, [room |-> r, msg |-> Head(msgCh[s])])
    <2>1. j - 1 \in DOMAIN msgCh'[s] /\ msgCh'[s][j - 1] = b
        BY <1>1, <1>2, <1>7
    <2>2. CASE i = 1
        <3>1. broadcast' = Append(broadcast, [room |-> r, msg |-> a])
            BY <1>1, <1>2, <1>7, <2>2
        <3>2. InBroadcast(r, a)'
            <4>1. /\ Len(broadcast) + 1 \in DOMAIN broadcast'
                  /\ broadcast'[Len(broadcast) + 1] = [room |-> r, msg |-> a]
                BY <1>1, <3>1 DEF BroadcastOK
            <4> QED BY <4>1 DEF InBroadcast
        <3>3. InFeed(r, b)'
            BY <1>4, <2>1
        <3> QED BY <3>2, <3>3 DEF Ahead
    <2>3. CASE i # 1
        <3>1. i - 1 \in DOMAIN msgCh'[s] /\ msgCh'[s][i - 1] = a /\ i - 1 < j - 1
            BY <1>1, <1>2, <1>7, <2>3
        <3> QED BY <1>3, <2>1, <3>1
    <2> QED BY <2>2, <2>3
<1> QED BY <1>2, <1>5, <1>6, <1>7, FeedMoves DEF Arrives

\* Two messages in broadcast.
LEMMA BroadcastOrder ==
    ASSUME EventsInv, [Next]_vars, ~Down, NEW r \in Rooms, NEW a \in Messages, NEW b \in Messages,
           NEW i \in DOMAIN broadcast, NEW j \in DOMAIN broadcast, i < j,
           broadcast[i] = [room |-> r, msg |-> a], broadcast[j] = [room |-> r, msg |-> b]
    PROVE Ahead(r, a, b)' \/ Arrives(r, a)
<1>1. BroadcastOK
    BY TypesOfInv DEF BroadcastOK
<1>2. /\ i \in 1..Len(broadcast) /\ j \in 1..Len(broadcast) /\ Len(broadcast) \in Nat
      /\ Head(broadcast) = broadcast[1]
    BY <1>1 DEF BroadcastOK
<1>3. CASE UNCHANGED broadcast
    BY <1>3 DEF Ahead
<1>4. ASSUME NEW e, broadcast' = Append(broadcast, e) PROVE Ahead(r, a, b)'
    <2>1. /\ i \in DOMAIN broadcast' /\ broadcast'[i] = broadcast[i]
          /\ j \in DOMAIN broadcast' /\ broadcast'[j] = broadcast[j]
        BY <1>1, <1>2, <1>4 DEF BroadcastOK
    <2> QED BY <2>1 DEF Ahead
<1>5. CASE Delivered /\ i = 1
    BY <1>2, <1>5, DeliveredIsTold DEF Arrives
<1>6. CASE Delivered /\ i # 1
    <2>1. /\ i - 1 \in DOMAIN Tail(broadcast) /\ Tail(broadcast)[i - 1] = broadcast[i]
          /\ j - 1 \in DOMAIN Tail(broadcast) /\ Tail(broadcast)[j - 1] = broadcast[j]
          /\ i - 1 < j - 1
        BY <1>1, <1>2, <1>6 DEF BroadcastOK
    <2>2. broadcast' = Tail(broadcast)
        BY <1>6 DEF Delivered
    <2> QED BY <2>1, <2>2 DEF Ahead
<1> QED BY <1>3, <1>4, <1>5, <1>6, BroadcastMoves

\* One has reached broadcast, the other has not.
LEMMA MixedOrder ==
    ASSUME EventsInv, [Next]_vars, ~Down, NEW r \in Rooms, NEW a \in Messages, NEW b \in Messages,
           InBroadcast(r, a), InFeed(r, b)
    PROVE Ahead(r, a, b)' \/ Arrives(r, a)
<1>1. BroadcastOK /\ PubSubTypeOK
    BY TypesOfInv DEF BroadcastOK
<1>2. PICK i \in DOMAIN broadcast : broadcast[i] = [room |-> r, msg |-> a]
    BY DEF InBroadcast
<1>3. i \in 1..Len(broadcast) /\ Len(broadcast) \in Nat /\ Head(broadcast) = broadcast[1]
    BY <1>1, <1>2 DEF BroadcastOK
<1>4. PICK s \in Subs : feedRoom[s] = r /\ \E k \in DOMAIN msgCh[s] : msgCh[s][k] = b
    BY DEF InFeed
<1>5. PICK j \in DOMAIN msgCh[s] : msgCh[s][j] = b
    BY <1>4
<1>6. /\ msgCh[s] \in Seq(Messages) /\ j \in 1..Len(msgCh[s]) /\ Len(msgCh[s]) \in Nat
      /\ msgCh[s] # <<>>
    BY <1>1, <1>5 DEF PubSubTypeOK
<1>7. CASE Delivered /\ i = 1
    BY <1>2, <1>3, <1>7, DeliveredIsTold DEF Arrives
<1>8. CASE Delivered /\ i # 1
    <2>1. i - 1 \in DOMAIN Tail(broadcast) /\ Tail(broadcast)[i - 1] = broadcast[i]
        BY <1>1, <1>3, <1>8 DEF BroadcastOK
    <2>2. broadcast' = Tail(broadcast) /\ msgCh' = msgCh
        BY <1>8 DEF Delivered
    <2>3. InFeed(r, b)'
        BY <1>4, <1>5, <1>6, <2>2, FeedKeeps
    <2>4. InBroadcast(r, a)'
        BY <1>2, <2>1, <2>2 DEF InBroadcast
    <2> QED BY <2>3, <2>4 DEF Ahead
<1>9. CASE UNCHANGED broadcast \/ \E e : broadcast' = Append(broadcast, e)
    <2>1. i \in DOMAIN broadcast' /\ broadcast'[i] = broadcast[i]
        BY <1>1, <1>2, <1>3, <1>9 DEF BroadcastOK
    <2>2. InBroadcast(r, a)'
        BY <1>2, <2>1 DEF InBroadcast
    <2>3. ASSUME NEW k \in DOMAIN msgCh'[s], msgCh'[s][k] = b PROVE Ahead(r, a, b)'
        <3>1. InFeed(r, b)'
            BY <1>4, <1>6, <2>3, FeedKeeps
        <3> QED BY <2>2, <3>1 DEF Ahead
    <2>4. CASE msgCh'[s] = msgCh[s]
        BY <1>5, <2>3, <2>4
    <2>5. ASSUME NEW n \in Messages, msgCh'[s] = Append(msgCh[s], n) PROVE Ahead(r, a, b)'
        <3>1. j \in DOMAIN msgCh'[s] /\ msgCh'[s][j] = b
            BY <1>5, <1>6, <2>5
        <3> QED BY <2>3, <3>1
    <2>6. CASE /\ msgCh'[s] = Tail(msgCh[s])
               /\ broadcast' = Append(broadcast, [room |-> r, msg |-> Head(msgCh[s])])
        <3>1. CASE j = 1
            <4>1. broadcast' = Append(broadcast, [room |-> r, msg |-> b])
                BY <1>5, <1>6, <2>6, <3>1
            <4>2. /\ Len(broadcast) + 1 \in DOMAIN broadcast'
                  /\ broadcast'[Len(broadcast) + 1] = [room |-> r, msg |-> b]
                BY <1>1, <4>1 DEF BroadcastOK
            <4>3. i < Len(broadcast) + 1
                BY <1>3
            <4> QED BY <1>2, <2>1, <4>2, <4>3 DEF Ahead
        <3>2. CASE j # 1
            <4>1. j - 1 \in DOMAIN msgCh'[s] /\ msgCh'[s][j - 1] = b
                BY <1>5, <1>6, <2>6, <3>2
            <4> QED BY <2>3, <4>1
        <3> QED BY <3>1, <3>2
    <2> QED BY <1>4, <1>6, <2>4, <2>5, <2>6, FeedMoves DEF Arrives
<1> QED BY <1>7, <1>8, <1>9, BroadcastMoves

\* The three places of a pair of messages, and the end of the pod.
LEMMA StepOrder ==
    ASSUME EventsInv, [Next]_vars, NEW r \in Rooms, NEW a \in Messages, NEW b \in Messages,
           Ahead(r, a, b)
    PROVE Ahead(r, a, b)' \/ Arrives(r, a)
<1>1. CASE Down
    BY <1>1 DEF Down, PodDown, Arrives
<1>2. CASE ~Down
    <2>1. CASE InBroadcast(r, a) /\ InFeed(r, b)
        BY <1>2, <2>1, MixedOrder
    <2>2. ASSUME NEW s \in Subs, feedRoom[s] = r, NEW i \in DOMAIN msgCh[s], NEW j \in DOMAIN msgCh[s],
                 i < j, msgCh[s][i] = a, msgCh[s][j] = b
          PROVE Ahead(r, a, b)' \/ Arrives(r, a)
        BY <1>2, <2>2, FeedOrder
    <2>3. ASSUME NEW i \in DOMAIN broadcast, NEW j \in DOMAIN broadcast, i < j,
                 broadcast[i] = [room |-> r, msg |-> a], broadcast[j] = [room |-> r, msg |-> b]
          PROVE Ahead(r, a, b)' \/ Arrives(r, a)
        BY <1>2, <2>3, BroadcastOrder
    <2>4. \/ \E s \in Subs : /\ feedRoom[s] = r
                             /\ \E i, j \in DOMAIN msgCh[s] :
                                   i < j /\ msgCh[s][i] = a /\ msgCh[s][j] = b
          \/ InBroadcast(r, a) /\ InFeed(r, b)
          \/ \E i, j \in DOMAIN broadcast :
                /\ i < j
                /\ broadcast[i] = [room |-> r, msg |-> a]
                /\ broadcast[j] = [room |-> r, msg |-> b]
        BY DEF Ahead
    <2> QED BY ONLY <2>1, <2>2, <2>3, <2>4
<1> QED BY <1>1, <1>2

\* Messages reach the members of a room in the order in which Redis handed them to
\* a feed (hub.go:94-95, :239-246, pubsub.go:37-49).
THEOREM ReceivedAlwaysInOrder == Spec => ReceivedInOrder
<1>1. EventsInv /\ [Next]_vars =>
          [\A r \in Rooms, a, b \in Messages : Ahead(r, a, b) => Ahead(r, a, b)' \/ Arrives(r, a)]_vars
    BY StepOrder
<1> QED BY <1>1, EventsInvariant, PTL DEF Spec, ReceivedInOrder

TakenOnce == \A c \in Clients :
    LET last == Last(send'[c])
    IN  Len(send'[c]) > Len(send[c]) /\ last.type = "chat_message" => TakenFor(c, last.room, last.arg)

\* Every chat message a client is told of is one that the same step takes from
\* broadcast, for a room the client is in (hub.go:239-246).
THEOREM ChatsAlwaysTaken == Spec => ChatsAreTaken
<1>1. EventsInv /\ [Next]_vars => [TakenOnce]_vars
    <2> SUFFICES ASSUME EventsInv, [Next]_vars, NEW c \in Clients, Len(send'[c]) > Len(send[c])
                 PROVE LET last == Last(send'[c])
                       IN  last.type = "chat_message" => TakenFor(c, last.room, last.arg)
        BY DEF TakenOnce
    <2> QED BY ToldHonest DEF Honest
<1> QED BY <1>1, EventsInvariant, PTL DEF Spec, ChatsAreTaken, TakenOnce

-----------------------------------------------------------------------------
(* When the pod panics. *)

Panicking == status = "running" /\ status' = "panicked"

\* A reply to a connection that is already unregistered.
StaleReply ==
    /\ incoming # <<>>
    /\ Head(incoming).client \in closed
    /\ Head(incoming).type \in {"join_room", "chat_message", "voice_join"}

\* Fan-outs to a room or a voice room never meet a closed channel
\* (hub.go:239-246, :265-272, :283-288).
LEMMA FanOutIsSafe ==
    ASSUME RegistryInv, NEW r \in Rooms, NEW S, S \subseteq rooms[r] \/ S \subseteq voiceRooms[r],
           NEW e
    PROVE ~Panics(ToEach(S, e))
BY DEF RegistryInv, LoopTypes, RegistryTypeOK, ClosedIsForgotten, Panics, ToEach

\* The farewell of a connection reaches clients of its rooms only: their
\* channels are open (hub.go:74-88).
LEMMA FarewellIsSafe ==
    ASSUME RegistryInv, NEW c \in clients,
           NEW order \in [Clients -> SetToAllKPermutations({r \in Rooms : c \in voiceRooms[r]})],
           \A p \in Clients : order[p] \in SetToSeqs(SharedVoice(c, p))
    PROVE ~Panics([p \in Clients |-> Farewell(c, p, order[p])])
<1> SUFFICES ASSUME NEW p \in closed
             PROVE Farewell(c, p, order[p]) = <<>>
    BY DEF Panics, RegistryInv, LoopTypes, RegistryTypeOK
<1>1. p \in Clients /\ p # c
    BY DEF RegistryInv, LoopTypes, RegistryTypeOK, ClosedIsForgotten
<1>2. p \notin RoomPeers(c)
    BY DEF RegistryInv, LoopTypes, RegistryTypeOK, ClosedIsForgotten, RoomPeers
<1>3. SharedVoice(c, p) = {}
    BY DEF RegistryInv, ClosedIsForgotten, SharedVoice
<1>4. order[p] \in SetToSeqs({})
    BY <1>1, <1>3
<1>5. DOMAIN order[p] = {}
    BY <1>4, FS_EmptySet DEF SetToSeqs
<1>6. VoiceLefts(c, order[p]) = <<>>
    BY <1>5 DEF VoiceLefts
<1> QED BY <1>1, <1>2, <1>6 DEF Farewell

\* A handler that only replies panics only for its sends.
LEMMA ReplyPanics == ASSUME NEW out, Reply(out), Panicking PROVE Panics(out)
BY DEF Reply, SendOnly, Panicking

\* The message types that reply, and those that do not (hub.go:114-134).
LEMMA IncomingPanics == ASSUME RegistryInv, HandleIncoming, Panicking PROVE StaleReply
<1> DEFINE c == Head(incoming).client
           r == Head(incoming).room
           t == Head(incoming).type
           target == Head(incoming).target
<1>1. incoming # <<>> /\ c \in Clients /\ r \in Rooms
    <2>1. incoming # <<>>
        BY DEF HandleIncoming
    <2>2. Head(incoming) \in Envelope
        BY <2>1 DEF RegistryInv, LoopTypes
    <2> QED BY <2>1, <2>2 DEF Envelope
<1>2. ASSUME NEW e, Panics(ToEach({c}, e)) PROVE c \in closed
    BY <1>2 DEF Panics, ToEach, RegistryInv, LoopTypes, RegistryTypeOK
<1>3. ASSUME NEW e PROVE ~Panics(ToEach({}, e))
    BY DEF Panics, ToEach, RegistryInv, LoopTypes, RegistryTypeOK
<1>4. CASE t = "join_room" /\ JoinRoom(c, r)
    <2>1. c \in closed
        BY <1>2, <1>3, <1>4, JoinSteps, ReplyPanics DEF Onward, Enter, Panicking
    <2> QED BY <1>1, <1>4, <2>1 DEF StaleReply
<1>5. ~LeaveRoom(c, r)
    BY DEF LeaveRoom, Panicking
<1>6. CASE t = "chat_message" /\ HandleChat(c, r)
    <2>1. c \in closed
        BY <1>2, <1>6, ReplyPanics DEF HandleChat, Panicking
    <2> QED BY <1>1, <1>6, <2>1 DEF StaleReply
<1>7. ~HandleTyping(c, r)
    BY <1>1, FanOutIsSafe, ReplyPanics DEF HandleTyping
<1>8. CASE t = "voice_join" /\ HandleVoiceJoin(c, r)
    <2> DEFINE peers == voiceRooms[r] \ {c}
               out == [p \in Clients |->
                     IF p = c THEN <<Event("voice_participants", r, {UserOf[q] : q \in peers})>>
                     ELSE IF p \in peers THEN <<Event("voice_joined", r, UserOf[c])>> ELSE <<>>]
    <2>1. Panics(out)
        BY <1>8 DEF HandleVoiceJoin, Panicking
    <2>2. c \in closed
        BY <1>1, <2>1 DEF Panics, RegistryInv, LoopTypes, RegistryTypeOK, ClosedIsForgotten
    <2> QED BY <1>1, <1>8, <2>2 DEF StaleReply
<1>9. ~HandleVoiceLeave(c, r)
    <2>1. ~Panics(ToEach(voiceRooms[r] \ {c}, Event("voice_left", r, UserOf[c])))
        BY <1>1, FanOutIsSafe
    <2> QED BY <2>1 DEF HandleVoiceLeave, Panicking
<1>10. ~RelayVoiceSignal(c, r, target)
    <2>1. ASSUME NEW p \in voiceRooms[r], NEW e PROVE ~Panics(ToEach({p}, e))
        BY <1>1, FanOutIsSafe
    <2> QED BY <1>3, <2>1, ReplyPanics DEF RelayVoiceSignal
<1>11. ~Reply(ToEach({}, Error))
    BY <1>3, ReplyPanics
<1> QED BY <1>4, <1>5, <1>6, <1>7, <1>8, <1>9, <1>10, <1>11 DEF HandleIncoming

\* Of all steps only the reply to a stale envelope panics.
LEMMA OnlyIncomingPanics == ASSUME EventsInv, [Next]_vars, Panicking PROVE StaleReply
<1> USE DEF Panicking
<1>1. ASSUME NEW c \in Clients,
             \/ Connect(c) \/ Disconnect(c) \/ WriterStops(c) \/ Write(c)
             \/ \E t \in MessageTypes, r \in Rooms, u \in Users \cup {NoUser} : ReadMessage(c, t, r, u)
      PROVE FALSE
    BY <1>1 DEF Connect, Disconnect, WriterStops, Write, ReadMessage
<1>2. ASSUME NEW c \in Clients, ReadInvalid(c) PROVE FALSE
    <2>1. c \notin closed
        BY <1>2 DEF ReadInvalid, EventsInv, HubInv, RegistryInv, ClosedIsGone
    <2>2. ~Panics(ToEach({c}, Error))
        BY <2>1 DEF Panics, ToEach, EventsInv, HubInv, RegistryInv, LoopTypes, RegistryTypeOK
    <2> QED BY <1>2, <2>2 DEF ReadInvalid
<1>3. ~HandleRegister
    BY DEF HandleRegister
<1>4. ~HandleUnregister
    BY FarewellIsSafe DEF HandleUnregister, AtSelect, Cleanup, EventsInv, HubInv
<1>5. ~HandleBroadcast
    <2>1. ASSUME broadcast # <<>> PROVE Head(broadcast).room \in Rooms
        <3>1. Head(broadcast) \in Post
            BY <2>1, TypesOfInv, HeadTailProperties DEF BroadcastOK
        <3> QED BY <3>1 DEF Post
    <2> QED BY <2>1, FanOutIsSafe DEF HandleBroadcast, AtSelect, SendOnly, EventsInv, HubInv
<1>6. ASSUME NEW s \in Subs, Feeds(s) PROVE FALSE
    BY <1>6 DEF Feeds, FeedStarts, FeedRecords, FeedReturns, FeedAcked, FeedDrops, ForwardToHub, NotFeeds
<1>7. ASSUME \/ \E r \in Rooms, m \in Messages : HttpStore(r, m)
             \/ \E p \in Post : HttpPublish(p)
             \/ \E r \in Rooms : RoomDeleted(r)
             \/ \E r \in Rooms, u \in Users : MembersChange(r, u)
             \/ \E u \in Users : PresenceExpires(u) \/ PresenceElsewhere(u)
             \/ Restart \/ PodKilled
             \/ UNCHANGED vars
      PROVE FALSE
    BY <1>7 DEF HttpStore, HttpPublish, RoomDeleted, MembersChange, PresenceExpires, PresenceElsewhere, Restart, PodKilled,
       PodDown, vars
<1> QED BY <1>1, <1>2, <1>3, <1>4, <1>5, <1>6, <1>7, IncomingPanics DEF Next, OtherStep, EventsInv, HubInv

\* The pod only ever panics on an envelope of a connection whose unregister was
\* handled first (hub.go:76 against :91).
THEOREM OnlyStaleReplies == Spec => OnlyStaleReplyPanics
<1>1. EventsInv /\ [Next]_vars =>
          [status = "running" /\ status' = "panicked" =>
              /\ incoming # <<>>
              /\ Head(incoming).client \in closed
              /\ Head(incoming).type \in {"join_room", "chat_message", "voice_join"}]_vars
    BY OnlyIncomingPanics DEF Panicking, StaleReply
<1> QED BY <1>1, EventsInvariant, PTL DEF Spec, OnlyStaleReplyPanics

=============================================================================

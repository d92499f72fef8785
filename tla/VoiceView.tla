----------------------------- MODULE VoiceView ------------------------------
(***************************************************************************)
(* What a participant of a voice room believes.  The hub tells a joiner    *)
(* who is there (voice_participants) and everybody later who comes and     *)
(* goes (voice_joined, voice_left); the browser at the other end keeps     *)
(* the set these events describe, and opens one peer connection per        *)
(* member.  `view` is that set, per client and room, from what the writer  *)
(* has put on the wire.                                                    *)
(***************************************************************************)
EXTENDS Hub

VARIABLE view

viewVars == <<vars, view>>

\* What the browser makes of one event.
Apply(v, e) ==
    CASE e.type = "voice_participants" -> [v EXCEPT ![e.room] = e.arg]
      [] e.type = "voice_joined"       -> [v EXCEPT ![e.room] = @ \cup {e.arg}]
      [] e.type = "voice_left"         -> [v EXCEPT ![e.room] = @ \ {e.arg}]
      [] OTHER                         -> v

ViewInit == Init /\ view = [c \in Clients |-> [r \in Rooms |-> {}]]

ViewWrite(c) == Write(c) /\ view' = [view EXCEPT ![c] = Apply(@, Head(send[c]))]

ViewNext ==
    \/ \E c \in Clients : ViewWrite(c)
    \/ OtherStep /\ UNCHANGED view

ViewSpec == ViewInit /\ [][ViewNext]_viewVars

ViewTypeOK == view \in [Clients -> [Rooms -> SUBSET Users]]

-----------------------------------------------------------------------------

\* What c will believe when it has received all that is waiting for it.
Settled(c) == FoldLeft(Apply, view[c], send[c])

\* A client in a voice room whose buffer has never overflowed ends up with
\* exactly the other participants, whatever joins, leaves, repeated joins,
\* disconnects and late unregisters went before (hub.go:248-289 and :81-85):
\* the participant list and the joined / left events never miss or revive a
\* peer between them.  (Each client is another user; two connections of one
\* user share an id in these events.)
VoiceViewConverges ==
    status = "running" =>
        \A r \in Rooms : \A c \in voiceRooms[r] \ lagged :
            conn[c] # "gone" =>
                Settled(c)[r] = {UserOf[p] : p \in voiceRooms[r] \ {c}}

=============================================================================

----------------------------- MODULE MCVoiceView ----------------------------
(* VoiceView where every connection is another user. *)
EXTENDS VoiceView, HubProps, TLC

CONSTANTS u0, u1, r1

OwnUsers == Clients \cup {u0}
OwnUserOf == [c \in Clients |-> c]
NobodysRooms == [r \in Rooms |-> u0]
VoiceRoomTypes == [r \in Rooms |-> "voice"]
Symmetry == Permutations(Clients)

\* States after the first overflow of a buffer are not explored.
NobodyLagged == lagged = {}
=============================================================================

------------------------------- MODULE MCHub --------------------------------
(* Instances of the hub: who uses which connection, and what rooms there are. *)
EXTENDS HubProps, TLC

CONSTANTS u0, u1, r1    \* a user that never connects, a user, a room

\* Every connection is another user, called like the connection; rooms belong
\* to somebody who is not connected.
OwnUsers == Clients \cup {u0}
OwnUserOf == [c \in Clients |-> c]

\* Every connection is a tab of the same user.
TabUsers == {u0, u1}
TabUserOf == [c \in Clients |-> u1]

NobodysRooms == [r \in Rooms |-> u0]

PublicRooms  == [r \in Rooms |-> "public"]
MixedRooms   == [r \in Rooms |-> IF r = r1 THEN "dm" ELSE "private"]

Symmetry == Permutations(Clients) \cup Permutations(Subs) \cup Permutations(Messages)
=============================================================================

------------------------------ MODULE MCRooms -------------------------------
(* Rooms on small instances. *)
EXTENDS Rooms, TLC

CONSTANTS owner

OwnedByOwner == [r \in RoomIds |-> owner]

Symmetry == Permutations(Requests) \cup Permutations(Users \ {owner})
=============================================================================

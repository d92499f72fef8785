----------------------------- MODULE MCFriends ------------------------------
(***************************************************************************)
(* Friends and Seeding on small instances.  Requests, rooms of two users   *)
(* and the starts of pods touch different rows: a behaviour takes the      *)
(* steps of one `part` only (deleting a user belongs to the first two).    *)
(***************************************************************************)
EXTENDS Friends, Seeding, TLC

VARIABLE part

Symmetry ==
    Permutations(Users) \cup Permutations(DmIds) \cup Permutations(Calls) \cup Permutations(Pods)

Init ==
    /\ part \in {"requests", "rooms", "seeding"}
    /\ FriendsInit
    /\ SeedingInit

Next ==
    /\ UNCHANGED part
    /\ \/ part = "requests" /\ FriendshipNext /\ UNCHANGED seedingVars
       \/ part = "rooms" /\ DmNext /\ UNCHANGED seedingVars
       \/ part # "seeding" /\ (\E u \in users : DeleteUser(u)) /\ UNCHANGED seedingVars
       \/ part = "seeding" /\ SeedingNext /\ UNCHANGED friendsVars

MCSpec == Init /\ [][Next]_<<part, friendsVars, seedingVars>>

=============================================================================

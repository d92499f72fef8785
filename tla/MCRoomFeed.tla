----------------------------- MODULE MCRoomFeed -----------------------------
(* RoomFeed on a small instance. *)
EXTENDS RoomFeed, TLC
=============================================================================

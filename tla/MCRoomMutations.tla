-------------------------- MODULE MCRoomMutations --------------------------
(* Two Rooms, one of which exists at the start, and a few calls.            *)
EXTENDS RoomMutations

CONSTANTS r1, r2
=============================================================================

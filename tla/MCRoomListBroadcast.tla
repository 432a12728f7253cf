------------------------- MODULE MCRoomListBroadcast ------------------------
(* Two peers, two handlers that change the rooms.                           *)
EXTENDS RoomListBroadcast

CONSTANTS p1, p2, h1, h2
=============================================================================

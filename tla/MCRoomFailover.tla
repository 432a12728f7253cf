--------------------------- MODULE MCRoomFailover ---------------------------
(* Model values for RoomFailover.                                            *)
EXTENDS RoomFailover

CONSTANTS a, b, c, r1

\* Once a supernode was removed, or has dropped the client late (Forget), and the
\* room is neither established nor resumed, it will not be again: neither property
\* says anything of what follows the commands and retries still queued.
Telling ==
  \/ established \/ resumed \/ intact
  \/ cmds # <<>> \/ DOMAIN cm.pending_room_join_retries # {}
=============================================================================

------------------------------- MODULE MCRooms ------------------------------
(* Three processors and two rooms.                                         *)
EXTENDS Rooms
=============================================================================

--------------------------- MODULE MCRoomManager ---------------------------
(***************************************************************************)
(* Small instances of RoomManager for TLC.                                 *)
(***************************************************************************)
EXTENDS RoomManager
=============================================================================

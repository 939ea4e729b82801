------------------------------ MODULE MCChatRooms ------------------------------
(***************************************************************************)
(* Model values for checking ChatRooms: instance URLs and call slots.      *)
(***************************************************************************)
EXTENDS ChatRooms

CONSTANTS u1, u2, t1, t2

=============================================================================

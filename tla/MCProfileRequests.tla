--------------------------- MODULE MCProfileRequests ---------------------------
(* Model values for ProfileRequests. *)
EXTENDS ProfileRequests
CONSTANTS k1, k2
=============================================================================

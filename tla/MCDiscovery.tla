------------------------------ MODULE MCDiscovery ------------------------------
(* Model values for Discovery: instances, and kind-0 contents. *)
EXTENDS Discovery, TLC
CONSTANTS a, b, p, q
=============================================================================

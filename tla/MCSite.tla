-------------------------------- MODULE MCSite ---------------------------------
(* Two channels; in the first one's room a bridged message and a Nostr viewer's. *)
EXTENDS Site
CONSTANTS a, b, ours, theirs
Room == [t \in Texts |-> a]
Addresses == {Bad, [host |-> a, path |-> "slash"], [host |-> a, path |-> "page"], [host |-> b, path |-> "root"]}
=============================================================================

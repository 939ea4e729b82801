--------------------------- MODULE DeliveryContract ----------------------------
(***************************************************************************)
(* What ChatBridgeService promises of the way from Nostr to the source:     *)
(* whatever the chains, the pool and its sockets do, an arrival is          *)
(* delivered at most once or given up; nothing else is delivered; what one  *)
(* sender says in the open room overtakes nothing of theirs there; and a    *)
(* crash loses what is on its way. What an earlier room left behind may     *)
(* come at any time.                                                        *)
(***************************************************************************)
EXTENDS Naturals

CONSTANTS
    Items,     \* arrivals: records with a text, a number and a room
    Author     \* who wrote each text

VARIABLES
    room,      \* the open room (0: none)
    pending,   \* arrivals on their way
    delivered  \* arrivals that the source was sent

contractVars == <<room, pending, delivered>>

Known == pending \cup delivered

Init == room = 0 /\ pending = {} /\ delivered = {}

\* Rooms are numbered: nothing is known of a room that opens.
Open ==
    /\ room = 0 /\ room' \in Nat \ {0} /\ \A j \in Known : j.room < room'
    /\ UNCHANGED <<pending, delivered>>

Close == room # 0 /\ room' = 0 /\ UNCHANGED <<pending, delivered>>

\* Arrivals are numbered: whatever arrives in the open room is new.
Arrive(i) ==
    /\ room # 0 /\ i.room = room /\ \A j \in Known : j.no < i.no
    /\ pending' = pending \cup {i} /\ UNCHANGED <<room, delivered>>

GiveUp(i) == i \in pending /\ pending' = pending \ {i} /\ UNCHANGED <<room, delivered>>

\* Is i the first of its sender's on their way in the open room?
First(i) ==
    \A j \in pending :
        j.room = room /\ i.room = room /\ Author[j.text] = Author[i.text] => i.no <= j.no

Deliver(i) ==
    /\ i \in pending /\ First(i)
    /\ pending' = pending \ {i} /\ delivered' = delivered \cup {i} /\ UNCHANGED room

Crash == room' = 0 /\ pending' = {} /\ UNCHANGED delivered

Next ==
    \/ Open \/ Close \/ Crash
    \/ \E i \in Items : Arrive(i) \/ GiveUp(i) \/ Deliver(i)

Spec == Init /\ [][Next]_contractVars

=============================================================================

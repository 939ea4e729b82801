--------------------------- MODULE ListenerContract ----------------------------
(***************************************************************************)
(* What ChatBridgeService relies on when it stores the handle of a source  *)
(* listener: from start() to stop() the listener is either at work on its  *)
(* one connection (dialling or connected) or waiting to dial again, it     *)
(* never gives up, it slows down when the source is hopeless, it speeds up *)
(* again only while at work, and stop() is final.                          *)
(***************************************************************************)

VARIABLES
    link,  \* "idle" before start(), then "busy", "waiting", "stopped"
    slow   \* is it on the slow cadence?

contractVars == <<link, slow>>

Init == link = "idle" /\ slow = FALSE

Start == link = "idle" /\ link' = "busy" /\ slow' = FALSE

\* An attempt fails or a connection ends: wait, perhaps on the slow cadence from
\* now on.
BackOff == link = "busy" /\ link' = "waiting" /\ slow' \in {slow, TRUE}

\* Only a connection that works leaves the slow cadence.
SpeedUp == link = "busy" /\ slow /\ slow' = FALSE /\ UNCHANGED link

Retry == link = "waiting" /\ link' = "busy" /\ UNCHANGED slow

Stop == link \in {"busy", "waiting"} /\ link' = "stopped" /\ slow' = FALSE

Next == Start \/ BackOff \/ SpeedUp \/ Retry \/ Stop

Spec == Init /\ [][Next]_contractVars /\ WF_contractVars(Retry)

=============================================================================

---------------------------- MODULE OwncastListener ----------------------------
(***************************************************************************)
(* OwncastChatListener: the reconnecting chat connection to one instance.  *)
(* connect() awaits /api/config and /api/chat/register and then opens a    *)
(* WebSocket whose events drive the rest; stop() may land anywhere.        *)
(*                                                                         *)
(* Abstractions:                                                           *)
(*  - delays are in seconds, and a wait is the delay its timer was armed   *)
(*    with: time itself does not pass, an armed timer may just fire;       *)
(*  - the failure counter saturates at MaxFailures, the only value it is   *)
(*    compared with, so the saturation is exact;                           *)
(*  - a WebSocket constructor that throws counts as a failed registration; *)
(*  - start() is called once per listener, as the adapter does;            *)
(*  - chat frames and the user ids they are filtered by are left out.      *)
(***************************************************************************)
EXTENDS Naturals

CONSTANTS
    MaxFailures,      \* MAX_CONSECUTIVE_FAILURES
    FirstDelay,       \* initial reconnectDelayMs
    MaxDelay,         \* MAX_RECONNECT_DELAY_MS
    DormantInterval   \* DORMANT_INTERVAL_MS

ASSUME ListenerAssumption ==
    /\ MaxFailures \in Nat \ {0} /\ FirstDelay \in Nat \ {0}
    /\ MaxDelay \in Nat /\ DormantInterval \in Nat
    /\ FirstDelay <= MaxDelay /\ MaxDelay <= DormantInterval

VARIABLES
    started, stopped,
    dial,          \* the await connect() is parked on
    ws,            \* state of the one socket
    provenHealthy, \* did that socket last?
    healthyTimer,  \* is the uptime timer armed?
    reconnectTimer,    \* delay the reconnect timer is armed with, 0 for none
    reconnectDelay,    \* delay of the next fast wait
    failures, dormant,
    reachable,     \* does the instance run chat, and its network work?
    misses,        \* history: attempts that came to nothing since one held
    disabledSeen,  \* history: reported chatDisabled since a connection held
    lastWait       \* history: the longest wait since a connection held

pace == <<reconnectTimer, reconnectDelay, failures, dormant>>
history == <<misses, disabledSeen, lastWait>>
vars == <<started, stopped, dial, ws, provenHealthy, healthyTimer, pace, reachable, history>>

-----------------------------------------------------------------------------
(* Types *)

\* Every variable has its type.
TypeOK ==
    /\ started \in BOOLEAN /\ stopped \in BOOLEAN /\ reachable \in BOOLEAN
    /\ dial \in {"none", "config", "register"}
    /\ ws \in {"none", "connecting", "open", "closing"}
    /\ provenHealthy \in BOOLEAN /\ healthyTimer \in BOOLEAN
    /\ reconnectTimer \in Nat
    /\ reconnectDelay \in FirstDelay..MaxDelay
    /\ failures \in 0..MaxFailures /\ dormant \in BOOLEAN
    /\ misses \in 0..MaxFailures /\ disabledSeen \in BOOLEAN
    /\ lastWait \in Nat

-----------------------------------------------------------------------------
(* Helpers *)

\* The smaller of the two.
AtMost(n, cap) == IF n < cap THEN n ELSE cap

\* arm: at most one timer, none once stopped.
Arm(delay) ==
    reconnectTimer' = IF stopped \/ reconnectTimer # 0 THEN reconnectTimer ELSE delay

\* The backed-off delay.
Doubled(delay) == AtMost(2 * delay, MaxDelay)

\* Mutant of ScheduleReconnect: it returns for a disconnect that does not count
\* before it has armed the timer.
ScheduleReconnectCounted(count) ==
    IF stopped \/ reconnectTimer # 0 \/ ~count
    THEN UNCHANGED pace
    ELSE /\ failures' = AtMost(failures + 1, MaxFailures)
         /\ dormant' = (dormant \/ failures' >= MaxFailures)
         /\ reconnectDelay' = IF dormant' THEN reconnectDelay ELSE Doubled(reconnectDelay)
         /\ Arm(IF dormant' THEN DormantInterval ELSE reconnectDelay)

\* scheduleReconnect: count the failure, go dormant when the budget is spent,
\* and arm the slow or the backed-off wait.
ScheduleReconnect(count) ==
    IF stopped \/ reconnectTimer # 0
    THEN UNCHANGED pace
    ELSE /\ failures' = IF count THEN AtMost(failures + 1, MaxFailures) ELSE failures
         /\ dormant' = (dormant \/ failures' >= MaxFailures)
         /\ reconnectDelay' = IF dormant' THEN reconnectDelay ELSE Doubled(reconnectDelay)
         /\ Arm(IF dormant' THEN DormantInterval ELSE reconnectDelay)

\* One more attempt that came to nothing, as the history counts it.
CountMiss == misses' = AtMost(misses + 1, MaxFailures)

-----------------------------------------------------------------------------
(* Actions *)

\* start() resets the state and connect() asks for the config.
Start ==
    /\ ~started /\ started' = TRUE
    /\ dial' = "config"
    /\ UNCHANGED <<stopped, ws, provenHealthy, healthyTimer, pace, reachable, history>>

\* chatIsDisabled answers; an unreadable config counts as chat being on. The
\* listener goes dormant and arms even when stop() came first (arm is then
\* without effect).
ConfigAnswers ==
    /\ dial = "config"
    /\ \E disabled \in (IF reachable THEN {FALSE} ELSE BOOLEAN) :
          IF disabled
          THEN /\ dial' = "none" /\ dormant' = TRUE
               /\ Arm(DormantInterval)
               /\ disabledSeen' = TRUE
               /\ UNCHANGED <<reconnectDelay, failures>>
          ELSE /\ dial' = IF stopped THEN "none" ELSE "register"
               /\ UNCHANGED <<pace, disabledSeen>>
    /\ UNCHANGED <<started, stopped, ws, provenHealthy, healthyTimer, reachable,
                   misses, lastWait>>

\* Mutant of Registered: a stop() that landed during the registration goes unseen.
RegisteredUnchecked ==
    /\ dial = "register" /\ dial' = "none"
    /\ ws' = "connecting" /\ provenHealthy' = FALSE
    /\ UNCHANGED <<started, stopped, healthyTimer, pace, reachable, history>>

\* The registration succeeds, and the socket is created unless stop() landed.
Registered ==
    /\ dial = "register" /\ dial' = "none"
    /\ IF stopped
       THEN UNCHANGED <<ws, provenHealthy>>
       ELSE ws' = "connecting" /\ provenHealthy' = FALSE
    /\ UNCHANGED <<started, stopped, healthyTimer, pace, reachable, history>>

\* The registration fails, or times out.
RegisterFails ==
    /\ dial = "register" /\ ~reachable /\ dial' = "none"
    /\ ScheduleReconnect(TRUE)
    /\ CountMiss
    /\ UNCHANGED <<started, stopped, ws, provenHealthy, healthyTimer, reachable,
                   disabledSeen, lastWait>>

\* ws 'open': the handshake is no proof, uptime is.
Opens ==
    /\ ws = "connecting" /\ ws' = "open"
    /\ healthyTimer' = TRUE
    /\ UNCHANGED <<started, stopped, dial, provenHealthy, pace, reachable, history>>

\* Mutant of MarkHealthy: the slow cadence is left, the budget stays spent.
MarkHealthyUncleared ==
    /\ healthyTimer /\ healthyTimer' = FALSE
    /\ provenHealthy' = TRUE
    /\ dormant' = FALSE /\ reconnectDelay' = FirstDelay
    /\ misses' = 0 /\ disabledSeen' = FALSE /\ lastWait' = 0
    /\ UNCHANGED <<started, stopped, dial, ws, reconnectTimer, failures, reachable>>

\* The connection lasted MIN_HEALTHY_CONNECTION_MS: a fresh budget.
MarkHealthy ==
    /\ healthyTimer /\ healthyTimer' = FALSE
    /\ provenHealthy' = TRUE
    /\ failures' = 0 /\ dormant' = FALSE /\ reconnectDelay' = FirstDelay
    /\ misses' = 0 /\ disabledSeen' = FALSE /\ lastWait' = 0
    /\ UNCHANGED <<started, stopped, dial, ws, reconnectTimer, reachable>>

\* ws 'close': the dial was refused, the connection dropped, or stop() closed
\* it. The end of a connection that held does not count as a failure.
Closes ==
    /\ ws = "closing" \/ (ws \in {"connecting", "open"} /\ ~reachable)
    /\ ws' = "none" /\ healthyTimer' = FALSE
    /\ ScheduleReconnect(~provenHealthy)
    /\ IF provenHealthy \/ stopped THEN UNCHANGED misses ELSE CountMiss
    /\ UNCHANGED <<started, stopped, dial, provenHealthy, reachable, disabledSeen, lastWait>>

\* Mutant of TimerFires: every attempt starts on the fast cadence.
TimerFiresAwake ==
    /\ reconnectTimer # 0 /\ reconnectTimer' = 0
    /\ dial' = "config" /\ dormant' = FALSE
    /\ lastWait' = reconnectTimer
    /\ UNCHANGED <<started, stopped, ws, provenHealthy, healthyTimer, reconnectDelay,
                   failures, reachable, misses, disabledSeen>>

\* The reconnect timer fires and connect() asks for the config.
TimerFires ==
    /\ reconnectTimer # 0 /\ reconnectTimer' = 0
    /\ dial' = "config"
    /\ lastWait' = reconnectTimer
    /\ UNCHANGED <<started, stopped, ws, provenHealthy, healthyTimer, reconnectDelay,
                   failures, dormant, reachable, misses, disabledSeen>>

\* stop() clears the timers and closes the socket; a request in flight resumes.
Stop ==
    /\ started /\ ~stopped /\ stopped' = TRUE
    /\ reconnectTimer' = 0 /\ healthyTimer' = FALSE
    /\ ws' = IF ws = "none" THEN "none" ELSE "closing"
    /\ UNCHANGED <<started, dial, provenHealthy, reconnectDelay, failures, dormant,
                   reachable, history>>

\* The instance, or the way to it, breaks or recovers.
ReachabilityTurns ==
    /\ reachable' = ~reachable
    /\ UNCHANGED <<started, stopped, dial, ws, provenHealthy, healthyTimer, pace, history>>

Init ==
    /\ started = FALSE /\ stopped = FALSE /\ dial = "none" /\ ws = "none"
    /\ provenHealthy = FALSE /\ healthyTimer = FALSE
    /\ reconnectTimer = 0 /\ reconnectDelay = FirstDelay /\ failures = 0 /\ dormant = FALSE
    /\ reachable \in BOOLEAN
    /\ misses = 0 /\ disabledSeen = FALSE /\ lastWait = 0

Next ==
    \/ Start \/ ConfigAnswers \/ Registered \/ RegisterFails \/ Opens \/ MarkHealthy
    \/ Closes \/ TimerFires \/ Stop \/ ReachabilityTurns

Spec == Init /\ [][Next]_vars

(* Both requests carry a timeout and the timers fire. The WebSocket handshake *)
(* carries none: that it ends, one way or the other, is an assumption on the  *)
(* network, and so is that a dropped connection is noticed.                   *)
FairSpec ==
    /\ Spec
    /\ WF_vars(ConfigAnswers) /\ WF_vars(Registered \/ RegisterFails)
    /\ WF_vars(Opens \/ Closes) /\ WF_vars(MarkHealthy) /\ WF_vars(TimerFires)

-----------------------------------------------------------------------------
(* Properties *)

\* From start() to stop() exactly one of these is there: a request in flight, a
\* socket, an armed reconnect timer. With none the room would be deaf for the
\* rest of the stream; with two it would join twice.
OneAttempt ==
    started /\ ~stopped =>
        \/ dial # "none" /\ ws = "none" /\ reconnectTimer = 0
        \/ dial = "none" /\ ws # "none" /\ reconnectTimer = 0
        \/ dial = "none" /\ ws = "none" /\ reconnectTimer # 0

\* After stop() nothing the listener does can bring it back: no timer is armed
\* and what is left of a socket is closing ("leaves no orphaned socket").
StopIsFinal ==
    stopped => reconnectTimer = 0 /\ ~healthyTimer /\ ws \in {"none", "closing"}

\* The listener is dormant exactly when the last MaxFailures attempts in a row
\* came to nothing, or the instance said chat is off, since a connection held.
DormancyExact ==
    ~stopped => (dormant <=> misses >= MaxFailures \/ disabledSeen)

\* "Patient backoff": until a connection holds, no wait is shorter than the one
\* before it.
PatientBackoff == reconnectTimer # 0 => reconnectTimer >= lastWait

\* No fault is terminal: once the instance stays reachable, a listener that is
\* not stopped ends up connected on the fast cadence with a fresh budget.
NeverTerminal ==
    <>[]reachable => <>[](started /\ ~stopped =>
                             ws = "open" /\ provenHealthy /\ ~dormant /\ failures = 0)

\* The listener implements the contract the chat service relies on.
Link == IF ~started THEN "idle"
        ELSE IF stopped THEN "stopped"
        ELSE IF reconnectTimer # 0 THEN "waiting"
        ELSE "busy"
Slow == dormant /\ ~stopped

Contract == INSTANCE ListenerContract WITH link <- Link, slow <- Slow

\* Every behaviour of the listener is one of ListenerContract: one connection at
\* work or one wait, slow after a hopeless source, final after stop().
ImplementsContract == Contract!Spec

=============================================================================

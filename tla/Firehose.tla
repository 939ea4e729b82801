------------------------------- MODULE Firehose --------------------------------
(***************************************************************************)
(* The two standing subscriptions of ChatBridgeService: the 1311 firehose   *)
(* on the chat relay with its watchdog, and the network watcher, which has  *)
(* none. A health check ends a window of HEALTH_CHECK_MS, the unit of time. *)
(*                                                                          *)
(* Abstractions:                                                            *)
(*  - chatFromNostr is on: with it off nothing is subscribed;               *)
(*  - the chat relay is one relay, so every report exceeds the disconnect   *)
(*    threshold and disconnectedRelayCount decides nothing;                 *)
(*  - the counters of a window only matter as zero or more;                 *)
(*  - the echo of a bridged 1311 comes after its publish was counted, in    *)
(*    that window or the next: what the watchdog assumes of the relay;      *)
(*  - events carry nothing: ChatRooms has the rooms.                        *)
(***************************************************************************)
EXTENDS Naturals, FiniteSets

CONSTANTS
    ChatRelay,          \* the relay of the 1311 rooms
    NetworkRelays,      \* networkChatReadRelays; {} with the flag off
    EchoMissRestart,    \* ECHO_MISS_RESTART
    MaxSilence          \* MAX_SILENCE_MS in windows

ASSUME FirehoseAssumption ==
    /\ EchoMissRestart \in Nat \ {0} /\ MaxSilence \in Nat \ {0}
    /\ IsFiniteSet(NetworkRelays)

Local == INSTANCE StandingSub WITH Relays <- {ChatRelay}
Net == INSTANCE StandingSub WITH Relays <- NetworkRelays

VARIABLES
    up,           \* does the chat relay serve now? (outside the bridge)
    nostrSub,     \* the firehose
    networkSub,   \* the network watcher
    refreshing,   \* is a refreshRooms parked on an await?
    stopped,      \* has stop() run?
    recent,       \* did the last restart happen within MIN_RESTART_INTERVAL_MS?
    published,    \* publishedSinceCheck > 0
    seen,         \* seenSinceCheck > 0
    streak,       \* echoMissStreak
    silence,      \* windows begun since the last event or restart
    echoes,       \* echoes on their way: of this window, of the last one
    \* history, for the properties:
    heard,        \* was the firehose open in this window: throughout, part, never
    steady,       \* was it open throughout the last window?
    deaf          \* windows in a row with a publish in which it never was

subVars == <<nostrSub, networkSub>>
watchVars == <<recent, published, seen, streak, silence>>
histVars == <<heard, steady, deaf>>
vars == <<up, subVars, refreshing, stopped, watchVars, echoes, histVars>>

-----------------------------------------------------------------------------
(* Types *)

TypeOK ==
    /\ up \in BOOLEAN
    /\ nostrSub \in Local!Subs /\ networkSub \in Net!Subs
    /\ refreshing \in BOOLEAN /\ stopped \in BOOLEAN
    /\ recent \in BOOLEAN /\ published \in BOOLEAN /\ seen \in BOOLEAN
    /\ streak \in 0..(EchoMissRestart - 1) /\ silence \in 0..MaxSilence
    /\ echoes \subseteq {"now", "late"}
    /\ heard \in {"throughout", "part", "never"} /\ steady \in BOOLEAN
    /\ deaf \in 0..EchoMissRestart

-----------------------------------------------------------------------------
(* Helpers *)

Open(s) == Local!At(s, ChatRelay, "open")

\* Mutant of Ensured: a stopped service is not told from a running one.
EnsuredAlways(s, opened) == IF s.held THEN s ELSE opened

\* ensureNostrSub and ensureNetworkSub.
Ensured(s, opened) == IF stopped \/ s.held THEN s ELSE opened

\* The firehose moves to s: what it can hear, and the echoes that it loses.
MoveLocal(s) ==
    /\ nostrSub' = s
    /\ heard' = CASE heard = "never" /\ Open(s) -> "part"
                  [] heard = "throughout" /\ ~Open(s) -> "part"
                  [] OTHER -> heard
    /\ echoes' = IF Open(s) THEN echoes ELSE {}

\* restartNostrSub: the counters are cleared and the subscription replaced.
Restart ==
    /\ published' = FALSE /\ seen' = FALSE /\ streak' = 0
    /\ recent' = TRUE /\ silence' = 0
    /\ nostrSub' = Local!Opened /\ echoes' = {}
    /\ heard' = "never" /\ steady' = FALSE /\ deaf' = 0

-----------------------------------------------------------------------------
(* The service *)

\* The refresh timer fires; with one parked already nothing is new here.
RefreshTick ==
    /\ ~stopped /\ ~refreshing
    /\ refreshing' = TRUE
    /\ UNCHANGED <<up, subVars, stopped, watchVars, echoes, histVars>>

\* refreshRooms resumes and comes to its tail, or is rejected before it.
RefreshTail ==
    /\ refreshing /\ refreshing' = FALSE
    /\ \/ /\ MoveLocal(Ensured(nostrSub, Local!Opened))
          /\ networkSub' = IF NetworkRelays = {} THEN networkSub
                           ELSE Ensured(networkSub, Net!Opened)
       \/ UNCHANGED <<subVars, heard, echoes>>
    /\ UNCHANGED <<up, stopped, watchVars, steady, deaf>>

\* handleSourceChat: the gateway has published a 1311, and it is counted. The
\* relay sends it back if the firehose is open by then.
Publish ==
    /\ ~stopped
    /\ published' = TRUE
    /\ echoes' = IF Open(nostrSub) THEN echoes \cup {"now"} ELSE echoes
    /\ UNCHANGED <<up, subVars, refreshing, stopped, recent, seen, streak, silence, histVars>>

\* handleNostrEvent counts what the firehose brings: an echo, or a viewer's.
Hear(left) ==
    /\ Open(nostrSub)
    /\ seen' = TRUE /\ silence' = 0
    /\ echoes' = left
    /\ UNCHANGED <<up, subVars, refreshing, stopped, recent, published, streak, histVars>>

HearEcho == \E e \in echoes : Hear(echoes \ {e})
HearViewer == Hear(echoes)

EchoMissing == published /\ ~seen

\* Mutants of EchoLost: one window is enough; one too many is needed.
EchoLostAtOnce == EchoMissing
EchoLostLate == EchoMissing /\ streak >= EchoMissRestart

\* Published in EchoMissRestart windows and nothing received.
EchoLost == EchoMissing /\ streak + 1 >= EchoMissRestart

\* Mutant of Silent: the backstop is missing.
SilentNever == {FALSE}

\* The silence backstop: an event that came right after a check is younger by
\* a window than one that came with it.
Silent == IF silence < MaxSilence - 1 THEN {FALSE}
          ELSE IF silence = MaxSilence - 1 THEN BOOLEAN ELSE {TRUE}

\* The window ends: which of its echoes are a window late, how it was heard.
NextWindow ==
    /\ published' = FALSE /\ seen' = FALSE
    /\ streak' = IF EchoMissing THEN streak + 1 ELSE 0
    /\ silence' = IF silence < MaxSilence THEN silence + 1 ELSE silence
    /\ echoes' = IF echoes = {} THEN {} ELSE {"late"}
    /\ heard' = IF Open(nostrSub) THEN "throughout" ELSE "never"
    /\ steady' = (heard = "throughout")
    /\ deaf' = IF published /\ heard = "never" THEN deaf + 1 ELSE 0
    /\ UNCHANGED <<nostrSub, recent>>

\* checkSubscriptionHealth, once no echo of the window before is on its way.
CheckHealth ==
    /\ ~stopped /\ nostrSub.held /\ "late" \notin echoes
    /\ \E silent \in Silent : IF EchoLost \/ silent THEN Restart ELSE NextWindow
    /\ UNCHANGED <<up, networkSub, refreshing, stopped>>

\* MIN_RESTART_INTERVAL_MS have passed since the last restart.
FloorElapses ==
    /\ recent /\ recent' = FALSE
    /\ UNCHANGED <<up, subVars, refreshing, stopped, published, seen, streak, silence,
                   echoes, histVars>>

\* stop(): the handles are detached and closed.
Stop ==
    /\ ~stopped /\ nostrSub.held
    /\ stopped' = TRUE
    /\ MoveLocal(Local!Closed)
    /\ networkSub' = Net!Closed
    /\ UNCHANGED <<up, refreshing, watchVars, steady, deaf>>

-----------------------------------------------------------------------------
(* The chat relay's side of the firehose *)

LocalDialled ==
    /\ Local!At(nostrSub, ChatRelay, "dialling")
    /\ MoveLocal(Local!Dialled(nostrSub, ChatRelay, up))
    /\ UNCHANGED <<up, networkSub, refreshing, stopped, watchVars, steady, deaf>>

\* The REQ falls silent, or is served again after a redial of the library.
LocalLapses ==
    /\ \/ ~up /\ Open(nostrSub) /\ MoveLocal(Local!Moved(nostrSub, ChatRelay, "mute"))
       \/ /\ up /\ Local!At(nostrSub, ChatRelay, "mute")
          /\ MoveLocal(Local!Moved(nostrSub, ChatRelay, "open"))
    /\ UNCHANGED <<up, networkSub, refreshing, stopped, watchVars, steady, deaf>>

LocalReopens ==
    /\ Local!At(nostrSub, ChatRelay, "cooling")
    /\ MoveLocal(Local!Reopened(nostrSub, ChatRelay))
    /\ UNCHANGED <<up, networkSub, refreshing, stopped, watchVars, steady, deaf>>

\* The relay ends the REQ, or the socket under it. A reported close restarts
\* the firehose, unless the last restart is recent.
LocalEnds ==
    /\ ~up
    /\ \E limited \in (IF Open(nostrSub) THEN BOOLEAN
                       ELSE IF Local!At(nostrSub, ChatRelay, "mute") THEN {FALSE} ELSE {}) :
          LET s == Local!Ends(nostrSub, ChatRelay, limited) IN
              IF Local!Reports(nostrSub, s) /\ ~recent
              THEN Restart
              ELSE /\ MoveLocal(s)
                   /\ UNCHANGED <<watchVars, steady, deaf>>
    /\ UNCHANGED <<up, networkSub, refreshing, stopped>>

-----------------------------------------------------------------------------
(* The network relays' side of the watcher: they serve or not at any time *)

NetStep(s) ==
    /\ networkSub' = s
    /\ UNCHANGED <<up, nostrSub, refreshing, stopped, watchVars, echoes, histVars>>

NetDialled(r) ==
    /\ Net!At(networkSub, r, "dialling")
    /\ \E connected \in BOOLEAN : NetStep(Net!Dialled(networkSub, r, connected))

NetLapses(r) ==
    \/ Net!At(networkSub, r, "open") /\ NetStep(Net!Moved(networkSub, r, "mute"))
    \/ Net!At(networkSub, r, "mute") /\ NetStep(Net!Moved(networkSub, r, "open"))

NetReopens(r) ==
    /\ Net!At(networkSub, r, "cooling")
    /\ NetStep(Net!Reopened(networkSub, r))

\* A reported close closes the handle and subscribes again at once.
NetEnds(r) ==
    \E limited \in (IF Net!At(networkSub, r, "open") THEN BOOLEAN
                   ELSE IF Net!At(networkSub, r, "mute") THEN {FALSE} ELSE {}) :
        LET s == Net!Ends(networkSub, r, limited) IN
            NetStep(IF Net!Reports(networkSub, s) THEN Net!Opened ELSE s)

\* The chat relay, or the way to it, comes and goes.
RelayTurns ==
    /\ up' = ~up
    /\ UNCHANGED <<subVars, refreshing, stopped, watchVars, echoes, histVars>>

-----------------------------------------------------------------------------

Init ==
    /\ up \in BOOLEAN
    /\ nostrSub = Local!Closed /\ networkSub = Net!Closed
    /\ refreshing = TRUE /\ stopped = FALSE
    /\ recent = FALSE /\ published = FALSE /\ seen = FALSE
    /\ streak = 0 /\ silence = 0 /\ echoes = {}
    /\ heard = "never" /\ steady = FALSE /\ deaf = 0

Service == RefreshTick \/ RefreshTail \/ Publish \/ HearEcho \/ HearViewer
           \/ CheckHealth \/ FloorElapses \/ Stop

Wire == \/ LocalDialled \/ LocalLapses \/ LocalReopens \/ LocalEnds \/ RelayTurns
        \/ \E r \in NetworkRelays :
               NetDialled(r) \/ NetLapses(r) \/ NetReopens(r) \/ NetEnds(r)

Next == Service \/ Wire

Spec == Init /\ [][Next]_vars

(* The timers fire, the dials end and the echoes of an open REQ come; the    *)
(* rows can be read now and then, so that a refresh comes to its tail.       *)
FairSpec ==
    /\ Spec
    /\ WF_vars(RefreshTick) /\ SF_vars(RefreshTail /\ nostrSub'.held)
    /\ WF_vars(CheckHealth) /\ WF_vars(HearEcho)
    /\ WF_vars(LocalDialled) /\ WF_vars(LocalReopens)

-----------------------------------------------------------------------------
(* Properties *)

\* Nothing stays subscribed behind a stop(), with a refresh still parked on an
\* await or a close being handled.
StoppedStaysClosed == stopped => ~nostrSub.held /\ ~networkSub.held

\* The echo rule never restarts a firehose that was open throughout this window
\* and the last: echoes that cross the edge of a window do not count as lost.
HeardIsKept ==
    steady /\ heard = "throughout" /\ "late" \notin echoes => ~EchoLost

\* A firehose that hears nothing in windows with a publish is replaced by the check that
\* ends the EchoMissRestart-th of them, however it died and reported or not.
DeafIsReplaced == deaf < EchoMissRestart

\* Unless a relay failed its first dial, which onclose never counts, the network
\* watcher is never left with no relay: the close that would do that is reported
\* and rebuilds it, whatever retries ran and failed before.
NetworkLossSeen ==
    networkSub.held /\ networkSub.unreached = {} =>
        \E r \in NetworkRelays : networkSub.link[r] # "ended"

\* Whatever happened to the chat relay, once it serves without a break the
\* firehose is in the end open or being dialled for good (unless stopped).
FirehoseRecovers ==
    <>[]up =>
        <>[](stopped \/ nostrSub.link[ChatRelay] \in {"dialling", "open"})

=============================================================================

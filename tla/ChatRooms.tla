------------------------------- MODULE ChatRooms -------------------------------
(***************************************************************************)
(* The rooms of ChatBridgeService and the source listeners they own.       *)
(* refreshRooms and pollDemand are started by interval timers that do not  *)
(* wait for the previous call, so several calls of either may be parked on *)
(* an await at once; each is a task here. Between two awaits a call runs   *)
(* without interruption and is one action.                                 *)
(*                                                                         *)
(* Abstractions:                                                           *)
(*  - a room object is its instance URL plus, for the calls that hold a    *)
(*    reference to it, whether it is still the one in the rooms map;       *)
(*  - a listener is idle or running (OwncastListener has its inside; it    *)
(*    reconnects for ever, so a running one runs until it is stopped), and *)
(*    it is only kept whether some running one has no owner;               *)
(*  - the order in which a call meets the rows of a query or the rooms of  *)
(*    the map is left open;                                                *)
(*  - chatToNostr is on: with it off there are no listeners;               *)
(*  - messages and the 1311 firehose are left to Firehose.                 *)
(***************************************************************************)
EXTENDS Naturals, FiniteSets

CONSTANTS
    Urls,    \* instances that may have a chat room
    Tasks    \* bound: calls of refreshRooms and pollDemand in flight at once

ASSUME ChatRoomsAssumption == Urls # {} /\ Tasks # {} /\ "none" \notin Urls

VARIABLES
    wanted,       \* URLs of the rows with chat on, discovery on, status live
    demanded,     \* URLs whose #a some viewer subscription names
    demandWired,  \* is a demand source configured?
    boot,         \* how far start() is: first refresh, first poll, done
    rooms,        \* keys of the rooms map
    listener,     \* is the listener handle of the URL's room set?
    orphan,       \* does a running listener belong to no room?
    tasks,        \* the calls in flight
    stopped       \* has stop() run?

envVars == <<wanted, demanded, demandWired>>
roomVars == <<rooms, listener, orphan>>
vars == <<envVars, boot, roomVars, tasks, stopped>>

-----------------------------------------------------------------------------
(* Types *)

\* at: awaiting the query, its answer, or openListener.
Task == [kind : {"idle", "refresh", "poll"}, at : {"query", "answer", "dial"},
         urls : SUBSET Urls,          \* what the query answered
         seen : SUBSET Urls,          \* what the loop has iterated over
         on : Urls \cup {"none"},     \* URL of the room being dialled
         held : BOOLEAN]              \* is that room still in the map?

Idle == [kind |-> "idle", at |-> "query", urls |-> {}, seen |-> {},
         on |-> "none", held |-> FALSE]

\* Every variable has its type, and only rooms of the map have a handle.
TypeOK ==
    /\ wanted \subseteq Urls /\ demanded \subseteq Urls /\ demandWired \in BOOLEAN
    /\ boot \in {"refresh", "poll", "ready"}
    /\ rooms \subseteq Urls
    /\ listener \in [Urls -> BOOLEAN]
    /\ orphan \in BOOLEAN
    /\ tasks \in [Tasks -> Task]
    /\ stopped \in BOOLEAN
    /\ \A u \in Urls : listener[u] => u \in rooms

-----------------------------------------------------------------------------
(* Helpers *)

Free(t) == tasks[t].kind = "idle"

\* The other calls once the rooms in gone are deleted from the map: references
\* go stale, and a live Map iterator would meet a re-added key again.
Forget(gone) == [t \in Tasks |-> [tasks[t] EXCEPT
    !.held = @ /\ tasks[t].on \notin gone,
    !.seen = IF tasks[t].kind = "poll" THEN @ \ gone ELSE @]]

\* Mutant of Missing: the map is not looked at before a room is created.
MissingUnchecked(r, rm) == r.urls \ r.seen

\* Refresh creates the rooms that its rows name and the map lacks.
Missing(r, rm) == (r.urls \ r.seen) \ rm

\* Poll dials the demanded rooms whose handle is not set.
Undialled(r, rm, ls) == {u \in rm \ r.seen : u \in r.urls /\ ~ls[u]}

\* How far start() is when a call returns: boot is "refresh" only while its
\* first refresh is in flight, and "poll" while its first poll is.
BootAfter(kind) ==
    CASE boot = "refresh" /\ kind = "refresh" -> IF demandWired THEN "poll" ELSE "ready"
      [] boot = "poll" /\ kind = "poll" -> "ready"
      [] OTHER -> boot

\* The call t returns; start() goes on from its first refresh to its first poll.
Return(t, others, kind) ==
    /\ boot' = BootAfter(kind)
    /\ tasks' = [others EXCEPT ![t] =
                    IF boot # boot' /\ boot' = "poll" THEN [Idle EXCEPT !.kind = "poll"]
                                                      ELSE Idle]

Dial(t, others, r, u, met) ==
    /\ tasks' = [others EXCEPT ![t] = [r EXCEPT !.at = "dial", !.on = u, !.held = TRUE,
                                                !.seen = r.seen \cup met \cup {u}]]
    /\ UNCHANGED boot

\* The call t, going on with task record r over the map rm and the handles ls,
\* dials the next room or returns; refresh dials only when no demand source is
\* wired.
GoOn(t, others, r, rm, ls) ==
    /\ listener' = ls
    /\ IF r.kind = "refresh" /\ demandWired
       THEN rooms' = rm \cup r.urls /\ Return(t, others, "refresh")
       ELSE IF r.kind = "refresh"
       THEN IF Missing(r, rm) = {}
            THEN rooms' = rm /\ Return(t, others, "refresh")
            ELSE \E u \in Missing(r, rm), met \in SUBSET ((r.urls \ r.seen) \cap rm) :
                     rooms' = rm \cup {u} /\ Dial(t, others, r, u, met)
       ELSE /\ rooms' = rm
            /\ IF Undialled(r, rm, ls) = {}
               THEN Return(t, others, "poll")
               ELSE \E u \in Undialled(r, rm, ls),
                       met \in SUBSET ((rm \ r.seen) \ Undialled(r, rm, ls)) :
                        Dial(t, others, r, u, met)

-----------------------------------------------------------------------------
(* Actions *)

\* A timer calls refreshRooms or pollDemand, whatever is in flight.
Call(t, kind) ==
    /\ Free(t) /\ ~stopped
    /\ tasks' = [tasks EXCEPT ![t] = [Idle EXCEPT !.kind = kind]]
    /\ UNCHANGED <<envVars, boot, roomVars, stopped>>

\* The refresh timer is armed once the first refresh has returned, the demand
\* timer once the first poll has.
RefreshTick(t) == boot # "refresh" /\ Call(t, "refresh")

\* Mutant of DemandTick: the demand timer is not armed after the first poll.
DemandTickUnarmed(t) == boot = "poll" /\ demandWired /\ Call(t, "poll")
DemandTick(t) == boot = "ready" /\ demandWired /\ Call(t, "poll")

\* What the two queries answer: the rows of the allowlist, and the rooms that an
\* active subscription names by #a (the bridge's own names none).
listChatRooms == wanted
fetchDemandedATags == demanded

\* The store, or the demand endpoint, computes the answer to the query.
Answer(t) ==
    /\ ~Free(t) /\ tasks[t].at = "query"
    /\ tasks' = [tasks EXCEPT ![t].at = "answer",
                    ![t].urls = IF tasks[t].kind = "refresh" THEN listChatRooms
                                                            ELSE fetchDemandedATags]
    /\ UNCHANGED <<envVars, boot, roomVars, stopped>>

\* The query is rejected and the call with it. A rejected first refresh is
\* fatal to the process, so it is left out; a rejected first poll is not.
Reject(t) ==
    /\ ~Free(t) /\ tasks[t].at = "query"
    /\ ~(boot = "refresh" /\ tasks[t].kind = "refresh")
    /\ Return(t, tasks, tasks[t].kind)
    /\ UNCHANGED <<envVars, roomVars, stopped>>

\* Mutant of Reconcile: rooms no row names any more are kept.
ReconcileKeeping(t) ==
    /\ tasks[t].kind = "refresh" /\ tasks[t].at = "answer"
    /\ GoOn(t, tasks, tasks[t], rooms, listener)
    /\ UNCHANGED <<envVars, orphan, stopped>>

\* refreshRooms resumes with the rows: it closes the rooms they do not name,
\* stopping the handle each holds, and opens the rest up to its next await.
Reconcile(t) ==
    /\ tasks[t].kind = "refresh" /\ tasks[t].at = "answer"
    /\ LET gone == rooms \ tasks[t].urls IN
           GoOn(t, Forget(gone), tasks[t], rooms \ gone,
                [u \in Urls |-> listener[u] /\ u \notin gone])
    /\ UNCHANGED <<envVars, orphan, stopped>>

\* pollDemand resumes with the demanded rooms.
Sweep(t) ==
    /\ tasks[t].kind = "poll" /\ tasks[t].at = "answer"
    /\ GoOn(t, tasks, tasks[t], rooms, listener)
    /\ UNCHANGED <<envVars, orphan, stopped>>

\* The handle openListener returns is stored in the room the call holds: a
\* handle already there is overwritten, and a room that has left the map takes
\* the listener with it.
LeavesOrphan(t) == tasks[t].held => listener[tasks[t].on]

\* Mutant of ListenerUp: the handle is stored by URL, whether or not its room is
\* still in the map.
ListenerUpByUrl(t) ==
    /\ ~Free(t) /\ tasks[t].at = "dial"
    /\ GoOn(t, tasks, tasks[t], rooms, [listener EXCEPT ![tasks[t].on] = TRUE])
    /\ UNCHANGED <<envVars, orphan, stopped>>

\* openListener resolves: the listener runs, and the loop goes on.
ListenerUp(t) ==
    /\ ~Free(t) /\ tasks[t].at = "dial"
    /\ LET u == tasks[t].on IN
           /\ orphan' = (orphan \/ LeavesOrphan(t))
           /\ GoOn(t, tasks, tasks[t], rooms,
                   IF tasks[t].held THEN [listener EXCEPT ![u] = TRUE] ELSE listener)
    /\ UNCHANGED <<envVars, stopped>>

\* SIGTERM after start() returned: stop() clears the timers, stops every handle
\* and empties the map; the calls in flight resume until the process exits.
Stop ==
    /\ boot = "ready" /\ ~stopped
    /\ stopped' = TRUE
    /\ rooms' = {} /\ listener' = [u \in Urls |-> FALSE]
    /\ tasks' = Forget(rooms)
    /\ UNCHANGED <<envVars, boot, orphan>>

\* set-chat for one instance, or for every row of a source: off is the kill switch;
\* on opens the rooms of the rows that are live with discovery on, any of them.
SetChat ==
    /\ \/ \E u \in Urls : wanted' \in {wanted \cup {u}, wanted \ {u}}
       \/ wanted' = {} \/ \E eligible \in SUBSET Urls : wanted' = wanted \cup eligible
    /\ wanted' # wanted
    /\ UNCHANGED <<demanded, demandWired, boot, roomVars, tasks, stopped>>

\* The discovery engine and set-discovery change a row, and viewers come and go.
RowChanges == \E u \in Urls :
    /\ wanted' \in {wanted \cup {u}, wanted \ {u}} /\ wanted' # wanted
    /\ UNCHANGED <<demanded, demandWired, boot, roomVars, tasks, stopped>>

DemandChanges == \E u \in Urls :
    /\ demandWired
    /\ demanded' \in {demanded \cup {u}, demanded \ {u}} /\ demanded' # demanded
    /\ UNCHANGED <<wanted, demandWired, boot, roomVars, tasks, stopped>>

Init ==
    /\ wanted \in SUBSET Urls /\ demanded = {} /\ demandWired \in BOOLEAN
    /\ boot = "refresh" /\ rooms = {}
    /\ listener = [u \in Urls |-> FALSE] /\ orphan = FALSE
    /\ \E first \in Tasks : tasks = [t \in Tasks |->
           IF t = first THEN [Idle EXCEPT !.kind = "refresh"] ELSE Idle]
    /\ stopped = FALSE

Next ==
    \/ \E t \in Tasks : \/ RefreshTick(t) \/ DemandTick(t)
                        \/ Answer(t) \/ Reject(t)
                        \/ Reconcile(t) \/ Sweep(t) \/ ListenerUp(t)
    \/ Stop \/ SetChat \/ RowChanges \/ DemandChanges

Spec == Init /\ [][Next]_vars

(* The timers fire whatever is in flight (the bound on the tasks alone can   *)
(* hold them up, hence strong fairness), every await ends (the fetches of    *)
(* openListener and of the demand client carry timeouts), and neither query  *)
(* is rejected for ever.                                                     *)
GoesOn(t) == Answer(t) \/ Reject(t) \/ Reconcile(t) \/ Sweep(t) \/ ListenerUp(t)
Answered(kind) == \E t \in Tasks : tasks[t].kind = kind /\ Answer(t)

FairSpec ==
    /\ Spec
    /\ SF_vars(\E t \in Tasks : RefreshTick(t)) /\ SF_vars(\E t \in Tasks : DemandTick(t))
    /\ SF_vars(Answered("refresh")) /\ SF_vars(Answered("poll"))
    /\ \A t \in Tasks : WF_vars(GoesOn(t))

-----------------------------------------------------------------------------
(* Properties *)

Dials(u) == {t \in Tasks : tasks[t].on = u /\ tasks[t].held}

\* Without a demand source the map is the only guard against two refreshes in
\* flight, and it suffices: each room has one listener, or one on its way. No
\* room is left deaf (nothing would dial it again) and none is dialled twice.
EagerRoomsHeardOnce ==
    ~demandWired => \A u \in rooms :
        Cardinality(Dials(u)) + (IF listener[u] THEN 1 ELSE 0) = 1

\* Every running listener can still be stopped through its room: none runs "that nothing
\* owns and nothing ever closes".
NoOrphanListener == ~stopped => ~orphan

\* Once the rows no longer change, and unless stopped, the rooms of the map are
\* in the end the ones on the allowlist and live, whatever stale answers were
\* still in flight.
RoomsFollowRows ==
    <>[][FALSE]_wanted => <>[](stopped \/ rooms = wanted)

\* Once rows and viewers no longer change, and unless stopped, every room that
\* a viewer asks for (every room, when no demand source is wired) has a listener
\* in the end.
DemandIsMet ==
    <>[][FALSE]_<<wanted, demanded>> =>
        <>[](stopped \/ \A u \in wanted : (demandWired => u \in demanded) => listener[u])

=============================================================================

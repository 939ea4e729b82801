------------------------------ MODULE Discovery ------------------------------
(***************************************************************************)
(* The discovery half of the bridge worker: DiscoveryBridgeService runs    *)
(* one poll cycle at a time over rows it keeps in Postgres and publishes   *)
(* kind-0 profiles and kind-30311 live events, while operator scripts      *)
(* (set-discovery, retract-instance, republish-profiles) write to the same *)
(* rows and the same relays from other processes.                          *)
(*                                                                         *)
(* Every await of the cycle is a step boundary, and what the engine read   *)
(* before an await (its copy of a row) is kept as such: the copy may be    *)
(* stale when it is used.                                                  *)
(*                                                                         *)
(* Abstractions:                                                           *)
(*  - a row keeps the columns the engine decides on; last_published_at is  *)
(*    "never" (NULL), "fresh" (within the republish interval) or "stale";  *)
(*  - consecutive_failures counts on, as in the code; only where an error  *)
(*    probe revives a row of MaxCount failures does the bound exclude it;  *)
(*  - starts_at is 0 when NULL, and an event whose start is first_seen_at  *)
(*    has start 0; other start times are told apart only by being equal;   *)
(*  - a change of the viewer count is a Boolean choice when it is polled;  *)
(*  - the profile's kind-0 and its kind-10002 relay list are one publish;  *)
(*  - a failed fetchLive leaves every variable unchanged: it stutters;     *)
(*  - the metadata of an instance is read when the cycle uses it, not when *)
(*    the directory was fetched: the membership alone is kept from then;   *)
(*  - the hourly observation snapshot is left out.                         *)
(***************************************************************************)
EXTENDS Naturals

CONSTANTS
    Instances,       \* instance URLs of one source
    Seedable,        \* the ones an operator may have added (origin = 'manual')
    Listable,        \* the ones the directory may list
    Handled,         \* the ones operators run their scripts on
    Profiles,        \* kind-0 contents, told apart by their profileHash
    StartStamps,     \* start times the directory may report
    MaxFailures,     \* config.maxConsecutiveFailures
    MaxCount,        \* bound: failures a row can have and be revived by an error
    DefaultEnabled,  \* config.defaultDiscoveryEnabled
    MaxRejects,      \* bound: publishes no relay accepts
    MaxAborts,       \* bound: cycles cut short by an exception or a crash
    MaxRetracts      \* bound: runs of retract-instance

ASSUME ConstantsAssumption ==
    /\ Seedable \subseteq Instances /\ Listable \subseteq Instances
    /\ Handled \subseteq Instances
    /\ Instances # {}
    /\ MaxFailures \in Nat \ {0} /\ MaxCount \in Nat /\ MaxCount >= MaxFailures
    /\ StartStamps \subseteq Nat \ {0}
    /\ "none" \notin Profiles /\ "blank" \notin Profiles /\ Profiles # {}
    /\ DefaultEnabled \in BOOLEAN
    /\ MaxRejects \in Nat /\ MaxAborts \in Nat /\ MaxRetracts \in Nat

VARIABLES
    row,       \* bridge_instances: the persisted row of each instance
    event,     \* the 30311 the event relay holds for each instance
    profile,   \* the kind-0 the profile relays hold for each instance
    up,        \* is the stream really running?
    listed,    \* is the instance in the directory's live set?
    since,     \* start time the directory reports for it, 0 for null
    content,   \* kind-0 content its metadata yields now
    pc,        \* where the running cycle is
    pass,      \* which of the cycle's three loops is running
    todo,      \* instances that loop has not taken up yet
    live,      \* liveUrls of the running cycle
    cur,       \* instance in hand
    copy,      \* row copies read from the store and still to be used
    probe,     \* liveness answer for the instance in hand
    sent,      \* did this step of the cycle publish a 30311?
    op,        \* the running retract-instance script
    rejects, aborts, retracts,   \* what has been used of each bound
    misses,    \* history: probes not answered live since live was recorded,
               \* tallied up to MaxFailures
    quiet,     \* history: opted out since before the running cycle began
    retracted  \* history: was it retracted and not re-enabled since? "clean"
               \* when the engine held no copy of the row as the script began
               \* and the flag stayed off until the script was done (op.alone)

engineVars == <<pc, pass, todo, live, cur, copy, probe, sent>>
sourceVars == <<up, listed, since, content>>
relayVars  == <<event, profile>>
boundVars  == <<rejects, aborts, retracts>>
histVars   == <<misses, quiet, retracted>>
vars == <<row, relayVars, sourceVars, engineVars, op, boundVars, histVars>>

-----------------------------------------------------------------------------
(* Types *)

Statuses == {"live", "ended"}
Answers == {"live", "ended", "error"}
Starts == Nat

Row == [known : BOOLEAN, manual : BOOLEAN, enabled : BOOLEAN, status : Statuses,
        fails : Nat, pub : {"never", "fresh", "stale"},
        hash : Profiles \cup {"none"}, starts : Starts]

NoRow == [known |-> FALSE, manual |-> FALSE, enabled |-> FALSE, status |-> "live",
          fails |-> 0, pub |-> "never", hash |-> "none", starts |-> 0]

Event == [status : Statuses \cup {"absent"}, starts : Starts]
NoEvent == [status |-> "absent", starts |-> 0]

Anyone == CHOOSE i \in Instances : TRUE   \* filler when none is in hand
NoOp == [step |-> "none", url |-> Anyone, alone |-> FALSE]

RowsOK == row \in [Instances -> Row] /\ copy \in [Instances -> Row]
RelaysOK == /\ event \in [Instances -> Event]
            /\ profile \in [Instances -> Profiles \cup {"none", "blank"}]
SourcesOK == /\ up \in [Instances -> BOOLEAN]
             /\ listed \in [Instances -> BOOLEAN]
             /\ since \in [Instances -> Starts]
             /\ content \in [Instances -> Profiles]
CycleOK == /\ pc \in {"idle", "next", "probe", "profile", "hash", "publish", "save"}
           /\ pass \in {"live", "manual", "gone"}
           /\ todo \subseteq Instances /\ live \subseteq Instances
           /\ cur \in Instances /\ probe \in Answers /\ sent \in BOOLEAN
OpOK == op \in [step : {"none", "checked", "deleted", "refused", "wiped"},
                url : Instances, alone : BOOLEAN]
BoundsOK == /\ rejects \in 0..MaxRejects
            /\ aborts \in 0..MaxAborts
            /\ retracts \in 0..MaxRetracts
HistoryOK == /\ misses \in [Instances -> 0..MaxFailures]
             /\ quiet \in [Instances -> BOOLEAN]
             /\ retracted \in [Instances -> {"no", "clean", "raced"}]

\* Every variable holds a value of its kind: rows and the engine's copies of them are
\* rows whole, whichever columns an update left alone, and the relays hold events.
TypeOK == RowsOK /\ RelaysOK /\ SourcesOK /\ CycleOK /\ OpOK /\ BoundsOK /\ HistoryOK

-----------------------------------------------------------------------------
(* Helpers *)

\* What the liveness probe may answer: a probe of a running stream can fail,
\* and a stopped stream shows as ended or does not answer at all.
CheckLiveness(i) == IF up[i] THEN {"live", "error"} ELSE {"ended", "error"}

\* A start time no one has used yet (Date.now() at the reset).
FreshStart(i) ==
    CHOOSE s \in 1..3 : s \notin {copy[i].starts, event[i].starts}

\* A row INSERTed by upsertSeen: column defaults plus the posture flag.
NewRow(i) == [NoRow EXCEPT !.known = TRUE, !.enabled = DefaultEnabled,
                           !.starts = since[i]]

\* A manual row as an operator adds it.
SeededRow == [NoRow EXCEPT !.known = TRUE, !.manual = TRUE, !.enabled = TRUE]

\* Mutant of SeenRow: the posture flag is swept over existing rows as well.
SeenRowSwept(i) == IF row[i].known
    THEN [row[i] EXCEPT !.starts = since[i], !.enabled = DefaultEnabled]
    ELSE NewRow(i)

\* The ON CONFLICT branch refreshes metadata and leaves status, counter and
\* flags alone; of the columns kept here it overwrites only starts_at.
SeenRow(i) == IF row[i].known THEN [row[i] EXCEPT !.starts = since[i]]
                              ELSE NewRow(i)

\* One probe answer for i, as the history variable counts it.
Tally(n) == IF n < MaxFailures THEN n + 1 ELSE n
CountAnswer(i, answer) ==
    misses' = IF answer = "live" THEN misses
                                 ELSE [misses EXCEPT ![i] = Tally(@)]

\* Publishing to the relays: accepted, or refused by all of them while the
\* bound lasts. The engine goes on either way (it only counts the failure).
SendEvent(i, e) ==
    \/ event' = [event EXCEPT ![i] = e] /\ UNCHANGED rejects
    \/ rejects < MaxRejects /\ rejects' = rejects + 1 /\ UNCHANGED event

SendProfile(i, p) ==
    \/ profile' = [profile EXCEPT ![i] = p] /\ UNCHANGED rejects
    \/ rejects < MaxRejects /\ rejects' = rejects + 1 /\ UNCHANGED profile

\* Take i in hand, or put the one in hand away and go on with the loop.
TakeUp(i, r, answer) ==
    cur' = i /\ copy' = [copy EXCEPT ![i] = r] /\ probe' = answer /\ sent' = FALSE
DropCurrent ==
    /\ copy' = [copy EXCEPT ![cur] = NoRow]
    /\ cur' = Anyone /\ probe' = "live" /\ sent' = FALSE /\ pc' = "next"

-----------------------------------------------------------------------------
(* The poll cycle *)

\* The directory's live sections, each instance once (malformed ones are skipped).
LiveSet == {i \in Instances : listed[i]}

\* The timer fires and the live set is fetched; the cycle enters its first loop.
FetchLive ==
    /\ pc = "idle"
    /\ pc' = "next" /\ pass' = "live"
    /\ todo' = LiveSet /\ live' = todo'
    /\ quiet' = [i \in Instances |-> row[i].known /\ ~row[i].enabled]
    /\ UNCHANGED <<row, relayVars, sourceVars, cur, copy, probe, sent, op,
                   boundVars, misses, retracted>>

\* processLive up to its first await: insert or refresh the row, and skip an
\* instance that opted out.
UpsertSeen(i) ==
    /\ pc = "next" /\ pass = "live" /\ i \in todo
    /\ row' = [row EXCEPT ![i] = SeenRow(i)]
    /\ todo' = todo \ {i}
    /\ IF SeenRow(i).enabled
       THEN TakeUp(i, SeenRow(i), "live") /\ pc' = "probe"
       ELSE UNCHANGED <<cur, copy, probe, sent, pc>>
    /\ UNCHANGED <<relayVars, sourceVars, pass, live, op, boundVars, histVars>>

\* processLive: the liveness probe answers. An ended stream that is still
\* listed goes on too: it is published as ended.
ProbeSeen ==
    /\ pc = "probe"
    /\ \E answer \in CheckLiveness(cur) :
          /\ answer = "error" => copy[cur].fails < MaxCount
          /\ probe' = answer /\ CountAnswer(cur, answer)
    /\ pc' = "profile"
    /\ UNCHANGED <<row, relayVars, sourceVars, pass, todo, live, cur, copy,
                   sent, op, boundVars, quiet, retracted>>

\* processManualRows reads the manual rows once; rows of the live set and
\* rows that opted out are skipped.
ListManual ==
    /\ pc = "next" /\ pass = "live" /\ todo = {}
    /\ pass' = "manual"
    /\ todo' = {i \in Instances \ live : row[i].manual /\ row[i].enabled}
    /\ copy' = [i \in Instances |-> IF i \in todo' THEN row[i] ELSE NoRow]
    /\ UNCHANGED <<row, relayVars, sourceVars, pc, live, cur, probe, sent, op,
                   boundVars, histVars>>

\* A manual row is probed: a live one joins the live set and is published,
\* any other answer leaves it to reconcileDisappeared.
ProbeManual(i) ==
    /\ pc = "next" /\ pass = "manual" /\ i \in todo
    /\ todo' = todo \ {i}
    /\ \E answer \in CheckLiveness(i) :
          /\ CountAnswer(i, answer)
          /\ IF answer = "live"
             THEN TakeUp(i, copy[i], answer) /\ pc' = "profile" /\ live' = live \cup {i}
             ELSE copy' = [copy EXCEPT ![i] = NoRow] /\ UNCHANGED <<cur, probe, sent, pc, live>>
    /\ UNCHANGED <<row, relayVars, sourceVars, pass, op, boundVars, quiet, retracted>>

\* maybePublishProfile: hash-gated, kind-0 and relay list; a refusal by every
\* relay is counted and the hash is saved all the same.
PublishProfile ==
    /\ pc = "profile"
    /\ IF copy[cur].hash = content[cur]
       THEN pc' = "publish" /\ UNCHANGED <<profile, rejects, copy>>
       ELSE /\ SendProfile(cur, content[cur])
            /\ copy' = [copy EXCEPT ![cur].hash = content[cur]]
            /\ pc' = "hash"
    /\ UNCHANGED <<row, event, sourceVars, pass, todo, live, cur, probe, sent,
                   op, aborts, retracts, histVars>>

\* Mutant of SaveHash: saves the hash of the metadata as it is by now, not of
\* what was published.
SaveHashNow ==
    /\ pc = "hash"
    /\ row' = [row EXCEPT ![cur].hash = content[cur]]
    /\ pc' = "publish"
    /\ UNCHANGED <<relayVars, sourceVars, pass, todo, live, cur, copy, probe,
                   sent, op, boundVars, histVars>>

SaveHash ==
    /\ pc = "hash"
    /\ row' = [row EXCEPT ![cur].hash = copy[cur].hash]
    /\ pc' = "publish"
    /\ UNCHANGED <<relayVars, sourceVars, pass, todo, live, cur, copy, probe,
                   sent, op, boundVars, histVars>>

\* Status and start time of the 30311 the first two loops would publish now.
StatusNow == IF probe = "ended" THEN "ended" ELSE "live"
StartNow == IF pass = "manual" /\ (copy[cur].status = "ended" \/ copy[cur].starts = 0)
            THEN FreshStart(cur)
            ELSE copy[cur].starts

\* Mutant of Due: neither the heartbeat nor a status change publishes.
DueOnce(viewersChanged) == copy[cur].pub = "never" \/ viewersChanged

\* The 30311 is published when the status or the viewer count changed or the
\* heartbeat interval is over (a new row has never been published: isNew).
Due(viewersChanged) ==
    copy[cur].pub # "fresh" \/ copy[cur].status # StatusNow \/ viewersChanged

\* The viewer count of a live stream is polled, and the 30311 published if due.
PublishLiveEvent ==
    /\ pc = "publish" /\ pass # "gone"
    /\ \E viewersChanged \in (IF StatusNow = "live" THEN BOOLEAN ELSE {FALSE}) :
          IF Due(viewersChanged)
          THEN /\ SendEvent(cur, [status |-> StatusNow, starts |-> StartNow])
               /\ copy' = [copy EXCEPT ![cur].starts = StartNow]
               /\ sent' = TRUE
          ELSE UNCHANGED <<event, rejects, copy, sent>>
    /\ pc' = "save"
    /\ UNCHANGED <<row, profile, sourceVars, pass, todo, live, cur, probe, op,
                   aborts, retracts, histVars>>

\* Mutant of ActiveRow: a row whose budget is spent counts as torn down already (but a
\* row that an unanswered probe revived keeps a spent counter).
ActiveRowUnspent(i) ==
    /\ row[i].known /\ row[i].status = "live" /\ row[i].enabled
    /\ row[i].fails < MaxFailures

\* listByStatus, but for the rows that opted out.
ActiveRow(i) == row[i].known /\ row[i].status = "live" /\ row[i].enabled

\* reconcileDisappeared reads the rows whose status is live once; rows of the
\* live set and rows that opted out are skipped.
ListActive ==
    /\ pc = "next" /\ pass = "manual" /\ todo = {}
    /\ pass' = "gone"
    /\ todo' = {i \in Instances \ live : ActiveRow(i)}
    /\ copy' = [i \in Instances |-> IF i \in todo' THEN row[i] ELSE NoRow]
    /\ UNCHANGED <<row, relayVars, sourceVars, pc, live, cur, probe, sent, op,
                   boundVars, histVars>>

\* Mutant of LastFailure: one failure early.
LastFailureEarly(i) == copy[i].fails + 2 >= MaxFailures

\* The failure that uses up the budget tears the instance down.
LastFailure(i) == copy[i].fails + 1 >= MaxFailures

\* A disappeared instance is probed; only the last failure publishes.
ProbeGone(i) ==
    /\ pc = "next" /\ pass = "gone" /\ i \in todo
    /\ todo' = todo \ {i}
    /\ \E answer \in CheckLiveness(i) :
          /\ CountAnswer(i, answer)
          /\ TakeUp(i, copy[i], answer)
          /\ pc' = IF answer # "live" /\ LastFailure(i) THEN "publish" ELSE "save"
    /\ UNCHANGED <<row, relayVars, sourceVars, pass, live, op, boundVars, quiet, retracted>>

\* The terminal 30311 is built from the copy.
PublishEnded ==
    /\ pc = "publish" /\ pass = "gone"
    /\ SendEvent(cur, [status |-> "ended", starts |-> copy[cur].starts])
    /\ sent' = TRUE
    /\ pc' = "save"
    /\ UNCHANGED <<row, profile, sourceVars, pass, todo, live, cur, copy, probe,
                   op, aborts, retracts, histVars>>

\* The columns the final store.update of an instance writes, computed from the
\* copy; what it does not name keeps the value the row has by then.
SaveSeen(r) == [r EXCEPT
    !.status = StatusNow,
    !.fails = IF probe = "error" THEN copy[cur].fails ELSE 0,
    !.pub = IF sent THEN "fresh" ELSE @]

SaveManual(r) == [r EXCEPT
    !.status = "live",
    !.fails = 0,
    !.pub = IF sent THEN "fresh" ELSE @,
    !.starts = IF sent THEN copy[cur].starts ELSE @]

\* Mutant of SaveGone: the row is not flipped to ended.
SaveGoneUnflipped(r) ==
    IF probe = "live" THEN [r EXCEPT !.fails = 0]
    ELSE [r EXCEPT !.fails = copy[cur].fails + 1,
                   !.pub = IF sent THEN "fresh" ELSE @]

SaveGone(r) ==
    IF probe = "live" THEN [r EXCEPT !.fails = 0]
    ELSE [r EXCEPT !.status = IF sent THEN "ended" ELSE @,
                   !.fails = copy[cur].fails + 1,
                   !.pub = IF sent THEN "fresh" ELSE @]

Save ==
    /\ pc = "save"
    /\ row' = [row EXCEPT ![cur] = CASE pass = "live" -> SaveSeen(@)
                                     [] pass = "manual" -> SaveManual(@)
                                     [] pass = "gone" -> SaveGone(@)]
    /\ misses' = IF probe = "live" THEN [misses EXCEPT ![cur] = 0] ELSE misses
    /\ DropCurrent
    /\ UNCHANGED <<relayVars, sourceVars, pass, todo, live, op, boundVars, quiet, retracted>>

\* The cycle is over; tick arms the timer of the next one.
EndCycle ==
    /\ pc = "next" /\ pass = "gone" /\ todo = {}
    /\ pc' = "idle" /\ pass' = "live" /\ live' = {}
    /\ quiet' = [i \in Instances |-> FALSE]
    /\ UNCHANGED <<row, relayVars, sourceVars, todo, cur, copy, probe, sent, op,
                   boundVars, misses, retracted>>

\* An exception at any await ends the cycle in tick's catch; a crash and the
\* restart leave the same state, since all else the engine holds is memory.
AbortCycle ==
    /\ pc # "idle" /\ aborts < MaxAborts
    /\ aborts' = aborts + 1
    /\ pc' = "idle" /\ pass' = "live" /\ todo' = {} /\ live' = {}
    /\ cur' = Anyone /\ probe' = "live" /\ sent' = FALSE
    /\ copy' = [i \in Instances |-> NoRow]
    /\ quiet' = [i \in Instances |-> FALSE]
    /\ UNCHANGED <<row, relayVars, sourceVars, op, rejects, retracts, misses, retracted>>

\* config.republishIntervalMs passes since the instance was last published.
HeartbeatElapses(i) ==
    /\ row[i].pub = "fresh"
    /\ row' = [row EXCEPT ![i].pub = "stale"]
    /\ copy' = [copy EXCEPT ![i].pub = IF @ = "fresh" THEN "stale" ELSE @]
    /\ UNCHANGED <<relayVars, sourceVars, pc, pass, todo, live, cur, probe, sent,
                   op, boundVars, histVars>>

-----------------------------------------------------------------------------
(* Operator scripts *)

\* set-discovery <url> on|off: one UPDATE of the flag.
SetDiscovery(i) ==
    /\ row[i].known
    /\ row' = [row EXCEPT ![i].enabled = ~@]
    /\ quiet' = [quiet EXCEPT ![i] = FALSE]
    /\ retracted' = [retracted EXCEPT ![i] = "no"]
    /\ op' = [op EXCEPT !.alone = @ /\ op.url # i]
    /\ UNCHANGED <<relayVars, sourceVars, engineVars, boundVars, misses>>

\* retract-instance reads the row and refuses while discovery is on.
RetractCheck(i) ==
    /\ op.step = "none" /\ retracts < MaxRetracts
    /\ row[i].known /\ ~row[i].enabled
    /\ op' = [step |-> "checked", url |-> i, alone |-> ~copy[i].known]
    /\ retracts' = retracts + 1
    /\ UNCHANGED <<row, relayVars, sourceVars, engineVars, rejects, aborts, histVars>>

\* It publishes the kind-5 deletion, then the blank kind-0 and kind-10002, and goes
\* on from one to the other whether or not a relay accepted.
RetractDelete ==
    /\ op.step = "checked" /\ SendEvent(op.url, NoEvent)
    /\ op' = [op EXCEPT !.step = IF rejects' = rejects THEN "deleted" ELSE "refused"]
    /\ UNCHANGED <<row, profile, sourceVars, engineVars, aborts, retracts, histVars>>

\* Unless all were accepted it stops there, with the row untouched.
RetractBlank ==
    /\ op.step \in {"deleted", "refused"} /\ SendProfile(op.url, "blank")
    /\ op' = IF op.step = "deleted" /\ rejects' = rejects
             THEN [op EXCEPT !.step = "wiped"] ELSE NoOp
    /\ UNCHANGED <<row, event, sourceVars, engineVars, aborts, retracts, histVars>>

\* Its UPDATE clears the publish markers and sets the status.
RetractSave ==
    /\ op.step = "wiped"
    /\ row' = [row EXCEPT ![op.url] = [@ EXCEPT !.pub = "never", !.hash = "none",
                                                  !.status = "ended"]]
    /\ retracted' = [retracted EXCEPT ![op.url] =
                         IF row[op.url].enabled THEN "no"
                         ELSE IF op.alone THEN "clean" ELSE "raced"]
    /\ op' = NoOp
    /\ UNCHANGED <<relayVars, sourceVars, engineVars, boundVars, misses, quiet>>

\* republish-profiles clears the hash of a row so that the engine publishes its
\* profile again (one row of a batch at a time). It selected the row earlier, live
\* and opted in then; the UPDATE does not look again.
RepublishProfile(i) ==
    /\ row[i].known /\ row[i].hash # "none"
    /\ row' = [row EXCEPT ![i].hash = "none"]
    /\ UNCHANGED <<relayVars, sourceVars, engineVars, op, boundVars, histVars>>

-----------------------------------------------------------------------------
(* The source: streams, directory, metadata *)

\* A stream stops, or starts with a start time the directory may or may not
\* report.
StreamTurns(i) ==
    /\ up' = [up EXCEPT ![i] = ~@]
    /\ \E s \in (IF up[i] THEN {since[i]} ELSE {0} \cup (StartStamps \ {since[i]})) :
          since' = [since EXCEPT ![i] = s]
    /\ UNCHANGED <<row, relayVars, listed, content, engineVars, op, boundVars, histVars>>

\* The directory lists a stream that runs, or drops one, at its own pace.
DirectoryTurns(i) ==
    /\ i \in Listable /\ (listed[i] \/ up[i])
    /\ listed' = [listed EXCEPT ![i] = ~@]
    /\ UNCHANGED <<row, relayVars, up, since, content, engineVars, op, boundVars, histVars>>

\* The instance's name, description or logo changes.
MetadataTurns(i) ==
    /\ \E p \in Profiles \ {content[i]} : content' = [content EXCEPT ![i] = p]
    /\ UNCHANGED <<row, relayVars, up, listed, since, engineVars, op, boundVars, histVars>>

-----------------------------------------------------------------------------

Init ==
    /\ \E seeded \in SUBSET Seedable :
          row = [i \in Instances |-> IF i \in seeded THEN SeededRow ELSE NoRow]
    /\ event = [i \in Instances |-> NoEvent]
    /\ profile = [i \in Instances |-> "none"]
    /\ up = [i \in Instances |-> FALSE]
    /\ listed = [i \in Instances |-> FALSE]
    /\ since = [i \in Instances |-> 0]
    /\ content \in [Instances -> Profiles]
    /\ pc = "idle" /\ pass = "live" /\ todo = {} /\ live = {}
    /\ cur = Anyone /\ probe = "live" /\ sent = FALSE
    /\ copy = [i \in Instances |-> NoRow]
    /\ op = NoOp
    /\ rejects = 0 /\ aborts = 0 /\ retracts = 0
    /\ misses = [i \in Instances |-> 0]
    /\ quiet = [i \in Instances |-> FALSE]
    /\ retracted = [i \in Instances |-> "no"]

Engine ==
    \/ FetchLive \/ ListManual \/ ListActive \/ EndCycle
    \/ \E i \in Instances : UpsertSeen(i) \/ ProbeManual(i) \/ ProbeGone(i)
    \/ ProbeSeen \/ PublishProfile \/ SaveHash
    \/ PublishLiveEvent \/ PublishEnded \/ Save

Operator ==
    \/ \E i \in Handled : SetDiscovery(i) \/ RetractCheck(i) \/ RepublishProfile(i)
    \/ RetractDelete \/ RetractBlank \/ RetractSave

Source == \E i \in Instances : StreamTurns(i) \/ DirectoryTurns(i) \/ MetadataTurns(i)

Next == Engine \/ AbortCycle \/ Operator \/ Source
        \/ \E i \in Instances : HeartbeatElapses(i)

Spec == Init /\ [][Next]_vars

(* The timers and the relay's answers come: a cycle that can go on does, and *)
(* the republish interval ends. Nothing is assumed of operators and streams. *)
FairSpec == Spec /\ WF_vars(Engine)
                 /\ \A i \in Instances : WF_vars(HeartbeatElapses(i))

-----------------------------------------------------------------------------
(* Properties *)

\* A terminal event is published by reconcileDisappeared only when at least
\* MaxFailures probes failed since a live answer was last recorded, however
\* aborted cycles, returns to the directory and manual probes interleave.
FailureBudget == pc = "publish" /\ pass = "gone" => misses[cur] = MaxFailures

\* Why that holds: the persisted counter never runs ahead of the probes, as far as
\* these are tallied.
CounterBacked == \A i \in Instances : row[i].fails <= misses[i] \/ misses[i] = MaxFailures

\* An instance that was opted out before the cycle began is neither probed nor
\* published by it ("probes and publishes stop within one poll cycle").
QuietWhenOff ==
    /\ pc \notin {"idle", "next"} => ~quiet[cur]
    /\ pass # "live" => \A i \in todo : ~quiet[i]

\* While no publish is refused, no cycle cut short and nothing retracted, what
\* the row says of the stream is what the event relay says, except between the
\* publish of an instance and the update of its row.
RowMatchesRelay ==
    rejects = 0 /\ aborts = 0 /\ retracts = 0 =>
        \A i \in Instances :
            row[i].pub # "never" /\ ~(pc = "save" /\ cur = i) =>
                event[i].status = row[i].status

\* On the same terms, a hash kept in the row is the hash of the kind-0 the
\* profile relays hold, except between the publish and the update of the row:
\* the gate that skips an unchanged profile never skips one the relays lack.
HashMatchesRelay ==
    rejects = 0 /\ aborts = 0 /\ retracts = 0 =>
        \A i \in Instances :
            row[i].hash # "none" /\ ~(pc = "hash" /\ cur = i) =>
                profile[i] = row[i].hash

Wiped(i) ==
    /\ event[i] = NoEvent /\ profile[i] = "blank"
    /\ row[i].status = "ended" /\ row[i].pub = "never" /\ row[i].hash = "none"

\* A retraction begun while the engine held no copy of the row, with discovery
\* off until it was done, stays in force until discovery is switched on again.
CleanRetractionStands == \A i \in Instances : retracted[i] = "clean" => Wiped(i)

\* A stream that runs, stays listed and stays opted in is shown live in the end,
\* whatever was refused or cut short before.
ShownLive == \A i \in Instances :
    <>[](up[i] /\ listed[i] /\ row[i].enabled) => <>[](event[i].status = "live")

GoneForGood(i) == ~up[i] /\ ~listed[i] /\ row[i].enabled

\* A stream that stopped and left the directory, still opted in, does not stay
\* live on the event relay, when no relay refuses and no cycle is cut short.
TornDown == \A i \in Instances :
    <>[]GoneForGood(i) /\ [](rejects = 0 /\ aborts = 0 /\ retracts = 0) =>
        <>[](event[i].status # "live")

=============================================================================

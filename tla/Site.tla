--------------------------------- MODULE Site ----------------------------------
(***************************************************************************)
(* The website's reads: the stream lookup with its chat count, the example  *)
(* chat message and the grid of live channels, all over fetchEvents and its *)
(* `reached`, while the bridge goes on publishing and messages come and go. *)
(*                                                                          *)
(* Abstractions:                                                            *)
(*  - an instance URL is a host and a path (none, a slash or a page); a     *)
(*    d-tag is the normalised URL, and a channel is published at its root;  *)
(*  - an answer counts as given when its EOSE arrives; what came before an  *)
(*    EOSE that never does is dropped, for no claim reads it;               *)
(*  - a relay's answer is complete: the relay holds fewer than the 500      *)
(*    events a query is limited to;                                         *)
(*  - markup, names, the relay cards and the chat tile are left out.        *)
(***************************************************************************)
EXTENDS Naturals, FiniteSets

CONSTANTS
    Hosts,           \* instances
    Texts,           \* chat messages, kind 1311
    RoomOf,          \* the host whose room a message is tagged with
    Ours,            \* messages the bridge created (client tag)
    Typed,           \* what a visitor types: URLs, and what is none
    MaxLookups,      \* bound: lookups of the finder
    Clicks,          \* clicks on "show me an example"
    Bad,             \* what is no address
    Null,
    Dash, Unknown    \* a count not known yet, and one that could not be had

Paths == {"root", "slash", "page"}
Urls == [host : Hosts, path : Paths]
ASSUME SiteAssumption ==
    /\ IsFiniteSet(Hosts) /\ IsFiniteSet(Texts) /\ Ours \subseteq Texts
    /\ RoomOf \in [Texts -> Hosts] /\ Typed \subseteq Urls \cup {Bad} /\ MaxLookups \in Nat
    /\ Dash \notin Nat /\ Unknown \notin Nat

Lookups == 1..MaxLookups

VARIABLES
    status,          \* event relay: each host's live event, "none" if there is none
    chat,            \* chat relay: messages held
    lookup,          \* each lookup: its step and the d-tag asked for
    panel,           \* #finder-result: what it says, and the lookup that wrote it
    card,            \* each lookup's card: whose, and the count it shows
    channels,        \* loadChannels: its step
    liveChannels,    \* main.ts's variable of that name
    grid,            \* #live-grid
    click,           \* each click's step
    sample           \* #chat-sample-result

relays == <<status, chat>>
finder == <<lookup, panel, card>>
page == <<channels, liveChannels, grid>>
example == <<click, sample>>
vars == <<relays, finder, page, example>>

None == "none"

TypeOK ==
    /\ status \in [Hosts -> {None, "live", "ended"}]
    /\ chat \subseteq Texts
    /\ lookup \in [Lookups -> [step : {"new", "asking", "counting", "done"}, dTag : Urls \cup {Null}]]
    /\ panel \in [says : {"blank", "bad", "asking", "wrong", "unknown", "nothing", "card"},
                  by : 0..MaxLookups]
    /\ card \in [Lookups -> [of : Hosts \cup {Null}, count : 0..Cardinality(Texts) \cup {Dash, Unknown}]]
    /\ channels \in {"asking", "naming", "done"}
    /\ liveChannels \subseteq Hosts
    /\ grid \in {"blank", "unknown", "empty", "cards"}
    /\ click \in [Clicks -> {"new", "asking", "naming", "done"}]
    /\ sample \in {"blank", "asking", "unknown", "none", "message"}

-----------------------------------------------------------------------------
(* The queries. Each gives Null when no relay was reached. *)

\* A relay not reached taken for one that answered.
ReachedAnyway(eose) == TRUE

\* fetchEvents: eose relays answered, the only relay asked holds `held`.
Reached(eose) == eose > 0
Received(eose, held) == IF eose > 0 THEN held ELSE {}
fetchEvents(eose, held) == IF Reached(eose) THEN Received(eose, held) ELSE Null

\* coerceInstanceUrl and normalizeInstanceUrl: trailing slashes go, a page stays.
coerceInstanceUrl(raw) == IF raw = Bad THEN Null ELSE raw
normalizeInstanceUrl(u) == IF u.path = "slash" THEN [u EXCEPT !.path = "root"] ELSE u
dTagFor(u) == normalizeInstanceUrl(u)

\* The hosts with a live event, whose d-tag is that of the host's root.
Published == {h \in Hosts : status[h] # None}
AtDTag(d) == {h \in Published : dTagFor([host |-> h, path |-> "root"]) = d}
Live(hosts) == {h \in hosts : status[h] = "live"}

bridgeAuthored(events) == events \cap Ours

InRoom(events, h) == {t \in events : RoomOf[t] = h}
fetchRoomChatCount(eose, h) ==
    IF fetchEvents(eose, chat) = Null THEN Null
    ELSE Cardinality(InRoom(bridgeAuthored(fetchEvents(eose, chat)), h))

-----------------------------------------------------------------------------
(* The finder. *)

Note(l, what) == panel' = [says |-> what, by |-> l]
Ends(l) == lookup' = [lookup EXCEPT ![l] = [step |-> "done", dTag |-> Null]]

\* lookup(raw) up to its first await; lookups are numbered as they are submitted.
Lookup(l, raw) ==
    /\ lookup[l].step = "new" /\ \A k \in 1..(l - 1) : lookup[k].step # "new"
    /\ \/ coerceInstanceUrl(raw) = Null /\ Note(l, "bad") /\ Ends(l)
       \/ /\ coerceInstanceUrl(raw) # Null
          /\ Note(l, "asking")
          /\ lookup' = [lookup EXCEPT ![l] = [step |-> "asking", dTag |-> dTagFor(raw)]]
    /\ UNCHANGED <<relays, card, page, example>>

Submit(l) == \E raw \in Typed : Lookup(l, raw)

\* "Try a random one", which does nothing while no live channel is known.
Random(l) == \E h \in liveChannels : Lookup(l, [host |-> h, path |-> "root"])

\* The digest throws.
DigestFails(l) ==
    /\ lookup[l].step = "asking"
    /\ Note(l, "wrong") /\ Ends(l)
    /\ UNCHANGED <<relays, card, page, example>>

\* The unknown branch returns before it says so.
UnreachedSilently(l) == Ends(l) /\ UNCHANGED <<panel, card>>

Unreached(l) == Note(l, "unknown") /\ Ends(l) /\ UNCHANGED card

Found(l, hosts) ==
    \/ hosts = {} /\ Note(l, "nothing") /\ Ends(l) /\ UNCHANGED card
    \/ \E h \in hosts :
          /\ Note(l, "card")
          /\ card' = [card EXCEPT ![l] = [of |-> h, count |-> Dash]]
          /\ lookup' = [lookup EXCEPT ![l] = [step |-> "counting", dTag |-> Null]]

LookupAnswered(l, eose) ==
    /\ lookup[l].step = "asking"
    /\ LET hosts == fetchEvents(eose, AtDTag(lookup[l].dTag)) IN
       \/ hosts = Null /\ Unreached(l)
       \/ hosts # Null /\ Found(l, hosts)
    /\ UNCHANGED <<relays, page, example>>

\* The count goes to the card on show.
CountedOnShow(l) == panel.by

\* fillChatCount: the card it was given, the coordinate of that card's channel.
Counted(l) == l

Shown(count) == IF count = Null THEN Unknown ELSE count

CountAnswered(l, eose) ==
    /\ lookup[l].step = "counting"
    /\ card' = [card EXCEPT ![Counted(l)].count = Shown(fetchRoomChatCount(eose, card[l].of))]
    /\ Ends(l)
    /\ UNCHANGED <<relays, panel, page, example>>

-----------------------------------------------------------------------------
(* The page's own load, and the example message. *)

\* loadChannels; with nobody live there are no profiles to ask for.
ChannelsAnswered(eose) ==
    /\ channels = "asking"
    /\ LET hosts == fetchEvents(eose, Published) IN
       \/ hosts = Null /\ channels' = "done" /\ grid' = "unknown" /\ UNCHANGED liveChannels
       \/ /\ hosts # Null
          /\ liveChannels' = Live(hosts)
          /\ IF Live(hosts) = {}
             THEN channels' = "done" /\ grid' = "empty"
             ELSE channels' = "naming" /\ UNCHANGED grid
    /\ UNCHANGED <<relays, finder, example>>

\* renderLiveGrid, with the profiles that came or with none.
ProfilesAnswered ==
    /\ channels = "naming"
    /\ channels' = "done" /\ grid' = "cards"
    /\ UNCHANGED <<relays, finder, liveChannels, example>>

Click(c) ==
    /\ click[c] = "new"
    /\ click' = [click EXCEPT ![c] = "asking"] /\ sample' = "asking"
    /\ UNCHANGED <<relays, finder, page>>

SampleAnswered(c, eose) ==
    /\ click[c] = "asking"
    /\ LET held == fetchEvents(eose, chat) IN
       \/ held = Null /\ sample' = "unknown" /\ click' = [click EXCEPT ![c] = "done"]
       \/ /\ held # Null /\ bridgeAuthored(held) = {}
          /\ sample' = "none" /\ click' = [click EXCEPT ![c] = "done"]
       \/ /\ held # Null /\ bridgeAuthored(held) # {}
          /\ click' = [click EXCEPT ![c] = "naming"] /\ UNCHANGED sample
    /\ UNCHANGED <<relays, finder, page>>

ProfileAnswered(c) ==
    /\ click[c] = "naming"
    /\ click' = [click EXCEPT ![c] = "done"] /\ sample' = "message"
    /\ UNCHANGED <<relays, finder, page>>

-----------------------------------------------------------------------------
(* The relays. *)

\* The bridge publishes a host's live event, first or again.
BridgePublishes(h) ==
    /\ \E s \in {"live", "ended"} \ {status[h]} : status' = [status EXCEPT ![h] = s]
    /\ UNCHANGED <<chat, finder, page, example>>

\* The operator retracts a channel.
BridgeRetracts(h) ==
    /\ status[h] = "ended" /\ status' = [status EXCEPT ![h] = None]
    /\ UNCHANGED <<chat, finder, page, example>>

\* A message comes to the chat relay, or its time there is over.
ChatTurns(t) ==
    /\ chat' = IF t \in chat THEN chat \ {t} ELSE chat \cup {t}
    /\ UNCHANGED <<status, finder, page, example>>

-----------------------------------------------------------------------------
Init ==
    /\ status \in [Hosts -> {None, "live"}]
    /\ chat = {}
    /\ lookup = [l \in Lookups |-> [step |-> "new", dTag |-> Null]]
    /\ panel = [says |-> "blank", by |-> 0]
    /\ card = [l \in Lookups |-> [of |-> Null, count |-> Dash]]
    /\ channels = "asking" /\ liveChannels = {} /\ grid = "blank"
    /\ click = [c \in Clicks |-> "new"] /\ sample = "blank"

\* A query ends, by its EOSE or at its deadline.
LookupStep(l) == DigestFails(l) \/ \E eose \in {0, 1} : LookupAnswered(l, eose) \/ CountAnswered(l, eose)
PageStep == ProfilesAnswered \/ \E eose \in {0, 1} : ChannelsAnswered(eose)
ClickStep(c) == ProfileAnswered(c) \/ \E eose \in {0, 1} : SampleAnswered(c, eose)

Visitor == (\E l \in Lookups : Submit(l) \/ Random(l)) \/ (\E c \in Clicks : Click(c))
Relays == (\E h \in Hosts : BridgePublishes(h) \/ BridgeRetracts(h)) \/ (\E t \in Texts : ChatTurns(t))

Next ==
    \/ \E l \in Lookups : LookupStep(l)
    \/ \E c \in Clicks : ClickStep(c)
    \/ PageStep \/ Visitor \/ Relays

Spec == Init /\ [][Next]_vars

\* queryWithStats ends by its EOSE deadline and every branch after it returns;
\* visitors and relays owe nothing.
FairSpec ==
    /\ Spec
    /\ \A l \in Lookups : WF_vars(LookupStep(l))
    /\ \A c \in Clicks : WF_vars(ClickStep(c))

-----------------------------------------------------------------------------
(* Properties. *)

\* finder.ts, chat-sample.ts, grid.ts: absence is a claim. When the page comes to say
\* that nothing is published at an address, that no bridged message is held, or that
\* nobody is live, that is so on the relay.
AbsenceIsKnown ==
    [][/\ panel'.says = "nothing" /\ panel' # panel => AtDTag(lookup[panel'.by].dTag) = {}
       /\ sample' = "none" /\ sample # "none" => chat \cap Ours = {}
       /\ grid' = "empty" /\ grid # "empty" => \A h \in Hosts : status[h] # "live"]_vars

\* finder.ts, fillChatCount: whichever lookup answers last and whatever the panel shows
\* by then, the number a card comes to show is how many messages the bridge created in
\* the room of that card's own channel.
CountOfItsRoom ==
    [][\A l \in Lookups :
          card'[l].count # card[l].count /\ card'[l].count \in Nat =>
             card'[l].count = Cardinality({t \in chat \cap Ours : RoomOf[t] = card'[l].of})]_vars

Asking == panel.says = "asking" \/ sample = "asking"

\* finder.ts, chat-sample.ts: no question is left at "Asking the relay", whatever the
\* relay, the digest or another lookup does.
AskingEnds == Asking ~> ~Asking
=============================================================================

------------------------------ MODULE ChatDelivery -----------------------------
(***************************************************************************)
(* Chat in both directions through one room that closes and reopens: the    *)
(* delivery chain with its dedup layers and the sender pool behind it, and  *)
(* the source's messages on their way to the relay, across restarts.        *)
(*                                                                          *)
(* Abstractions:                                                            *)
(*  - ChatRooms has the room's life; here it opens and closes at any time;  *)
(*  - a message is its identity: no two have the same content;             *)
(*  - a fingerprint may have lapsed (by its TTL, or by MAX_ENTRIES later    *)
(*    ones) whenever it is looked up;                                       *)
(*  - a sender has one name, which a lookup finds or not (then: Guest);     *)
(*  - what a listener hears it hears at once; what it misses is lost;       *)
(*  - presence (handleSourceJoin) is an identity published before the       *)
(*    chatter's first message;                                              *)
(*  - no two processes run at once, and sockets die with their process.     *)
(***************************************************************************)
EXTENDS Naturals, FiniteSets, Sequences, Functions, ChatPool

CONSTANTS
    Events,          \* 1311s of Nostr viewers
    Msgs,            \* messages of the source's own users
    Author,          \* who wrote each: a Nostr key (of a message: its chatter key)
    PoolCap,         \* PER_INSTANCE_CAP
    MaxRooms,        \* bound: rooms opened
    MaxArrivals,     \* bound: events that reach the chain
    MaxLapses,       \* bound: texts of a room of which a fingerprint lapses
    MaxRestarts      \* bound: restarts

Texts == Events \cup Msgs
Senders == {Author[x] : x \in Texts}
Rooms == 1..MaxRooms

ASSUME DeliveryAssumption ==
    /\ Events \cap Msgs = {} /\ IsFiniteSet(Texts) /\ DOMAIN Author = Texts
    /\ PoolCap \in Nat \ {0}
    /\ MaxRooms \in Nat /\ MaxArrivals \in Nat /\ MaxLapses \in Nat /\ MaxRestarts \in Nat

VARIABLES
    room, opened,    \* the room in the rooms map (0: none); rooms opened so far
    chain,           \* each room's delivery chain, the one in hand first
    stage,           \* where the delivery in hand awaits
    fingerprints,    \* each room's: texts with the name they were seen under
    nameCache,       \* senders whose name is known
    arrived,         \* events that reached a chain
    conns,           \* connections, by number of destroyInstance calls before them
    gone,            \* the number of destroyInstance calls
    via,             \* which of them the delivery in hand waits on
    tokens,          \* senders registered at the source
    pub,             \* where the publish of a source message is
    signers,         \* bridgedPubkeys: authors of what this process signed
    relay,           \* what the relay stores
    restarts,
    \* history, for the properties:
    sent,            \* what the source was sent
    lapsed,          \* texts of which a room forgot a fingerprint
    clean            \* was nothing of a closed room past its check?

roomVars == <<room, opened>>
chainVars == <<chain, stage, fingerprints, nameCache, arrived, via>>
poolVars == <<conns, gone, tokens>>
pubVars == <<pub, signers, relay>>
histVars == <<sent, lapsed, clean>>
vars == <<roomVars, chainVars, poolVars, pubVars, restarts, histVars>>

Names == {"name", "Guest"}
Items == [text : Texts, no : 1..MaxArrivals, room : Rooms]
Stages == {"idle", "naming", "rendering", "fetching", "sending"}
Ended == {"unsaid", "published", "failed"}
PubSteps == Ended \cup {"dialling", "asked", "called", "owed", "authing", "resent"}

-----------------------------------------------------------------------------
(* Types *)

\* Senders the pool knows since destroyInstance call h.
Pooled(h) == {s \in Senders : conns[<<s, h>>].known}

\* Types and ranges; the pool holds no more senders of a room than its cap.
TypeOK ==
    /\ room \in 0..MaxRooms /\ opened \in 0..MaxRooms
    /\ chain \in [Rooms -> Seq(Items)] /\ stage \in [Rooms -> Stages]
    /\ fingerprints \in [Rooms -> SUBSET (Texts \X Names)]
    /\ nameCache \subseteq Senders /\ arrived \in 0..MaxArrivals
    /\ DOMAIN conns = Senders \X (0..MaxRooms)
    /\ \A k \in DOMAIN conns : IsConn(conns[k], Items)
    /\ \A h \in 0..MaxRooms : Cardinality(Pooled(h)) <= PoolCap
    /\ gone \in 0..MaxRooms /\ via \in [Rooms -> 0..MaxRooms] /\ tokens \subseteq Senders
    /\ pub \in [Texts -> PubSteps] /\ signers \subseteq Senders /\ relay \subseteq Texts
    /\ restarts \in 0..MaxRestarts /\ sent \subseteq Items /\ lapsed \subseteq Rooms \X Texts
    /\ clean \in BOOLEAN

-----------------------------------------------------------------------------
(* Helpers *)

\* The delivery in hand of room g, and its sender.
Hand(g) == Head(chain[g])
From(g) == Author[Hand(g).text]

\* Mutant of Ours: the pubkeys this process created are remembered, the tag is not seen.
OursByKey(x) == Author[x] \in signers

\* handleNostrEvent: L1, the client tag of what any process of the bridge signed, and
\* L2, the pubkeys this one created.
Ours(x) == x \in Msgs \/ Author[x] \in signers

\* Mutant of Freed: a failed send severs the chain.
FreedBySuccess(k, c) ==
    IF c.step # "idle" \/ c.queue # <<>> THEN {}
    ELSE {g \in Rooms : stage[g] = "sending" /\ <<From(g), via[g]>> = k}

\* The rooms whose delivery waits on connection k, once it is c: its drain has ended,
\* well or badly.
Freed(k, c) ==
    IF c.step # "idle" THEN {}
    ELSE {g \in Rooms : stage[g] = "sending" /\ <<From(g), via[g]>> = k}

\* The deliveries in hand of the rooms G are over; the next in the chain begins.
NextLink(G) ==
    /\ chain' = [g \in Rooms |-> IF g \in G THEN Tail(chain[g]) ELSE chain[g]]
    /\ stage' = [g \in Rooms |-> CASE g \notin G -> stage[g]
                                   [] g \in G /\ Len(chain[g]) > 1 -> "naming"
                                   [] OTHER -> "idle"]

\* Connection k becomes c.
Conn(k, c) == conns' = [conns EXCEPT ![k] = c] /\ NextLink(Freed(k, c))

\* No delivery is past its look at the room and no drain runs; every socket there is
\* belongs to the open room and is held.
Quiet ==
    /\ \A g \in Rooms : stage[g] \notin {"fetching", "sending"}
    /\ \A k \in DOMAIN conns : /\ conns[k].step = "idle" /\ ~Stray(conns[k])
                               /\ k[2] # gone => ~Present(conns[k])

Going(x) == pub[x] \notin Ended

\* FingerprintCache: was it added? has, when that is long ago or MAX_ENTRIES others came
\* since; and add.
Seen(g, fp) == fp \in fingerprints[g]
Lapses(g, fp) ==
    /\ Seen(g, fp)
    /\ lapsed' = lapsed \cup {<<g, fp[1]>>} /\ Cardinality(lapsed') <= MaxLapses
Add(g, fp) == fingerprints' = [fingerprints EXCEPT ![g] = @ \cup {fp}]

\* fetchProfileName: the network's name, else the chat relay's own, else none.
FetchedNames == {IF network \/ local THEN "name" ELSE "Guest" : network, local \in BOOLEAN}

\* resolveName: a name found before is not looked up again.
ResolvedNames(s) == IF s \in nameCache THEN {"name"} ELSE FetchedNames

\* getOwncastUserIds: senders the pool has registered.
PoolsOwn(s) == s \in tokens

\* openListener: what the room's listener hears goes on unless the pool said it.
PassesOn(s) == room # 0 /\ ~PoolsOwn(s)

-----------------------------------------------------------------------------
(* Rooms *)

OpenRoom ==
    /\ room = 0 /\ opened < MaxRooms /\ opened' = opened + 1 /\ room' = opened'
    /\ UNCHANGED <<chainVars, poolVars, pubVars, restarts, histVars>>

\* refreshRooms, stop: the listener stops and the pool's connections of the room are
\* closed and dropped; a delivery in hand and the drains go on.
CloseRoom ==
    /\ room # 0 /\ room' = 0 /\ gone' = gone + 1
    /\ conns' = [k \in DOMAIN conns |-> IF k[2] = gone THEN Destroyed(conns[k]) ELSE conns[k]]
    /\ clean' = Quiet
    /\ UNCHANGED <<opened, chainVars, tokens, pubVars, restarts, sent, lapsed>>

-----------------------------------------------------------------------------
(* Nostr to source *)

\* handleNostrEvent: a 1311 from either subscription, once more or for the first time,
\* joins the room's chain.
Arrive(x) ==
    /\ room # 0 /\ arrived < MaxArrivals /\ x \in Events \cup relay /\ ~Ours(x)
    /\ arrived' = arrived + 1
    /\ chain' = [chain EXCEPT ![room] =
                     Append(@, [text |-> x, no |-> arrived', room |-> room])]
    /\ stage' = [stage EXCEPT ![room] = IF @ = "idle" THEN "naming" ELSE @]
    /\ UNCHANGED <<roomVars, fingerprints, nameCache, via, poolVars, pubVars, restarts, histVars>>

\* deliverToSource has the name: one that was found is kept, Guest is not; then L3.
Named(g, n) ==
    LET fp == <<Hand(g).text, n>> IN
    /\ stage[g] = "naming" /\ n \in ResolvedNames(From(g))
    /\ nameCache' = IF n = "name" THEN nameCache \cup {From(g)} ELSE nameCache
    /\ Add(g, fp)
    /\ \/ Seen(g, fp) /\ NextLink({g}) /\ UNCHANGED lapsed
       \/ /\ (~Seen(g, fp) /\ UNCHANGED lapsed) \/ Lapses(g, fp)
          /\ stage' = [stage EXCEPT ![g] = "rendering"] /\ UNCHANGED chain
    /\ UNCHANGED <<roomVars, arrived, via, poolVars, pubVars, restarts, sent, clean>>

\* Mutant of Current: the room is not looked up again.
CurrentAlways(g) == TRUE

\* Is g still the room in the map?
Current(g) == room = g

\* The payload of the delivery in hand is queued at the connection of its sender.
Queued(g) ==
    LET k == <<From(g), gone>> IN
    /\ conns' = [conns EXCEPT ![k] = Pushed(@, Hand(g))]
    /\ stage' = [stage EXCEPT ![g] = "sending"] /\ via' = [via EXCEPT ![g] = gone]
    /\ UNCHANGED chain

\* Mutant of PoolSend: one sender too many.
PoolSendOver(g) ==
    IF From(g) \notin Pooled(gone) /\ Cardinality(Pooled(gone)) > PoolCap
    THEN NextLink({g}) /\ UNCHANGED <<conns, via>>
    ELSE Queued(g)

\* pool.send for the delivery in hand: a new sender over the cap is refused.
PoolSend(g) ==
    IF From(g) \notin Pooled(gone) /\ Cardinality(Pooled(gone)) >= PoolCap
    THEN NextLink({g}) /\ UNCHANGED <<conns, via>>
    ELSE Queued(g)

\* The content is rendered. A text without emoji goes to the pool at once.
Rendered(g, emoji) ==
    /\ stage[g] = "rendering"
    /\ CASE ~Current(g) -> NextLink({g}) /\ UNCHANGED <<conns, via>>
         [] Current(g) /\ emoji -> /\ stage' = [stage EXCEPT ![g] = "fetching"]
                                   /\ UNCHANGED <<chain, conns, via>>
         [] OTHER -> PoolSend(g)
    /\ UNCHANGED <<roomVars, fingerprints, nameCache, arrived, gone, tokens, pubVars, restarts,
                   histVars>>

\* sendMessage goes on after getInstanceEmoji.
Fetched(g) ==
    /\ stage[g] = "fetching" /\ PoolSend(g)
    /\ UNCHANGED <<roomVars, fingerprints, nameCache, arrived, gone, tokens, pubVars, restarts,
                   histVars>>

-----------------------------------------------------------------------------
(* The pool *)

connFrame == <<roomVars, fingerprints, nameCache, arrived, via, gone, pubVars, restarts, histVars>>

\* register: cached, answered, or failed.
Registers(k) ==
    LET c == conns[k] IN
    /\ c.step = "register"
    /\ \/ tokens' = tokens \cup {k[1]} /\ Conn(k, Dials(c))
       \/ k[1] \notin tokens /\ Conn(k, Fails(c)) /\ UNCHANGED tokens
    /\ UNCHANGED connFrame

SocketOpens(k) ==
    /\ conns[k].sock = "dialling" /\ Conn(k, Opens(conns[k])) /\ UNCHANGED <<connFrame, tokens>>

SocketFails(k) ==
    /\ conns[k].sock \in {"dialling", "aborting"} /\ Conn(k, DialFails(conns[k]))
    /\ UNCHANGED <<connFrame, tokens>>

\* The wait of drain ends and the payload goes. The listener of the room may hear it, and
\* drops it as the pool's own.
Paced(k) ==
    LET c == conns[k]
        x == Head(c.queue).text
    IN  /\ c.step = "pace" /\ Conn(k, Sends(c))
        /\ sent' = IF Ready(c) THEN sent \cup {Head(c.queue)} ELSE sent
        /\ pub' = IF Ready(c) /\ PassesOn(k[1]) /\ pub[x] = "unsaid"
                  THEN [pub EXCEPT ![x] = "dialling"] ELSE pub
        /\ UNCHANGED <<roomVars, fingerprints, nameCache, arrived, via, gone, tokens, signers,
                       relay, restarts, lapsed, clean>>

SocketDrops(k) ==
    /\ conns[k].sock = "open" /\ Conn(k, Closing(conns[k])) /\ UNCHANGED <<connFrame, tokens>>

SocketGone(k) ==
    /\ conns[k].sock = "closing" /\ Conn(k, SockGone(conns[k])) /\ UNCHANGED <<connFrame, tokens>>

EarlierGone(k) ==
    /\ \/ conns[k].leaving > 0 /\ Conn(k, LeavingGone(conns[k]))
       \/ conns[k].strays > 0 /\ Conn(k, StrayGone(conns[k]))
    /\ UNCHANGED <<connFrame, tokens>>

-----------------------------------------------------------------------------
(* Source to Nostr *)

pubFrame == <<roomVars, chainVars, poolVars, restarts, histVars>>

\* gateway.publish: signed with the client tag, then publishAuthed dials.
Publish(x) == pub' = [pub EXCEPT ![x] = "dialling"]

\* handleSourceChat hears a message, unless its fingerprint is there; the identity of a
\* chatter that is new in this room is broadcast first.
Say(x) ==
    /\ x \in Msgs /\ pub[x] = "unsaid" /\ PassesOn(Author[x]) /\ ~Seen(room, <<x, "name">>)
    /\ Add(room, <<x, "name">>)
    /\ signers' = signers \cup {Author[x]}
    /\ Publish(x)
    /\ UNCHANGED <<roomVars, chain, stage, nameCache, arrived, via, poolVars, relay, restarts,
                   histVars>>

\* The socket opens and the event is sent.
Asks(x) ==
    /\ pub[x] = "dialling" /\ pub' = [pub EXCEPT ![x] = "asked"]
    /\ UNCHANGED <<pubFrame, signers, relay>>

\* The relay's challenge comes: early, or after the refusal that waits for it.
Challenged(x) ==
    /\ pub[x] \in {"asked", "owed"}
    /\ pub' = [pub EXCEPT ![x] = IF @ = "asked" THEN "called" ELSE "authing"]
    /\ UNCHANGED <<pubFrame, signers, relay>>

\* The relay stores the event; its OK may be late, or lost.
Stores(x) ==
    /\ pub[x] \in {"asked", "called", "resent"} /\ relay' = relay \cup {x}
    /\ UNCHANGED <<pubFrame, signers, pub>>

\* OK for the event: accepted.
Accepted(x) ==
    /\ pub[x] \in {"asked", "called", "resent"} /\ x \in relay
    /\ pub' = [pub EXCEPT ![x] = "published"]
    /\ UNCHANGED <<pubFrame, signers, relay>>

\* OK for the event: refused, the first time perhaps for want of AUTH.
Refused(x) ==
    /\ pub[x] \in {"asked", "called", "resent"} /\ x \notin relay
    /\ \E auth \in BOOLEAN :
          pub' = [pub EXCEPT ![x] = CASE auth /\ @ = "asked" -> "owed"
                                      [] auth /\ @ = "called" -> "authing"
                                      [] OTHER -> "failed"]
    /\ UNCHANGED <<pubFrame, signers, relay>>

\* Mutant of AuthAnswered: a welcome to the author is taken for one to the event.
AuthAnsweredEnd(x) ==
    /\ pub[x] = "authing"
    /\ \E ok \in BOOLEAN : pub' = [pub EXCEPT ![x] = IF ok THEN "published" ELSE "failed"]
    /\ UNCHANGED <<pubFrame, signers, relay>>

\* OK for the AUTH, or the fallback timer: the event is sent again; or refused.
AuthAnswered(x) ==
    /\ pub[x] = "authing"
    /\ \E ok \in BOOLEAN : pub' = [pub EXCEPT ![x] = IF ok THEN "resent" ELSE "failed"]
    /\ UNCHANGED <<pubFrame, signers, relay>>

\* The socket fails, the timeout comes first, or a late refusal of the AUTH.
PublishEnds(x) ==
    /\ Going(x) /\ pub' = [pub EXCEPT ![x] = "failed"]
    /\ UNCHANGED <<pubFrame, signers, relay>>

-----------------------------------------------------------------------------
(* Specification *)

Blank == [k \in Senders \X (0..MaxRooms) |-> New]

\* The process dies and starts again: rows and relays are all that is left.
Restart ==
    /\ restarts < MaxRestarts /\ restarts' = restarts + 1
    /\ room' = 0 /\ conns' = Blank /\ tokens' = {} /\ signers' = {} /\ nameCache' = {}
    /\ chain' = [g \in Rooms |-> <<>>] /\ stage' = [g \in Rooms |-> "idle"]
    /\ fingerprints' = [g \in Rooms |-> {}] /\ via' = [g \in Rooms |-> 0]
    /\ pub' = [x \in Texts |-> IF Going(x) THEN "failed" ELSE pub[x]]
    /\ clean' = TRUE
    /\ UNCHANGED <<opened, arrived, gone, relay, sent, lapsed>>

Init ==
    /\ room = 0 /\ opened = 0 /\ conns = Blank /\ gone = 0 /\ tokens = {} /\ signers = {}
    /\ chain = [g \in Rooms |-> <<>>] /\ stage = [g \in Rooms |-> "idle"]
    /\ fingerprints = [g \in Rooms |-> {}] /\ via = [g \in Rooms |-> 0]
    /\ nameCache = {} /\ arrived = 0
    /\ pub = [x \in Texts |-> "unsaid"] /\ relay = {} /\ restarts = 0
    /\ sent = {} /\ lapsed = {} /\ clean = TRUE

Next ==
    \/ OpenRoom \/ CloseRoom
    \/ \E x \in Texts :
          \/ Arrive(x) \/ Say(x) \/ Asks(x) \/ Challenged(x) \/ Stores(x) \/ Accepted(x)
          \/ Refused(x) \/ AuthAnswered(x) \/ PublishEnds(x)
    \/ \E g \in Rooms : \/ \E n \in Names : Named(g, n)
                        \/ \E emoji \in BOOLEAN : Rendered(g, emoji)
                        \/ Fetched(g)
    \/ \E k \in DOMAIN conns :
          \/ Registers(k) \/ SocketOpens(k) \/ SocketFails(k) \/ Paced(k)
          \/ SocketDrops(k) \/ SocketGone(k) \/ EarlierGone(k)
    \/ Restart

Spec == Init /\ [][Next]_vars

-----------------------------------------------------------------------------
(* Properties *)

\* L1, L2 and the adapter's filter: nothing the bridge brought to one side is brought
\* back to the other, rooms reopened and processes restarted in between or not.
NoEcho == (\A i \in sent : i.text \in Events) /\ relay \subseteq Msgs

\* The chain and the pool's queues: while a room is open, what one sender says in it reaches
\* the source in the order it arrived, failed sends and leftover payloads included, and
\* what earlier rooms left in the pool notwithstanding.
SenderOrder ==
    [][\A i \in sent' \ sent, j \in sent :
          i.room = room /\ j.room = room /\ Author[i.text] = Author[j.text] => j.no < i.no]_vars

\* "One failed delivery must neither sever the chain nor skip the messages behind it": a
\* chain that is not empty has its head in hand, and a delivery that waits on the pool
\* waits on a drain that runs and has something to send.
ChainMoves ==
    \A g \in Rooms :
        /\ (stage[g] = "idle") = (chain[g] = <<>>)
        /\ stage[g] = "sending" =>
              LET c == conns[<<From(g), via[g]>>] IN c.step # "idle" /\ c.queue # <<>>

\* deliverToSource looks the room up again, destroyInstance closes what is held: when a
\* room closed with nothing past that check, no sender is left in the source's chat.
ClosedQuiet == room = 0 /\ clean => \A k \in DOMAIN conns : ~Present(conns[k])

\* publishAuthed: a 1311 counted as published is on the relay ("failures can't masquerade
\* as bridged messages").
PublishedIsStored == \A x \in Texts : pub[x] = "published" => x \in relay

\* "A name that resolves differently on a repeat delivery would defeat dedup", so the
\* fingerprint is of the raw content: no event reaches the source twice in one room.
DeliveredOnce == \A i, j \in sent : i.text = j.text /\ i.room = j.room => i = j

\* What is left of it: while a room forgets no fingerprint of an event, however many copies of
\* the event arrive there, the source gets it twice at most, once as Guest's and once under
\* its sender's name. (A fingerprint is kept for 60 s and for 500 later ones; a copy may come
\* later, or wait in the chain for longer.)
TwiceAtMost ==
    \A i, j, k \in sent :
        /\ i.text = j.text /\ j.text = k.text /\ i.room = j.room /\ j.room = k.room
        /\ <<i.room, i.text>> \notin lapsed
        => i = j \/ j = k \/ i = k

\* Arrivals on their way: those in a chain that the pool has not got, and those in its
\* queues.
Waiting(g) == Range(IF stage[g] = "sending" THEN Tail(chain[g]) ELSE chain[g])
Queue(k) == Range(conns[k].queue)
Pending == (UNION {Waiting(g) : g \in Rooms}) \cup (UNION {Queue(k) : k \in DOMAIN conns})

Contract == INSTANCE DeliveryContract WITH pending <- Pending, delivered <- sent

\* The chains, the pool and its sockets, through closes, reopens and restarts, keep what
\* the contract promises: an arrival is delivered at most once or given up, what nobody
\* said is not delivered, and in the open room nobody overtakes themselves.
ImplementsDelivery == Contract!Spec

=============================================================================

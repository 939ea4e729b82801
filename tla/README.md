# A verification development for livelier

livelier bridges independent live-streaming networks (today: Owncast) to Nostr.
One long-running worker discovers live streams and publishes them as Nostr events,
and bridges chat in both directions; a static website reads what it published. This
directory holds TLA+ models of both, the TLC runs that check them and the TLAPS proofs
about them. Paths below are relative to `src/`; `shared` is `packages/shared/src`, and
the other short paths are below `packages/bridge/src`.

## 1. The system

| Component | State | Operations | Interacts through |
|---|---|---|---|
| Discovery engine (`core/discovery/discovery-bridge.service.ts`) | the timer, `running`, copies of rows read in a cycle | one poll cycle: fetch the live set, `processLive`, `processManualRows`, `reconcileDisappeared` | the store (SQL), the adapter (HTTP), the publisher (relays) |
| Instance store (`core/instance-store.ts`) | one row per instance | `upsertSeen`, list queries, `update` | shared by the engine, the chat service and the operators' scripts |
| Live-event publisher (`core/nostr/live-event.publisher.ts`) | none | publish profile, relay list, live event | relays accept or refuse |
| Operator scripts (`operations/*.mjs`) | none | `set-discovery`, `set-chat`, `retract-instance`, `republish-profiles` | separate processes on the same rows and relays |
| Chat rooms (`core/chat/chat-bridge.service.ts`) | the rooms map, a listener handle per room | `refreshRooms` (30 s), `pollDemand`, `start`, `stop` | store, demand endpoint, adapter |
| Source listener (`sources/owncast/chat/owncast-listener.ts`) | socket, two timers, failure budget, cadence | `start`, `stop`, `connect`, `scheduleReconnect`, `markHealthy` | HTTP and WebSocket of one instance; callbacks into the chat service |
| Firehose and network watcher (`chat-bridge.service.ts`) | two subscription handles, counters of the watchdog | `ensureNostrSub`, `ensureNetworkSub`, close handlers, `checkSubscriptionHealth`, `restartNostrSub` | `ClientService.subscribe`, callbacks `onevent` and `onclose` |
| Delivery and dedup (`chat-bridge.service.ts` 292-477, `core/chat/fingerprint.ts`) | a promise chain and fingerprints per room, names, chatters' keys | `handleSourceChat`, `handleSourceJoin`, `handleNostrEvent`, `deliverToSource` | gateway, sender pool |
| Sender pool (`sources/owncast/chat/chat-pool.ts`) | a connection, its sockets and a queue per sender | `send`, `drain`, `register`, `connect`, `destroyInstance` | WebSockets of the instances |
| Gateway and authed publish (`core/nostr/`) | none that outlives a call | `publish`, `publishAuthed` with NIP-42, name lookups | the chat relay, profile relays |
| `ClientService` (`shared/nostr/services/client.service.ts`) | pool, cooldowns, caches | `subscribe`, `queryWithStats`, the replaceable-event loader, `publishEvent`, `createSignedEvent` | relays |
| Profile requests (`shared/nostr/services/profile-request-coordinator.ts` with the profile and miss caches) | wanted, in-flight and failed keys, two timers, two stored caches | `retain`, `getProfiles`, `refreshProfiles`, flush, retry | the replaceable-event loader, storage |
| Website (`packages/site/src`) | the finder's panel, cards, the grid, the chat sample | `loadChannels`, `lookup`, `fillChatCount`, `initChatSample` | event relay, chat relay, visitors |
| Migrations, configuration, identity | the schema version | run once at boot | Postgres |
| Read-only reports, content rendering | none | | |

**What is hard.** The worker is single-threaded, but every `await` lets another
timer, callback or message in, and other processes write to the same rows:

- the engine reads a row, awaits relays and probes, and writes columns computed
  from the old copy, while operators switch flags and wipe markers;
- relays refuse, the process may die between a publish and the update of its row;
- `setInterval` starts the next `refreshRooms` while the last one still awaits a
  dial, and `stop()` may come while any call is parked;
- subscriptions die with and without a report, closes come in bursts, rate limits
  arm retries that nobody counts;
- the listener must never give up, never join twice and never survive `stop()`;
- a delivery awaits a name, a rendering, a list of emoji, a registration, a socket and a
  pacing delay, and its room may close and reopen during each of them;
- a query is over by EOSE, by a close, by a deadline, or because another query's rate limit
  severed the socket, and only some of these say anything about what exists;
- the profile coordinator flushes from demand, from two timers and from answers, around
  loads from storage and a pacing of its dispatches.

**What makes each part correct.** *Discovery*: a stream is torn down only after the
full budget of failed probes; a running stream is live on the relay in the end and
a gone one is not; row and relay agree; opting out silences the engine; a retraction
stands. *Rooms*: rooms follow the rows, each demanded room has one listener, and
every running listener belongs to a room. *Listener*: exactly one attempt at a time,
`stop` is final, dormancy is exact and temporary. *Firehose*: nothing survives
`stop`, a dead subscription is replaced in bounded time, a working one is kept.
*Delivery and pool*: no echo, in order, a failure never severs the chain, nothing is
left connected in a room that closed, and what is reported as published is stored.
*Client*: absence is recorded only where a relay answered, and a publish is seen.
*Profiles*: no key in two requests, every wanted key asked for and retried, nothing
known is lost. *Website*: absence and counts are claimed only on a relay's word, and
every question gets an answer.

`PROJECT.json` lists every component with its status, every hazard at its line
with the properties that would catch it, the map from definitions to source lines,
and the mutants that show each property can fail.

## 2. Modules

| Module | Models |
|---|---|
| `Discovery`, `MCDiscovery` | engine, rows, relays, operator scripts, source |
| `ChatRooms`, `MCChatRooms` | rooms and listener handles under overlapping calls |
| `OwncastListener` | the reconnecting listener |
| `ListenerContract` | what the chat service relies on: the abstract listener |
| `DeliveryContract` | what the chat service promises of the way to the source: the abstract delivery |
| `StandingSub` | `ClientService.subscribe` as operators over a record |
| `Firehose`, `MCFirehose` | both standing subscriptions, the watchdog, `stop()` |
| `ChatPool` | one sender's connection in the pool, as operators over a record |
| `ChatDelivery`, `MCChatDelivery` | one instance's chat in both directions: chain, dedup, pool, authed publishes |
| `Client`, `MCClient` | one-shot queries, the loader with its caches, publishes, cooldowns |
| `ProfileRequests`, `MCProfileRequests` | the coordinator with its caches, ledger, timers and storage |
| `Site`, `MCSite` | the finder, the grid and the chat sample of the website |
| `Discovery_proofs`, `ChatRooms_proofs`, `OwncastListener_proofs`, `Firehose_proofs`, `ChatDelivery_proofs`, `Client_proofs`, `ProfileRequests_proofs`, `Site_proofs` | the theorems of section 4 |

Every module lists its abstractions at its head. A definition whose comment calls it a
mutant of another is that other with a plausible bug; `PROJECT.json` says which property
notices it. No other definition uses a mutant.

### Discovery

An action is the code between two awaits. `FetchLive` is the tick with the answer of
`fetchLive`; `UpsertSeen`, `ProbeSeen`, `PublishProfile`, `SaveHash`,
`PublishLiveEvent`, `Save` are `processLive`; `ListManual` and `ProbeManual` start the
second loop and `ListActive`, `ProbeGone`, `PublishEnded` the third; `pc` and `pass` say
where the cycle is and `copy` holds the rows it read and still uses. `AbortCycle` is
an exception at any await, and a crash: the engine keeps nothing but memory.
`SetDiscovery`, `RetractCheck/Delete/Blank/Save` and `RepublishProfile` are the scripts; the
last clears the hash of any row, as its selection may be long past when its update runs.
`last_published_at` is never, fresh or stale; the failure counter counts on as in the code,
which has no limit for it; start times count by equality. History variables: `misses` (probes
not answered live, tallied up to `MaxFailures`), `quiet` (opted out before this cycle),
`retracted`.

### ChatRooms

Each call of `refreshRooms` or `pollDemand` in flight is a record in `tasks`, parked on
its query, on the answer, or on `openListener`. `Reconcile` and `Sweep` run to the next
await. `orphan` says that some running listener is in no room.
The rows are an environment here (`wanted`): `set-chat` and the engine write them.

### OwncastListener and ListenerContract

`dial`, `ws`, `reconnectTimer` and `healthyTimer` are what the object holds; `Stop` may come
at any point. Delays are numbers of seconds but time does not pass: an armed timer may
fire. The contract has two variables, `link` and `slow`; `Link` and `Slow` in
`OwncastListener` are the refinement mapping.

The adapter returns the handle only when `start()` has returned, so the chat service itself
cannot stop a listener during its first dial; the model, like the class, allows it.

### StandingSub and Firehose

A subscription is a record: the link of each relay, whether it is on a retry, and the
count of closes. `Firehose` instantiates `StandingSub` twice, for the chat relay and for
the network relays. The unit of time is the window between two health checks; counters only
matter as zero or more. `RefreshTail` is the tail of a `refreshRooms` parked across
anything, `stop()` included.

### ChatPool and ChatDelivery

`ChatPool` has a connection of the pool: its queue, where `drain` is, and its newest socket
with whether `conn.ws` still is that socket, because the close handler of an old one clears
the field too. Earlier sockets whose close event is still to come are counted, those that are
closing (`leaving`) and those that are open with nobody to close them (`strays`). `ChatDelivery` keeps one per sender and per `destroyInstance` call, since a
connection that was dropped from the map goes on draining. A room's chain is a sequence whose
head is in hand; `stage` is the await it is parked on: the name (`Named`), the content
(`Rendered`), the emoji of the adapter (`Fetched`) or the pool. `Current` is the second look
at the room. In the other direction `Say` is a message or a join that the listener hears, and
`Asks` to `PublishEnds` are `publishAuthed`: dial, challenge, AUTH, resend, refusal, timeout,
and an OK that is lost. A fingerprint may have lapsed whenever it is looked up, by its age or
for the number of later ones (`Lapses`). `Restart` keeps only what relays hold.

`DeliveryContract` has three variables: the open room, the arrivals on their way, and those
that the source was sent. The refinement mapping reads the second off the chains and the
queues of all connections (`Pending`) and the third off the history `sent`. It leaves out how
an arrival travels and why one is given up.

### Client

A query holds for each relay whether it was asked, is being connected to, has its REQ open,
was closed, or answered. `Load` puts a key in the pending batch, `Dispatch` asks the primary
relays, `NextTier` the fallback ones for what is left, `Finish` caches and records misses.
`RateLimited` is the CLOSED of one query that severs the REQs of all others on that relay.
`Publish`, `PublishAnswers` and `PublishEnds` are `publishEvent` with `prime`. `heard` and
`told` are history: relays whose EOSE came in time, and versions a publish promised.

### ProfileRequests

An action is a callback with the microtasks it starts. `Flush` is one `flush` with its
`dispatch`; `Waits` is where it stops, for the two caches to load (`parked`) or for pacing
(`bootTimer`). `Mount`, `Get`, `Refresh` and their ends are the demand; `Settle` and `Arrives`
the answers; `RetryTimerFires`, `BootTimerFires`, `ResumeFlush` and `Tick` the timers. `Load*`,
`Save*`, `Expire` and `Crash` are the two caches and their storage. The attempts of a key count
on past the slow lane, as in the code. Time is in ticks: no timer
that is due waits for a tick to pass, but anything else may come before it.

### Site

A lookup, a click and the load of the channels each have a step, and a query ends with its
EOSE or without; what relays hold changes between any two steps. Instance addresses are a
host and a path, so that what `coerceInstanceUrl` and the d-tag do to them is modelled by what
it does. `panel` is the one element that all lookups write to.

## 3. Runs

| Run | Question | Instance | Distinct states |
|---|---|---|---|
| `discovery_safety` | budget, opt-out, rows against relays, retraction | 1 instance, manual and listed, with operators; budget 2, one refused publish, one abort, one retraction, one profile | 5.62 million |
| `discovery_lifecycle` | live in the end, torn down in the end; hashes against relays | 1 instance, manual and listed; 2 profiles, budget 1, one refused publish, one abort | 301 000 |
| `chat_rooms` | rooms and listeners under overlap | 2 URLs, 2 calls in flight | 147 000 |
| `chat_rooms_orphan` | no listener without an owner: violated | 1 URL, 2 calls in flight | |
| `listener` | the whole listener, refinement included | the constants of the code (5 failures, 15 s, 300 s, 1800 s) | 1172 |
| `firehose` | watchdog, `stop()`, network watcher | 1 chat relay, 2 network relays, 2 windows of echo misses, silence of 3 windows | 376 000 |
| `chat_delivery` | echo, order, chain, closed rooms, publishes, refinement | 2 viewers and 1 chatter, 1 text each; pool of 1, 2 openings of the room, 2 arrivals, 1 lapse, 1 restart; the viewers are symmetric | 884 000 |
| `delivery_twice` | an event reaches the source once: violated | the same, without lapses and symmetry | |
| `profiles` | batches, retries, caches, crashes | 2 keys (one displayed; one called for and refreshed), a cache of 1, 2 ticks of backoff, slow lane at 2, 1 fast attempt, 3 attempts counted | 519 000 |
| `profile_wakeup` | a lapsed cooldown is looked at: violated | the same | |
| `client` | misses, write-through, nothing cached that no relay stores | a relay list of 2 versions and a profile, 1 primary and 1 fallback relay, a cache of 1, 2 batches under way; batches are symmetric | 1.22 million |
| `site` | absence, counts, answers | 2 hosts, a bridged and a foreign message in one room, 2 lookups over 4 inputs, 1 click | 542 000 |

**Bounds.** *Discovery*: the engine handles one instance at a time and instances meet only
in `todo` and `live`, so one instance with every role covers the interleavings with
operators. Budget 2 is the least for which a failure that does not tear down exists. One
refusal, abort and retraction each, anywhere; the hashes are compared in
`discovery_lifecycle`, where operators are not, for two profiles are the least that can make
one stale, and `republish-profiles`, which clears them, is left to the theorem. `MaxCount`
ends the failure counter one above the budget, so that it passes the only value it is compared
with: the runs stop where the code would count on. The directory reports no start times in the
runs. The theorems do not depend on any of this. *Rooms*: two calls in flight are the least that overlap, and two URLs the least for
which a room is closed while another is dialled. *Firehose*: silence of 3 windows stands for
60: it is longer than the echo rule's two, which is what tells the two rules apart; two
network relays are the least for which a close is not always the last one. *Delivery*: two
openings of a room are the least for which a delivery outlives its room into another; two
arrivals are two events or one event twice; a pool of one makes the second viewer the one
over the cap. `MaxLapses` is for how many texts of a room a fingerprint may be found lapsed, as often as one
is looked up. The order of one sender's messages is in this run the order of a text and its
copy; the theorem has any number of both, as it has the third copy that `TwiceAtMost` is about. *Profiles*: a cache of one makes every second
profile evict; the base and the cap of two ticks leave a tick between lapse and heartbeat; `MaxAttempts` ends
the count of attempts one above the slow lane, from where on all attempts are alike.
*Client*: two versions of one key are the least that make a stale copy, two batches the
least for which one severs another's REQ. *Site*: two lookups are the least that overlap;
the inputs are no address, a root with its slash, a page of the same host, and the other
host.

**Deadlock** is checked except in `chat_delivery`, `delivery_twice` and `site`: with their
rooms, arrivals, lookups and clicks used up, nothing more need happen there.

**Fairness.** `Discovery`: the cycle goes on and the heartbeat interval ends (a timer,
and requests with timeouts); nothing is assumed of operators, streams or relays beyond
the bounded refusals. `ChatRooms`: timers fire, awaits end (both fetches have
timeouts), and queries are not rejected for ever; strong fairness only because the bound
on calls in flight can disable a tick. `OwncastListener`: timers fire, both requests have
timeouts; that a WebSocket handshake ends and a drop is noticed is assumed, the code has
no timer for it. `Firehose`: checks run, dials end (5 s timeout), echoes of an open REQ come,
the rows can be read now and then. `Site`: a lookup and a click go on, because a query ends
at its deadline at the latest. The other modules are checked for safety only; their promises of
the kind "is asked for in the end" are stated as invariants: something is armed or under way
(`FreshIsAsked`, `ChainMoves`). `CoolingIsTimed` is weaker: it says for when the timer is armed
while no batch is out, and with a batch out the timer may be off; that a lapsed key is then not
looked at is what `profile_wakeup` shows.

**What the violations show.**
1. `NoOrphanListener`: the handle of a dial is stored without a second look at the room; two
   overlapping calls, or a close during the dial, leave a listener that no `stop()` reaches.
2. `DeliveredOnce`: the fingerprint contains the sender's name, and "Guest" is used but not
   kept when the lookup fails; a second copy of the event under the real name is sent again.
   A third is not, until a fingerprint lapses (`TwiceCorrect`).
3. `LapsedIsRetried`: an answer that comes between the lapse of a cooldown and the heartbeat's
   callback clears the due timer and arms none, for a lapsed cooldown is no longer ahead.

**What the models show besides**, without a run of its own:
- `reconcileDisappeared` flips the row to ended even when every relay refused the terminal
  event (`discovery-bridge.service.ts:468`), and an ended row is never looked at again, so
  the live event stays; `docs/architecture.md:42-43` does not say so. `RowMatchesRelay` and
  `TornDown` hold while nothing is refused.
- A cycle that read the row before an operator switched it off publishes over the retraction
  and restores the markers. `CleanRetractionStands` is what does hold: a retraction begun while
  no cycle held a copy of the row.
- `processLive` does not look at the previous status when it chooses `starts`, so that the
  first start may be kept across ended and live (`docs/architecture.md:45-46`).
- A close within the restart floor is not taken up by the next health check
  (`chat-bridge.service.ts:513-522`); `FirehoseRecovers` holds: the silence backstop gets there.
- A load that runs beside a publish of its key can put the older version back into the cache;
  `PublishedIsSeen` holds for publishes that no load ran beside.
- The address of a page of an instance is hashed with its path (`packages/site/src/nostr/dtag.ts:26-31`), and
  the finder reports a bridged channel as not published. `AbsenceIsKnown` speaks of the address
  that was asked for.

## 4. Proofs

All for every value of the constants that satisfies the module's named assumption, with no
assumption beyond those; `SerialCorrect` alone has a hypothesis, one call at a time.
`ProfilesAssumption` contains that powers of two up to the slow lane are natural numbers, a fact
of arithmetic for which the provers have no rule. Each invariant below is inductive, together
with the ones it is said to add to: the initial states satisfy it, every action preserves it (one
lemma or step per action), and the properties follow from it.

- **Discovery.** `TypeCorrect`: `TypeOK` is inductive as it stands; it sets no limit to the failure
  counter. `BudgetCorrect`
  (`FailureBudget` and `CounterBacked`): `FailureBudget` says that a
  teardown is about to be published only when `misses` is full. By itself it is not inductive;
  `BudgetInv` adds that neither the persisted counter (`CounterBacked`) nor the engine's copy
  (`CopyBacked`) exceeds `misses` until that is full, that a teardown under way has a full history
  (`TeardownBacked`), that after a failed probe the counter the gone pass is about to write,
  the copy plus one, does not exceed it either (`SaveBacked`), and that the gone pass never
  reaches the phases of a live instance (`GonePhases`). This is where stale copies, aborted
  cycles and revival by an unanswered probe could go wrong. `QuietCorrect` (`QuietWhenOff`):
  `QuietInv` says that an instance that was quiet
  when the cycle began still has its flag off in the row (`QuietRows`) and in the engine's copy
  (`QuietCopies`, `CopyInUse`), and that whatever is in hand or still to do was enabled when
  it was read (`InHandEnabled`, `TodoEnabled`, `IdlePass`). `MatchCorrect` (`RowMatchesRelay`):
  `MatchInv` adds that a copy in use has its row's status and publish marker
  (`CopiesFaithful`; a 30311 that is not due relies on it), that nothing in hand is still to
  come up (`InHandOnce`), and that what the update is about to write is on the relay
  (`SaveAgrees`, `ManualLive`, `GoneSteps`). `StandsCorrect` (`CleanRetractionStands`): `StandsInv`
  says that everything in hand or still to come up is a known copy (`InUseKnown`), so a row
  that is off and not copied (`Aside`) is out of the engine's reach, and that the script's
  instance is such a row for as long as it is alone (`OpAside`, `CleanAside`). `HashCorrect`
  (`HashMatchesRelay`): `HashInv` adds to `MatchInv`'s premise that the hash in the copy of the
  instance in hand is, between publish and update, that of the profile just published
  (`HashToSave`); the metadata may have flipped back by then, and the row may have lost its hash
  to `republish-profiles`.
- **OwncastListener.** `ListenerTypeCorrect`, `ListenerAlive` (`OneAttempt`, `StopIsFinal`) and
  `ListenerPatient` (`DormancyExact`, `PatientBackoff`) from `ListenerInv`: the mutual
  exclusion of request, socket and timer; where the uptime timer may be armed
  (`TimerOfOpenSocket`); that the counter equals the history until `stop` (`CountsAgree`);
  that no armed delay is shorter than the last (`WaitsGrow`). `ListenerRefinesContract`: initial
  states and steps are those of `ListenerContract`, from that invariant.
- **ChatRooms.** `RoomsTypeCorrect` and `EagerCorrect` (`EagerRoomsHeardOnce`) from `RoomsInv`.
  It adds that a call holds a room of the map only while it dials it (`HeldInMap`), and that
  nothing polls without a demand source (`PollsWired`): a sweep would dial a room that a
  refresh is dialling. The one-listener rule is stated without cardinalities (`HeardOnce`).
  `SerialCorrect` is the other side of the run `chat_rooms_orphan`: with one call at a time
  (`Tasks = {t}`) `NoOrphanListener` does hold, with and without a demand source. Its invariant
  `Serial` says that a listener on its way is the one of the call's own room (`DialIsOwn`), which
  no other call can have closed.
- **Firehose.** `FirehoseTypeCorrect`, `StoppedCorrect`, `DeafCorrect`, `HeardCorrect` and
  `NetworkLossCorrect` from `FirehoseInv`. `SubsSound`: each count of closes is the number of
  relays whose first REQ ended, and the watcher's is never complete, because the close that
  completes it rebuilds it. `HeardAgrees`, `DeafIsMissed`, `EchoesDue`: what the watchdog counted
  agrees with what the link was like, and an echo not seen is on its way. `HeardIsKept` needs
  an echo rule of more than one window, as in the code.
- **ChatDelivery.** `DeliveryTypeCorrect`, `NoEchoCorrect`, `ChainCorrect`, `ClosedCorrect` and
  `PublishedCorrect` from `DeliveryInv`. `PoolSound` keeps every room's senders within the cap and
  says that a drain that is past the head of its loop has a payload; `HeadInHand` and `DrainRuns`
  are the two halves of `ChainMoves`; `PubSound` says that only the source's messages are
  published and that the OK of the event means it is stored; `ClosedStill` strengthens
  `ClosedQuiet` to "no drain runs either", without which a drain could reconnect. `OrderCorrect`
  (`SenderOrder`, an action property) adds `OrderInv`: in a chain and, for the open room, in every
  queue the items stand in order of arrival (`ChainSound`, `QueueSound`), what is queued or sent
  is before what its chain still holds, and the open room's items are in no connection but the
  newest (`QueueSound`, `SentSound`). The open room is as far as the order goes: a closed room's
  leftover sits in a connection that only a delivery with an emoji fetch longer than two refresh
  sweeps can start again, and a later message of that room may by then have gone through a newer
  one. With the default timeouts (10 s against 30 s) no fetch lasts that long.
  `DeliveryRefinesContract` (`ImplementsDelivery`): initial states and steps are those of
  `DeliveryContract`. It rests on a third invariant, `Apart`: nothing waits in a chain that is
  also queued, in two queues, twice in one, or sent. Without it an arrival could leave one place
  and still be on its way, or be sent twice. Each action is then shown to be one step of the
  contract or none: `drain`'s send is `Deliver`, whose `First` follows from `OrderInv`
  (`HeadIsFirst`); a delivery that fails before it is queued, and a send into a socket that is
  gone, are `GiveUp`; the move from a chain to a queue, and all of the other direction, the
  contract does not see. `TwiceCorrect` (`TwiceAtMost`) bounds what the run `delivery_twice`
  shows: while a room forgets no fingerprint of an event, the event reaches the source at most
  twice there. (They last 60 s and 500 later ones; after that nothing is promised.) `MarkInv` says
  that whatever is past the fingerprints is in them under some name, that two copies there are in
  them under both names, and that there is no third, as long as anything of that room may still
  come to them and none of that text has lapsed; a restart empties the fingerprints, but also all
  that could.
- **Client.** `ClientTypeCorrect`, `MissCorrect` (`MissIsWitnessed`, an action property) and
  `PublishedSeenCorrect` from `ClientInv`: the cache is within its capacity (`Capped`), a batch
  receives only what it asked for (`QueriesOwn`), a counted EOSE was a frame in time
  (`EoseHeard`), and a promised version is cached with no load of its key under way (`Installed`).
  `CachedStoredCorrect` (`CachedIsStored`) adds `StoredInv`: what a batch received, and what a
  publish was told is accepted, some relay stores (`ReadsBacked`, `PubsBacked`), and a relay that
  has not answered a publish yet holds nothing newer, so that what relays store only grows.
- **ProfileRequests.** `ProfilesTypeCorrect`, `DisjointCorrect`, `KnownCorrect`, `CoolingCorrect` and
  `FreshCorrect` from `ProfilesInv`. `AskSound`: what is in flight is what the disjoint batches
  hold. `TimerSound`: nothing is asked and no flush is paced before both caches are loaded.
  `ColdStore`: until then there is nothing in memory to write or to restore. `LedgerSound`: only a
  failed key cools down. `CoolingCorrect` is about the arming of the timer and promises no retry.
  `Flushed` and `Scheduled` are the lemmas that carry it: what one flush
  asks, and when the heartbeat is armed (`MinOf`: the least element of a set of numbers).
- **Site.** `SiteTypeCorrect`, `AbsenceCorrect` (`AbsenceIsKnown`) and `CountCorrect`
  (`CountOfItsRoom`): the types are inductive, and the two action properties follow from what
  each answer is (`Answered`, `CountShown`).

Only model-checked: every liveness property (`ShownLive`, `TornDown`, `RoomsFollowRows`,
`DemandIsMet`, `NeverTerminal`, `FirehoseRecovers`, `AskingEnds`, the liveness half of
`ImplementsContract`), which is out of the prover's reach. Every safety property of a passing run
has its theorem. Some properties are proved only: `CounterBacked` and the types of `Discovery`;
`PatientBackoff`; `SenderOrder`, which `ImplementsDelivery` implies on the run; `TwiceAtMost`;
and the types of `OwncastListener` and `Site`.

## 5. Plan

What would come next, in order: the signing cache of `createSignedEvent` as a part of `Client`;
what the contract of delivery promises in the other direction (a message of the source is
published at most once for each time it was said); the cooldown's severing of standing
subscriptions in `StandingSub`.

## 6. Not modelled, and why

- Key derivation, signatures, configuration: cryptography, and parsing once at boot.
- Migrations: boot-time SQL under one advisory lock and a transaction each; what is hard about
  it is done by PostgreSQL.
- Content rendering and HTML conversion: pure functions of text, unit-tested.
- `createSignedEvent`'s cache of signed events, the by-id cache and relay statistics of
  `ClientService`; the severing of a rate-limited relay's *standing* subscriptions (that of its
  queries is in `Client`).
- The subscriptions of user-interface code to changed profiles, and `clearCache`.
- The hourly observation snapshot and the metrics (nothing else reads them), the read-only
  reports, the relay cards, commands and animation of the website.

Relays, streams, the directory, the demand endpoint, storage and nostr-tools are environments
that do whatever the code in `src/` has to expect of them.

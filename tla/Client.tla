--------------------------------- MODULE Client --------------------------------
(***************************************************************************)
(* ClientService's reads and writes of replaceable events: the batching     *)
(* loader with its session cache and miss ledger, the two tiers of          *)
(* queryWithStats it asks, the relays' rate-limit cooldowns, and            *)
(* publishEvent with its write-through.                                     *)
(*                                                                          *)
(* Abstractions:                                                            *)
(*  - a key is a coordinate kind:pubkey:d, a version its created_at; every  *)
(*    key is of a kind the loader may cache;                                *)
(*  - a relay answers with what it likes of what it stores, in any order;   *)
(*  - cooldowns and miss records are on or over: how long they last, and so *)
(*    strikes and attempts, is left out;                                    *)
(*  - a batch does not fill up (500 keys), and the by-id cache is left out; *)
(*  - which of the cached keys was used least recently is left open;       *)
(*  - no two publishes overlap.                                            *)
(***************************************************************************)
EXTENDS Naturals, FiniteSets

CONSTANTS
    Keys,            \* coordinates
    Exempt,          \* those of kind 0, which have no miss record here
    Primary,         \* getProfileRelays
    Fallback,        \* getProfileFallbackRelays
    CacheSize,       \* capacity of the loader's LRUCache
    Slots,           \* batches that can be under way
    MaxVersion       \* bound, for each key: versions published

Relays == Primary \cup Fallback
Versions == UNION {0..MaxVersion[k] : k \in Keys}

ASSUME ClientAssumption ==
    IsFiniteSet(Keys) /\ Exempt \subseteq Keys /\ CacheSize \in Nat \ {0} /\ MaxVersion \in [Keys -> Nat]

VARIABLES
    window,          \* keys of pendingBatch
    query,           \* each slot's batch under way
    cache,           \* the loader's cache: a version, 0 for none
    miss,            \* keys whose miss record still cools
    cooling,         \* relays in rate-limit cooldown
    stored,          \* what each relay stores of each key
    pub,             \* publishEvent of each key
    \* history, for the properties:
    heard,           \* relays whose EOSE frame a batch saw in time
    told             \* version installed by a publish that no load ran beside

vars == <<window, query, cache, miss, cooling, stored, pub, heard, told>>

\* Where a query stands with a relay: not asked, ensureRelay awaited, REQ open, REQ over
\* without an answer, REQ over with EOSE.
Reqs == {"none", "connecting", "open", "closed", "answered"}

\* A batch: tier 0 is no batch; keys are all it loads, ask what this tier is asked for,
\* got the newest version received, eose the relays counted.
Queries == [tier : 0..2, keys : SUBSET Keys, ask : SUBSET Keys, req : [Relays -> Reqs],
            got : [Keys -> Versions], eose : Nat, early : BOOLEAN]

NoVersion == [k \in Keys |-> 0]
NoQuery == [tier |-> 0, keys |-> {}, ask |-> {}, req |-> [r \in Relays |-> "none"],
            got |-> NoVersion, eose |-> 0, early |-> FALSE]

Pubs == [version : Versions, wait : SUBSET Relays, ok : BOOLEAN]
NoPub == [version |-> 0, wait |-> {}, ok |-> FALSE]

\* Types, and the capacity of the cache.
TypeOK ==
    /\ Cardinality({k \in Keys : cache[k] # 0}) <= CacheSize
    /\ window \subseteq Keys /\ query \in [Slots -> Queries]
    /\ cache \in [Keys -> Versions] /\ miss \subseteq Keys \ Exempt
    /\ cooling \subseteq Relays /\ stored \in [Relays -> [Keys -> Versions]]
    /\ pub \in [Keys -> Pubs] /\ heard \in [Slots -> SUBSET Relays] /\ told \in [Keys -> Versions]

-----------------------------------------------------------------------------
(* Helpers *)

\* BatchLoader's inFlight.
InFlight == window \cup UNION {query[s].keys : s \in Slots}

\* queryWithStats sets out: relays in cooldown are skipped, the others connected to.
Asking(q, t, keys, relays) ==
    [q EXCEPT !.tier = t, !.ask = keys, !.early = FALSE,
              !.req = [r \in Relays |-> IF r \in relays \ cooling THEN "connecting" ELSE "none"]]

\* Mutant of Counted: a synthetic EOSE after the REQ is over counts as an answer.
CountedLate(q, r) == q.req[r] \in {"open", "closed"}

\* oneose counts unless the relay's outcome is settled.
Counted(q, r) == q.req[r] = "open"

\* sub.close() and finish() for every REQ that is open.
AllClosed(q) == [q EXCEPT !.req = [r \in Relays |-> IF @[r] = "open" THEN "closed" ELSE @[r]]]

\* resolveRequest: what nothing received so far answers.
Unresolved(q) == {k \in q.ask : q.got[k] = 0}

\* isComplete: every key of the tier is there.
Complete(q) == Unresolved(q) = {}

\* maybeCompleteEarly: then the REQs of the other relays are closed.
Completed(q) == IF Complete(q) THEN AllClosed([q EXCEPT !.early = TRUE]) ELSE q

\* Every relay of the tier is over with.
Over(q) == q.tier # 0 /\ \A r \in Relays : q.req[r] \notin {"connecting", "open"}

\* Mutant of Filled: nothing is evicted.
FilledUp(new) == {[k \in Keys |-> IF new[k] # 0 THEN new[k] ELSE cache[k]]}

\* LRUCache.set for every version in new: the caches there may be after it. Over the
\* capacity some keys go, not all of the new ones.
Filled(new) ==
    LET fresh == {k \in Keys : new[k] # 0}
        all == fresh \cup {k \in Keys : cache[k] # 0}
        kept == IF fresh = {} \/ Cardinality(all) <= CacheSize THEN {all}
                ELSE {D \in SUBSET all : Cardinality(D) = CacheSize /\ D \cap fresh # {}}
        value(k) == IF new[k] # 0 THEN new[k] ELSE cache[k]
    IN  {[k \in Keys |-> IF k \in D THEN value(k) ELSE 0] : D \in kept}

\* An evicted key is promised to nobody any more.
Kept(t) == [k \in Keys |-> IF cache'[k] = 0 THEN 0 ELSE t[k]]

readFrame == <<window, cache, miss, stored, pub, told>>
pubFrame == <<window, query, cooling, heard>>

-----------------------------------------------------------------------------
(* Loads *)

\* load: neither cooling, nor cached, nor in flight; the key joins the pending batch.
Load(k) ==
    /\ k \notin miss /\ cache[k] = 0 /\ k \notin InFlight
    /\ window' = window \cup {k}
    /\ UNCHANGED <<query, cache, miss, cooling, stored, pub, heard, told>>

\* batchDelay is over: the primary relays are asked.
Dispatch(s) ==
    /\ window # {} /\ query[s] = NoQuery /\ window' = {}
    /\ query' = [query EXCEPT ![s] = Asking([NoQuery EXCEPT !.keys = window], 1, window, Primary)]
    /\ UNCHANGED <<cache, miss, cooling, stored, pub, heard, told>>

\* ensureRelay resolves; a query that is satisfied by then sends no REQ.
Connects(s, r) ==
    /\ query[s].req[r] = "connecting"
    /\ query' = [query EXCEPT ![s].req[r] = IF query[s].early THEN "closed" ELSE "open"]
    /\ UNCHANGED <<readFrame, cooling, heard>>

ConnectFails(s, r) ==
    /\ query[s].req[r] = "connecting" /\ query' = [query EXCEPT ![s].req[r] = "closed"]
    /\ UNCHANGED <<readFrame, cooling, heard>>

\* An event comes; the newest of each key is kept, and the query may be complete.
Delivers(s, r, k) ==
    /\ query[s].req[r] = "open" /\ k \in query[s].ask /\ stored[r][k] > query[s].got[k]
    /\ query' = [query EXCEPT ![s] = Completed([@ EXCEPT !.got[k] = stored[r][k]])]
    /\ UNCHANGED <<readFrame, cooling, heard>>

\* oneose: the relay's frame, or nostr-tools' timer, which a close does not stop.
Eose(s, r) ==
    LET q == query[s] IN
    /\ q.req[r] \in {"open", "closed"} /\ Counted(q, r)
    /\ query' = [query EXCEPT ![s] = [q EXCEPT !.eose = @ + 1, !.req[r] = "answered"]]
    /\ heard' = IF q.req[r] = "open" THEN [heard EXCEPT ![s] = @ \cup {r}] ELSE heard
    /\ UNCHANGED <<readFrame, cooling>>

\* A relay closes the REQ or drops; or the silence deadline closes it.
Closes(s, r) ==
    /\ query[s].req[r] = "open" /\ query' = [query EXCEPT ![s].req[r] = "closed"]
    /\ UNCHANGED <<readFrame, cooling, heard>>

\* CLOSED for its rate limit: a relay not in cooldown goes into it, and its socket is
\* severed with every REQ on it.
RateLimited(s, r) ==
    /\ query[s].req[r] = "open"
    /\ query' = [t \in Slots |-> IF query[t].req[r] = "open" /\ (t = s \/ r \notin cooling)
                                 THEN [query[t] EXCEPT !.req[r] = "closed"] ELSE query[t]]
    /\ cooling' = cooling \cup {r}
    /\ UNCHANGED <<readFrame, heard>>

CooldownEnds(r) ==
    /\ r \in cooling /\ cooling' = cooling \ {r}
    /\ UNCHANGED <<readFrame, query, heard>>

\* The primary relays are through: what they missed goes to the fallback set.
NextTier(s) ==
    LET q == query[s] IN
    /\ Over(q) /\ q.tier = 1 /\ Unresolved(q) # {}
    /\ query' = [query EXCEPT ![s] = Asking(q, 2, Unresolved(q), Fallback)]
    /\ UNCHANGED <<readFrame, cooling, heard>>

\* recordOutcome: a miss is recorded when some relay answered, profiles apart.
Missed(q) == IF q.eose > 0 THEN Unresolved(q) \ Exempt ELSE {}

\* The batch resolves: found keys are cached and lose their miss record.
Finish(s) ==
    LET q == query[s] IN
    /\ Over(q) /\ (q.tier = 2 \/ Unresolved(q) = {})
    /\ cache' \in Filled(q.got) /\ told' = Kept(told)
    /\ miss' = {k \in miss : q.got[k] = 0} \cup Missed(q)
    /\ query' = [query EXCEPT ![s] = NoQuery] /\ heard' = [heard EXCEPT ![s] = {}]
    /\ UNCHANGED <<window, cooling, stored, pub>>

MissCools(k) ==
    /\ k \in miss /\ miss' = miss \ {k}
    /\ UNCHANGED <<window, query, cache, cooling, stored, pub, heard, told>>

\* clearProfileEvent, for a refresh.
Clear(k) ==
    /\ k \in Exempt /\ cache[k] # 0
    /\ cache' = [cache EXCEPT ![k] = 0] /\ told' = [told EXCEPT ![k] = 0]
    /\ UNCHANGED <<pubFrame, miss, stored, pub>>

-----------------------------------------------------------------------------
(* Publishes *)

\* publishEvent: a new version goes to the relays it names.
Publish(k) ==
    /\ \A j \in Keys : pub[j] = NoPub
    /\ \E v \in 1..MaxVersion[k] :
          /\ \A r \in Relays : stored[r][k] < v
          /\ pub' = [pub EXCEPT ![k] = [version |-> v, wait |-> Relays, ok |-> FALSE]]
    /\ UNCHANGED <<pubFrame, cache, miss, stored, told>>

\* One relay is through: it stored the event and said so, or its answer was lost, or not.
PublishAnswers(k, r) ==
    /\ r \in pub[k].wait
    /\ \E has, ok \in BOOLEAN :
          /\ ok => has
          /\ stored' = IF has THEN [stored EXCEPT ![r][k] = pub[k].version] ELSE stored
          /\ pub' = [pub EXCEPT ![k].wait = @ \ {r}, ![k].ok = @ \/ ok]
    /\ UNCHANGED <<pubFrame, cache, miss, told>>

\* Mutant of Primed: the miss record stays.
PrimedMissed(k, v) ==
    /\ cache' \in Filled([NoVersion EXCEPT ![k] = v]) /\ miss' = miss
    /\ told' = Kept([told EXCEPT ![k] = IF k \in InFlight THEN 0 ELSE v])

\* prime: the version is cached, and no miss remains.
Primed(k, v) ==
    /\ cache' \in Filled([NoVersion EXCEPT ![k] = v]) /\ miss' = miss \ {k}
    /\ told' = Kept([told EXCEPT ![k] = IF k \in InFlight THEN 0 ELSE v])

\* Mutant of PublishEnds: the event is primed whatever the relays answered.
PublishEndsAnyway(k) ==
    /\ pub[k] # NoPub /\ pub[k].wait = {} /\ pub' = [pub EXCEPT ![k] = NoPub]
    /\ Primed(k, pub[k].version)
    /\ UNCHANGED <<pubFrame, stored>>

\* All are through: an event that some relay accepted is primed.
PublishEnds(k) ==
    /\ pub[k] # NoPub /\ pub[k].wait = {} /\ pub' = [pub EXCEPT ![k] = NoPub]
    /\ IF pub[k].ok THEN Primed(k, pub[k].version) ELSE UNCHANGED <<cache, miss, told>>
    /\ UNCHANGED <<pubFrame, stored>>

-----------------------------------------------------------------------------
(* Specification *)

Init ==
    /\ window = {} /\ query = [s \in Slots |-> NoQuery]
    /\ cache = NoVersion /\ miss = {} /\ cooling = {}
    /\ stored = [r \in Relays |-> NoVersion] /\ pub = [k \in Keys |-> NoPub]
    /\ heard = [s \in Slots |-> {}] /\ told = NoVersion

Next ==
    \/ \E k \in Keys :
          \/ Load(k) \/ MissCools(k) \/ Clear(k) \/ Publish(k) \/ PublishEnds(k)
          \/ (\E r \in Relays : PublishAnswers(k, r))
    \/ \E s \in Slots :
          \/ Dispatch(s) \/ NextTier(s) \/ Finish(s)
          \/ \E r \in Relays :
                \/ Connects(s, r) \/ ConnectFails(s, r) \/ Eose(s, r) \/ Closes(s, r)
                \/ RateLimited(s, r) \/ (\E k \in Keys : Delivers(s, r, k))
    \/ \E r \in Relays : CooldownEnds(r)

Spec == Init /\ [][Next]_vars

-----------------------------------------------------------------------------
(* Properties *)

\* "An empty result with eoseCount 0 means NO relay actually answered": a key is recorded
\* as missing only when its batch saw an EOSE frame before it was done with that relay,
\* whatever REQs were refused, severed by another query's rate limit or timed out.
MissIsWitnessed ==
    [][\A k \in miss' \ miss : \E s \in Slots : k \in query[s].keys /\ heard[s] # {}]_vars

\* The write-through of publishEvent: once a publish that some relay accepted is over,
\* loads of its key see it, "instead of a stale cache entry or a recorded miss", until
\* the key is cleared or evicted. A load in flight when the publish ends can undo it.
PublishedIsSeen == \A k \in Keys : told[k] # 0 => cache[k] = told[k] /\ k \notin miss

\* The cache holds nothing that exists only here: some relay stores the version a load is
\* answered with, or a newer one, whether a batch received it or a publish installed it
\* with the answers of some relays lost.
CachedIsStored ==
    \A k \in Keys : cache[k] # 0 => \E r \in Relays : stored[r][k] >= cache[k]

=============================================================================

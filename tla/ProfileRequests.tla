---------------------------- MODULE ProfileRequests ----------------------------
(***************************************************************************)
(* The profile request coordinator with its two persistent caches: who is   *)
(* wanted, which keys are in a batch, the failure ledger with its retry     *)
(* heartbeat, the pacing of dispatches, and what a restart finds on disk.   *)
(*                                                                          *)
(* An action is a callback with the microtasks it starts. Abstractions:     *)
(*  - time is counted in ticks, the buckets retries are rounded to. A tick   *)
(*    waits for the timers that are due, but answers, calls and other        *)
(*    timeouts may come before a due timer does;                             *)
(*  - the boot window and the spacing of dispatches last until the next tick;*)
(*  - whether the minute of fast retries is over is left open at each answer;*)
(*  - attempts count on, as in the code, and the bound leaves out the answer *)
(*    that brings a key its MaxAttempts + 1st failure in a row;              *)
(*  - a profile is known or not: a newer copy replaces an older one, and     *)
(*    whether an early one counts as newer (earlyProfileCreatedAt) is open;  *)
(*  - the counted holders of a key are at most one surface and one caller;   *)
(*  - a write to disk is atomic, and a load fails, expires or succeeds key   *)
(*    by key.                                                                *)
(***************************************************************************)
EXTENDS Naturals, FiniteSets, FiniteSetsExt

CONSTANTS
    Keys,            \* pubkeys
    Surfaces,        \* those some mounted surface may display (retain)
    Callers,         \* those getProfiles may be called for
    Refreshable,     \* those refreshProfiles may be called for
    Base, Cap,       \* PROFILE_RETRY_BASE_MS, PROFILE_RETRY_MAX_MS in ticks
    SlowLane,        \* PROFILE_RETRY_MAX_ATTEMPTS
    FastAttempts,    \* PROFILE_BOOT_FAST_RETRY_MAX_ATTEMPTS
    MaxCacheSize,    \* MAX_CACHE_SIZE
    MaxAttempts      \* bound: failures in a row that are looked at

ASSUME ProfilesAssumption ==
    /\ IsFiniteSet(Keys)
    /\ Surfaces \cup Callers \cup Refreshable \subseteq Keys
    /\ {Base, Cap, SlowLane, FastAttempts, MaxCacheSize, MaxAttempts} \subseteq Nat \ {0}
    /\ Base * 2 ^ (SlowLane - 1) >= Cap /\ MaxAttempts >= SlowLane
    /\ \A n \in 1..MaxAttempts : 2 ^ (n - 1) \in Nat

VARIABLES
    shown, waiting,     \* wanted: by surfaces, by callers of getProfiles
    refreshing,         \* refreshProfiles calls: none, or whether it had a profile
    loaded,             \* the persisted caches that are loaded
    parked,             \* flushes that await both (two or more count as two)
    inFlight, batches,  \* keys asked for; the batches that are out
    attempts, cool,     \* failures: attempts (0: no entry), ticks to nextRetryAt
    retryTimer,         \* ticks until it is due, or Off
    bootTimer,          \* is the timer of a paced flush armed?
    pacing,             \* is it too early for a dispatch?
    cache, misses,      \* profileCacheService, profileMissCache
    unsaved,            \* caches with a debounced save pending
    disk,               \* what STORAGE_DIR holds
    \* history, for the properties:
    known, lost         \* profiles held since the start; those expired or evicted

demandVars == <<shown, waiting, refreshing>>
ledgerVars == <<attempts, cool>>
askVars == <<inFlight, batches>>
timerVars == <<retryTimer, bootTimer, parked>>
storeVars == <<cache, misses, unsaved, disk, loaded>>
histVars == <<known, lost>>
vars == <<demandVars, ledgerVars, askVars, timerVars, pacing, storeVars, histVars>>

Off == Cap + 1
Caches == {"profiles", "misses"}

-----------------------------------------------------------------------------
(* Types *)

\* Types; a key is in flight exactly while some batch holds it.
TypeOK ==
    /\ shown \subseteq Surfaces /\ waiting \subseteq Callers \cup Refreshable
    /\ refreshing \in [Keys -> {"no", "had", "hadnot"}]
    /\ loaded \subseteq Caches /\ parked \in 0..2
    /\ inFlight \subseteq Keys /\ inFlight = UNION batches
    /\ attempts \in [Keys -> Nat] /\ cool \in [Keys -> 0..Cap]
    /\ retryTimer \in 0..Off
    /\ bootTimer \in BOOLEAN /\ pacing \in BOOLEAN
    /\ cache \subseteq Keys /\ misses \subseteq Keys /\ unsaved \subseteq Caches
    /\ disk \in [Caches -> SUBSET Keys]
    /\ known \subseteq Keys /\ lost \subseteq Keys \ known

-----------------------------------------------------------------------------
(* Helpers *)

\* hasProfile sees nothing before the cache is loaded.
Have == IF "profiles" \in loaded THEN cache ELSE {}

\* isSettled, for a cache and a ledger.
Settled(k, have, att) == k \in have \/ att[k] > 0

\* Mutant of RetryAt: exhausted keys are left out, as the class comment has it.
RetryAtLadder(wanted, att, cd) ==
    LET ahead == {cd[k] : k \in {j \in wanted : att[j] \in 1..(SlowLane - 1) /\ cd[j] > 0}}
    IN  IF ahead = {} THEN Off ELSE Min(ahead)

\* earliestRetryAt: only strictly future cooldowns count.
Ahead(wanted, att, cd) == {cd[k] : k \in {j \in wanted : att[j] > 0 /\ cd[j] > 0}}

\* scheduleRetry: the timer is cleared, and armed for the earliest of them.
RetryAt(wanted, att, cd) ==
    LET ahead == Ahead(wanted, att, cd) IN IF ahead = {} THEN Off ELSE Min(ahead)

\* enforceCacheLimit: whichever keys are too many go.
Limited(all) == IF Cardinality(all) <= MaxCacheSize THEN {all} ELSE kSubset(MaxCacheSize, all)

\* storeProfile: the caches there may be once the keys in new are stored.
Stored(new) == Limited(cache \cup new)

\* What is known, and what an eviction lost, once `new` is stored.
Keep(new) ==
    LET evicted == (cache \cup new) \ cache' IN
    /\ known' = (known \cup new) \ evicted
    /\ lost' = (lost \ new) \cup evicted

\* recordFailedProfileFetch, applyBootFastRetryLane: the next attempt, its cooldown.
NextAttempt(k) == attempts[k] + 1
Cooldown(n, fast) ==
    LET ladder == Min({Base * 2 ^ (n - 1), Cap})
    IN  IF fast /\ n < SlowLane /\ n <= FastAttempts THEN Min({ladder, 1}) ELSE ladder

\* applyFetchedProfiles, releaseFailedPubkeys: attempts after the batch b found F.
Applied(b, F) == [k \in Keys |-> CASE k \in F -> 0 [] k \in b \ F -> NextAttempt(k)
                                   [] OTHER -> attempts[k]]

\* Mutant of Released: only what applyFetchedProfiles releases by itself is.
ReleasedEmpty(b, F) == inFlight \ (b \ F)

\* dispatch: the batch b, answered or failed, is no longer in flight, found or not.
Released(b, F) == inFlight \ b

\* persistLedgerTransitions: the misses after F was found and M reached the slow lane.
Persisted(F, M) == (misses \ F) \cup M

\* removeProfile: memory, and the disk at once.
Removed(k) ==
    IF k \in Have THEN cache' = cache \ {k} /\ disk' = [disk EXCEPT !["profiles"] = cache']
    ELSE UNCHANGED <<cache, disk>>

\* Mutant of Missing: keys in flight are asked for again.
MissingAnyway(wanted, have, att) == {k \in wanted \ have : att[k] = 0 \/ cool[k] = 0}

\* partitionPubkeys: what is neither cached, nor in flight, nor cooling down.
Missing(wanted, have, att) ==
    {k \in wanted \ (have \cup inFlight) : att[k] = 0 \/ cool[k] = 0}

\* Mutant of MayFlush: persisted caches are not awaited.
MayFlushCold == TRUE

\* flush: does it get past `await this.hydrated`?
MayFlush == loaded = Caches

\* A flush for the callers w (those of `back` return at once) and the surfaces s,
\* with the given cache and ledger and the heartbeat armed so far. A hit emits, and
\* a caller that returns reschedules the heartbeat, as does the flush itself unless
\* it asks: then that is left to the answer.
Flush(s, w, back, have, att, armed) ==
    LET runs == MayFlush /\ ~pacing
        wanted == s \cup w
        ask == IF runs THEN Missing(wanted, have, att) ELSE {}
        told == runs /\ wanted \cap have # {}
        gone == back \cup (IF told THEN {k \in w : Settled(k, have, att)} ELSE {})
        left == s \cup (w \ gone)
    IN  /\ waiting' = w \ gone
        /\ inFlight' = inFlight \cup ask
        /\ batches' = IF ask = {} THEN batches ELSE batches \cup {ask}
        /\ pacing' = (pacing \/ ask # {})
        /\ retryTimer' = CASE gone # {} \/ (runs /\ wanted # {} /\ ask = {}) ->
                                  RetryAt(left, att, cool)
                           [] gone = {} /\ runs /\ wanted = {} -> Off
                           [] OTHER -> armed

\* Mutant of Waits: a flush that comes too early is dropped.
WaitsNot ==
    /\ parked' = IF MayFlush THEN parked ELSE Min({parked + 1, 2})
    /\ bootTimer' = bootTimer

\* Where a flush stops: before the caches are loaded, or until pacing ends.
Waits ==
    /\ parked' = IF MayFlush THEN parked ELSE Min({parked + 1, 2})
    /\ bootTimer' = (bootTimer \/ (MayFlush /\ pacing))

\* Callers that are settled return, and the last to do so reschedules.
Wake(have, att, cd) ==
    LET gone == {k \in waiting : Settled(k, have, att)} IN
    /\ waiting' = waiting \ gone
    /\ retryTimer' = IF gone = {} THEN retryTimer
                     ELSE RetryAt(shown \cup (waiting \ gone), att, cd)

Due == \/ retryTimer = 0
       \/ bootTimer /\ ~pacing
       \/ parked > 0 /\ MayFlush
       \/ \E k \in Keys : refreshing[k] # "no" /\ k \notin waiting

-----------------------------------------------------------------------------
(* Demand *)

\* retain by a mounted surface.
Mount(k) ==
    /\ k \in Surfaces \ shown /\ shown' = shown \cup {k}
    /\ Flush(shown', waiting, {}, Have, attempts, retryTimer) /\ Waits
    /\ UNCHANGED <<refreshing, ledgerVars, storeVars, histVars>>

\* The release of a mounted surface.
Unmount(k) ==
    /\ k \in shown /\ shown' = shown \ {k}
    /\ retryTimer' = RetryAt(shown' \cup waiting, attempts, cool)
    /\ UNCHANGED <<waiting, refreshing, ledgerVars, askVars, bootTimer, parked, pacing,
                   storeVars, histVars>>

\* getProfile: retain, and release at once when the key is settled.
Get(k) ==
    /\ k \in Callers \ waiting
    /\ Flush(shown, waiting \cup {k}, {j \in {k} : Settled(j, Have, attempts)},
             Have, attempts, retryTimer)
    /\ Waits
    /\ UNCHANGED <<shown, refreshing, ledgerVars, storeVars, histVars>>

\* waitUntilSettled gives up after timeoutMs, and the caller releases.
GetTimesOut(k) ==
    /\ k \in waiting /\ waiting' = waiting \ {k}
    /\ retryTimer' = RetryAt(shown \cup waiting', attempts, cool)
    /\ UNCHANGED <<shown, refreshing, ledgerVars, askVars, bootTimer, parked, pacing,
                   storeVars, histVars>>

\* refreshProfiles up to its await: everything known of the key goes, and it is
\* asked for like any other. removeProfile writes to disk at once.
Refresh(k) ==
    LET att == [attempts EXCEPT ![k] = 0] IN
    /\ k \in Refreshable /\ refreshing[k] = "no" /\ k \notin waiting
    /\ refreshing' = [refreshing EXCEPT ![k] = IF k \in Have THEN "had" ELSE "hadnot"]
    /\ Removed(k)
    /\ misses' = misses \ {k}
    /\ unsaved' = IF k \in misses THEN unsaved \cup {"misses"} ELSE unsaved
    /\ attempts' = att /\ cool' = [cool EXCEPT ![k] = 0]
    /\ Flush(shown, waiting \cup {k}, {}, Have \ {k}, att, retryTimer) /\ Waits
    /\ UNCHANGED <<shown, loaded, known, lost>>

\* refreshProfiles after its await: what it had is restored if nothing came.
Refreshed(k) ==
    /\ refreshing[k] # "no" /\ k \notin waiting
    /\ refreshing' = [refreshing EXCEPT ![k] = "no"]
    /\ IF refreshing[k] = "had" /\ k \notin Have
       THEN /\ cache' \in Stored({k}) /\ unsaved' = unsaved \cup {"profiles"}
            /\ Keep({k})
       ELSE UNCHANGED <<cache, unsaved, known, lost>>
    /\ UNCHANGED <<shown, waiting, ledgerVars, askVars, timerVars, pacing, misses, disk,
                   loaded>>

-----------------------------------------------------------------------------
(* Answers *)

\* The batch b is answered, in the boot fast-retry window or after it: F was found, the
\* rest came back empty; a query that throws finds nothing. When all is stored everyone
\* settled returns (whose profile was evicted at once is not), then the flush reschedules.
Settle(b, F, fast) ==
    LET att == Applied(b, F)
        cd == [k \in Keys |-> CASE k \in F -> 0 [] k \in b \ F -> Cooldown(NextAttempt(k), fast)
                                [] OTHER -> cool[k]]
        missed == {k \in b \ F : att[k] >= SlowLane}
        gone == {k \in waiting : Settled(k, cache', att)}
    IN  /\ b \in batches /\ batches' = batches \ {b} /\ inFlight' = Released(b, F)
        /\ \A k \in b \ F : attempts[k] < MaxAttempts
        /\ attempts' = att /\ cool' = cd
        /\ cache' \in Stored(F) /\ Keep(F)
        /\ misses' = Persisted(F, missed)
        /\ unsaved' = unsaved \cup (IF F = {} THEN {} ELSE {"profiles"})
                              \cup (IF missed \cup (misses \cap F) = {} THEN {} ELSE {"misses"})
        /\ waiting' = waiting \ gone
        /\ retryTimer' = RetryAt(shown \cup waiting', att, cd)
        /\ UNCHANGED <<shown, refreshing, bootTimer, parked, pacing, disk, loaded>>

\* applyEarlyProfileEvent: a relay delivers before the batch is answered.
Arrives(k) ==
    LET att == [attempts EXCEPT ![k] = 0] IN
    /\ k \in inFlight
    /\ cache' \in Stored({k}) /\ Keep({k})
    /\ attempts' = att /\ cool' = [cool EXCEPT ![k] = 0]
    /\ misses' = misses \ {k}
    /\ unsaved' = unsaved \cup {"profiles"} \cup (IF k \in misses THEN {"misses"} ELSE {})
    /\ Wake(cache', att, cool')
    /\ UNCHANGED <<shown, refreshing, askVars, bootTimer, parked, pacing, disk, loaded>>

-----------------------------------------------------------------------------
(* Timers *)

\* A flush goes on, or is started by a timer; armed: the heartbeat before it.
FlushNow(armed) == Flush(shown, waiting, {}, Have, attempts, armed)

ResumeFlush ==
    /\ parked > 0 /\ MayFlush /\ parked' = parked - 1
    /\ bootTimer' = (bootTimer \/ pacing)
    /\ FlushNow(retryTimer)
    /\ UNCHANGED <<shown, refreshing, ledgerVars, storeVars, histVars>>

RetryTimerFires ==
    /\ retryTimer = 0 /\ FlushNow(Off) /\ Waits
    /\ UNCHANGED <<shown, refreshing, ledgerVars, storeVars, histVars>>

BootTimerFires ==
    /\ bootTimer /\ ~pacing /\ bootTimer' = FALSE
    /\ FlushNow(retryTimer)
    /\ UNCHANGED <<shown, refreshing, ledgerVars, parked, storeVars, histVars>>

\* Time passes.
Tick ==
    /\ ~Due
    /\ cool' = [k \in Keys |-> IF cool[k] = 0 THEN 0 ELSE cool[k] - 1]
    /\ retryTimer' = IF retryTimer = Off THEN Off ELSE retryTimer - 1
    /\ pacing' = FALSE
    /\ UNCHANGED <<demandVars, attempts, askVars, bootTimer, parked, storeVars, histVars>>

-----------------------------------------------------------------------------
(* The persisted caches *)

\* loadFromStorage: what has not expired is added to what memory holds.
LoadProfiles ==
    /\ "profiles" \notin loaded /\ loaded' = loaded \cup {"profiles"}
    /\ \E alive \in SUBSET disk["profiles"] :
          /\ cache' = cache \cup alive
          /\ known' = known \ (disk["profiles"] \ cache')
          /\ lost' = lost \ alive
    /\ UNCHANGED <<demandVars, ledgerVars, askVars, timerVars, pacing, misses, unsaved, disk>>

\* hydrate, and the seeding of the ledger: known misses start in the slow lane.
LoadMisses ==
    /\ "misses" \notin loaded /\ loaded' = loaded \cup {"misses"}
    /\ \E alive \in SUBSET disk["misses"] :
          /\ misses' = misses \cup alive
          /\ unsaved' = IF alive = disk["misses"] THEN unsaved ELSE unsaved \cup {"misses"}
          /\ attempts' = [k \in Keys |-> IF k \in alive /\ attempts[k] = 0 THEN SlowLane
                                         ELSE attempts[k]]
    /\ UNCHANGED <<demandVars, cool, askVars, timerVars, pacing, cache, disk, histVars>>

\* The debounced save of each cache.
Saved(c, keys) ==
    /\ c \in unsaved /\ unsaved' = unsaved \ {c} /\ disk' = [disk EXCEPT ![c] = keys]
    /\ UNCHANGED <<demandVars, ledgerVars, askVars, timerVars, pacing, cache, misses, loaded,
                   histVars>>

SaveProfiles == Saved("profiles", cache)
SaveMisses == Saved("misses", misses)

\* A profile is found to be older than CACHE_TTL, by hasProfile or getProfile.
Expire(k) ==
    /\ k \in Have /\ cache' = cache \ {k}
    /\ known' = known \ {k} /\ lost' = lost \cup {k}
    /\ UNCHANGED <<demandVars, ledgerVars, askVars, timerVars, pacing, misses, unsaved, disk,
                   loaded>>

\* The process dies and starts again: memory is gone, and so are pending saves.
Crash ==
    /\ shown' = {} /\ waiting' = {} /\ refreshing' = [k \in Keys |-> "no"]
    /\ loaded' = {} /\ parked' = 0 /\ inFlight' = {} /\ batches' = {}
    /\ attempts' = [k \in Keys |-> 0] /\ cool' = [k \in Keys |-> 0]
    /\ retryTimer' = Off /\ bootTimer' = FALSE /\ pacing' = TRUE
    /\ cache' = {} /\ misses' = {} /\ unsaved' = {} /\ disk' = disk
    /\ known' = disk["profiles"] /\ lost' = {}

-----------------------------------------------------------------------------
(* Specification *)

\* The constructor, with what an earlier process left on disk.
Init ==
    /\ shown = {} /\ waiting = {} /\ refreshing = [k \in Keys |-> "no"]
    /\ loaded = {} /\ parked = 0 /\ inFlight = {} /\ batches = {}
    /\ attempts = [k \in Keys |-> 0] /\ cool = [k \in Keys |-> 0]
    /\ retryTimer = Off /\ bootTimer = FALSE /\ pacing = TRUE
    /\ cache = {} /\ misses = {} /\ unsaved = {}
    /\ \E P, M \in SUBSET Keys :
          /\ Cardinality(P) <= MaxCacheSize /\ disk = [profiles |-> P, misses |-> M]
          /\ known = P
    /\ lost = {}

Next ==
    \/ \E k \in Keys : \/ Mount(k) \/ Unmount(k) \/ Get(k) \/ GetTimesOut(k)
                       \/ Refresh(k) \/ Refreshed(k) \/ Arrives(k) \/ Expire(k)
    \/ \E b \in batches : \E F \in SUBSET b, fast \in BOOLEAN : Settle(b, F, fast)
    \/ ResumeFlush \/ RetryTimerFires \/ BootTimerFires \/ Tick
    \/ LoadProfiles \/ LoadMisses \/ SaveProfiles \/ SaveMisses
    \/ Crash

Spec == Init /\ [][Next]_vars

-----------------------------------------------------------------------------
(* Properties *)

Wanted == shown \cup waiting

\* Will some flush look at the wanted keys without anybody's doing?
Awake == retryTimer # Off \/ bootTimer \/ parked > 0 \/ batches # {}

\* dispatch: no key is in two batches at once, refreshes and early arrivals included:
\* the fan-out of concurrent REQs the coordinator exists to prevent.
DisjointBatches == \A b, c \in batches : b = c \/ b \cap c = {}

\* flush awaits both loads, refreshProfiles restores: a profile that was on disk or was
\* found is in memory, unless it expired, was evicted or is being refreshed; before the
\* load, it is still on disk.
KnownIsKept ==
    known \subseteq cache \cup {k \in Keys : refreshing[k] = "had"}
                         \cup (IF "profiles" \in loaded THEN {} ELSE disk["profiles"])

\* scheduleRetry: while no batch is out, a wanted key that cools down has the heartbeat
\* armed no later than its cooldown ends, unless a flush is held up by the loads or by
\* pacing. A batch that is out suspends this: its answer alone arms the heartbeat again,
\* and only for the cooldowns still ahead by then (LapsedIsRetried has what falls through).
CoolingIsTimed ==
    batches = {} =>
        \A k \in Wanted :
            attempts[k] > 0 /\ cool[k] > 0 => retryTimer <= cool[k] \/ bootTimer \/ parked > 0

\* "A single heartbeat that retries still-wanted pubkeys": a wanted key whose cooldown
\* has lapsed is in flight, or some flush is coming.
LapsedIsRetried ==
    \A k \in Wanted :
        attempts[k] > 0 /\ cool[k] = 0 /\ k \notin Have \cup lost => k \in inFlight \/ Awake

\* retain, flush: a wanted key that never failed is cached or in flight, or a flush is on
\* its way to ask for it, whichever flush or timer was there before. (An expired or
\* evicted one waits for the next demand.)
FreshIsAsked ==
    \A k \in Wanted :
        attempts[k] = 0 => \/ k \in Have \cup inFlight \cup lost
                           \/ bootTimer \/ parked > 0

=============================================================================

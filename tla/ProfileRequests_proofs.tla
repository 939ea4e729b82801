------------------------ MODULE ProfileRequests_proofs ------------------------
(***************************************************************************)
(* Proofs about ProfileRequests, for any keys, demand, backoff and cache   *)
(* size: its types, that no key is in two batches, that the heartbeat is   *)
(* armed for wanted keys that cool down while no batch is out, that a      *)
(* wanted key which never failed is asked for, and that what was known is  *)
(* kept.                                                                   *)
(***************************************************************************)
EXTENDS ProfileRequests, WellFoundedInduction, TLAPS

-----------------------------------------------------------------------------
(* Helpers *)

\* Every set of naturals has a least element, which Min chooses.
LEMMA MinOf ==
  ASSUME NEW S \in SUBSET Nat, S # {}
  PROVE  Min(S) \in S /\ \A y \in S : Min(S) <= y
<1> DEFINE R == OpToRel(<, Nat)
<1>1. IsWellFoundedOn(R, Nat)
  BY NatLessThanWellFounded
<1>2. \A x, y \in Nat : y < x => <<y, x>> \in R
  BY DEF OpToRel
<1> HIDE DEF R
<1>3. PICK x \in S : \A y \in S : ~(<<y, x>> \in R)
  BY <1>1, WFMin
<1>4. \A y \in S : x <= y
  <2> TAKE y \in S
  <2>1. x \in Nat /\ y \in Nat
    OBVIOUS
  <2>2. ~(y < x)
    BY <1>2, <1>3, <2>1
  <2> QED
    BY <2>1, <2>2
<1> QED
  BY <1>4 DEF Min

\* The lesser of two.
LEMMA MinTwo ==
  ASSUME NEW a \in Nat, NEW b \in Nat
  PROVE  Min({a, b}) = IF a <= b THEN a ELSE b
<1>1. {a, b} \in SUBSET Nat /\ {a, b} # {}
  OBVIOUS
<1>2. Min({a, b}) \in {a, b} /\ Min({a, b}) <= a /\ Min({a, b}) <= b
  BY <1>1, MinOf
<1> QED
  BY <1>2

LEMMA Limits ==
  /\ Base \in Nat \ {0} /\ Cap \in Nat \ {0} /\ SlowLane \in Nat \ {0}
  /\ FastAttempts \in Nat \ {0} /\ MaxCacheSize \in Nat \ {0}
  /\ Surfaces \subseteq Keys /\ Callers \cup Refreshable \subseteq Keys
  /\ MaxAttempts \in Nat \ {0} /\ \A n \in 1..MaxAttempts : 2 ^ (n - 1) \in Nat
BY ProfilesAssumption

\* The ladder of cooldowns ends at its cap, in the boot fast lane too.
LEMMA Ladder ==
  ASSUME NEW n \in 1..MaxAttempts, NEW fast \in BOOLEAN
  PROVE  Cooldown(n, fast) \in 0..Cap
<1> DEFINE p == 2 ^ (n - 1)
           a == Base * p
           ladder == Min({a, Cap})
<1>1. p \in Nat
  BY Limits
<1> HIDE DEF p
<1>2. a \in Nat /\ Cap \in Nat \ {0}
  BY <1>1, Limits
<1> HIDE DEF a
<1>3. ladder = IF a <= Cap THEN a ELSE Cap
  BY <1>2, MinTwo
<1>4. ladder \in 0..Cap
  BY <1>2, <1>3
<1> HIDE DEF ladder
<1>5. Min({ladder, 1}) \in 0..Cap
  <2>1. ladder \in Nat /\ 1 \in Nat
    BY <1>2, <1>4
  <2>2. Min({ladder, 1}) = IF ladder <= 1 THEN ladder ELSE 1
    BY <2>1, MinTwo
  <2> QED
    BY <1>2, <1>4, <2>2
<1>6. Cooldown(n, fast) = IF fast /\ n < SlowLane /\ n <= FastAttempts THEN Min({ladder, 1}) ELSE ladder
  BY DEF Cooldown, ladder, a, p
<1> QED
  BY <1>4, <1>5, <1>6

\* The heartbeat is armed no later than the first cooldown it looks at.
LEMMA Scheduled ==
  ASSUME NEW W \in SUBSET Keys, NEW att \in [Keys -> Nat], NEW cd \in [Keys -> 0..Cap]
  PROVE  /\ RetryAt(W, att, cd) \in 0..Off
         /\ \A k \in W : att[k] > 0 /\ cd[k] > 0 => RetryAt(W, att, cd) <= cd[k]
<1> DEFINE A == Ahead(W, att, cd)
<1>1. Cap \in Nat \ {0} /\ Off = Cap + 1
  BY Limits DEF Off
<1>2. A \subseteq 0..Cap /\ \A k \in W : att[k] > 0 /\ cd[k] > 0 => cd[k] \in A
  BY DEF Ahead
<1>3. RetryAt(W, att, cd) = IF A = {} THEN Off ELSE Min(A)
  BY DEF RetryAt
<1> HIDE DEF A
<1>4. CASE A = {}
  BY <1>1, <1>2, <1>3, <1>4
<1>5. CASE A # {}
  <2>1. A \in SUBSET Nat
    BY <1>1, <1>2
  <2>2. Min(A) \in A /\ \A y \in A : Min(A) <= y
    BY <1>5, <2>1, MinOf
  <2>3. Min(A) \in 0..Cap
    BY <1>2, <2>2
  <2>3a. 0..Cap \subseteq 0..Off
    BY <1>1
  <2>4. \A k \in W : att[k] > 0 /\ cd[k] > 0 => Min(A) <= cd[k]
    BY <1>2, <2>2
  <2> QED
    BY <1>3, <1>5, <2>3, <2>3a, <2>4
<1> QED
  BY <1>4, <1>5

-----------------------------------------------------------------------------
(* The invariant *)

DemandTypes ==
    /\ shown \subseteq Surfaces /\ waiting \subseteq Callers \cup Refreshable
    /\ refreshing \in [Keys -> {"no", "had", "hadnot"}]

AskSound == inFlight \subseteq Keys /\ inFlight = UNION batches /\ DisjointBatches

LedgerSound ==
    /\ attempts \in [Keys -> Nat] /\ cool \in [Keys -> 0..Cap]
    /\ \A k \in Keys : attempts[k] = 0 => cool[k] = 0

\* Nothing is asked, and no flush waits for pacing to end, before both caches are loaded.
TimerSound ==
    /\ retryTimer \in 0..Off /\ bootTimer \in BOOLEAN /\ parked \in 0..2
    /\ pacing \in BOOLEAN /\ loaded \subseteq Caches
    /\ bootTimer \/ batches # {} => MayFlush

StoreTypes ==
    /\ cache \subseteq Keys /\ misses \subseteq Keys /\ unsaved \subseteq Caches
    /\ disk \in [Caches -> SUBSET Keys] /\ known \subseteq Keys /\ lost \subseteq Keys \ known

\* Until the profiles are loaded there are none in memory, and none to write or restore.
ColdStore ==
    "profiles" \notin loaded =>
        cache = {} /\ "profiles" \notin unsaved /\ \A k \in Keys : refreshing[k] # "had"

ProfilesInv ==
    /\ DemandTypes /\ AskSound /\ LedgerSound /\ TimerSound /\ StoreTypes /\ ColdStore
    /\ KnownIsKept /\ CoolingIsTimed /\ FreshIsAsked

LEMMA InvSuffices ==
  ASSUME ProfilesInv
  PROVE  TypeOK /\ DisjointBatches /\ KnownIsKept /\ CoolingIsTimed /\ FreshIsAsked
<1>1. TypeOK
  BY DEF ProfilesInv, TypeOK, DemandTypes, AskSound, LedgerSound, TimerSound, StoreTypes
<1> QED
  BY <1>1 DEF ProfilesInv, AskSound

\* A process that has just started, with whatever is on disk.
JustStarted ==
    /\ shown = {} /\ waiting = {} /\ refreshing = [k \in Keys |-> "no"]
    /\ loaded = {} /\ parked = 0 /\ inFlight = {} /\ batches = {}
    /\ attempts = [k \in Keys |-> 0] /\ cool = [k \in Keys |-> 0]
    /\ retryTimer = Off /\ bootTimer = FALSE /\ pacing = TRUE
    /\ cache = {} /\ misses = {} /\ unsaved = {} /\ disk \in [Caches -> SUBSET Keys]
    /\ known = disk["profiles"] /\ lost = {}

LEMMA Started == JustStarted => ProfilesInv
<1> SUFFICES ASSUME JustStarted PROVE ProfilesInv
  OBVIOUS
<1> USE DEF JustStarted
<1>1. DemandTypes /\ AskSound
  BY DEF DemandTypes, AskSound, DisjointBatches
<1>2. LedgerSound
  <2>1. 0 \in 0..Cap
    BY Limits
  <2> QED
    BY <2>1 DEF LedgerSound
<1>3. TimerSound
  <2>1. Off \in 0..Off /\ 0 \in 0..2
    BY Limits DEF Off
  <2> QED
    BY <2>1 DEF TimerSound
<1>4. StoreTypes /\ ColdStore
  BY DEF StoreTypes, ColdStore, Caches
<1>5. KnownIsKept /\ CoolingIsTimed /\ FreshIsAsked
  BY DEF KnownIsKept, CoolingIsTimed, FreshIsAsked, Wanted
<1> QED
  BY <1>1, <1>2, <1>3, <1>4, <1>5 DEF ProfilesInv

LEMMA InitEstablishes == Init => ProfilesInv
<1> SUFFICES ASSUME Init PROVE ProfilesInv
  OBVIOUS
<1>1. PICK P \in SUBSET Keys, M \in SUBSET Keys :
        disk = [profiles |-> P, misses |-> M] /\ known = P
  BY DEF Init
<1>2. disk \in [Caches -> SUBSET Keys] /\ known = disk["profiles"]
  BY <1>1 DEF Caches
<1> QED
  BY <1>2, Started DEF Init, JustStarted

-----------------------------------------------------------------------------
(* Flushes *)

\* What a flush asks is nowhere else in flight; once it runs, every wanted key that never
\* failed is asked for, and the heartbeat is armed for those that cool down.
LEMMA Flushed ==
  ASSUME AskSound, LedgerSound, TimerSound, NEW s \in SUBSET Keys, NEW w \in SUBSET Keys,
         NEW back, NEW have, NEW att \in [Keys -> Nat], NEW armed \in 0..Off,
         Flush(s, w, back, have, att, armed)
  PROVE  /\ AskSound' /\ waiting' \subseteq w /\ inFlight \subseteq inFlight'
         /\ batches' # {} => MayFlush
         /\ retryTimer' \in 0..Off /\ pacing' \in BOOLEAN
         /\ MayFlush /\ ~pacing =>
               /\ \A k \in s \cup w : att[k] = 0 => k \in have \cup inFlight'
               /\ batches' # {} \/ \A k \in s \cup waiting' :
                     att[k] > 0 /\ cool[k] > 0 => retryTimer' <= cool[k]
<1> DEFINE runs == MayFlush /\ ~pacing
           wanted == s \cup w
           ask == IF runs THEN Missing(wanted, have, att) ELSE {}
           told == runs /\ wanted \cap have # {}
           gone == back \cup (IF told THEN {k \in w : Settled(k, have, att)} ELSE {})
           left == s \cup (w \ gone)
<1>1. /\ waiting' = w \ gone
      /\ inFlight' = inFlight \cup ask
      /\ batches' = IF ask = {} THEN batches ELSE batches \cup {ask}
      /\ pacing' = (pacing \/ ask # {})
      /\ retryTimer' = CASE gone # {} \/ (runs /\ wanted # {} /\ ask = {}) ->
                                  RetryAt(left, att, cool)
                           [] gone = {} /\ runs /\ wanted = {} -> Off
                           [] OTHER -> armed
  BY DEF Flush
<1>2. ask \subseteq Keys /\ ask \cap inFlight = {} /\ (ask # {} => MayFlush)
  BY DEF Missing
<1>3. runs => \A k \in wanted : att[k] = 0 => k \in have \cup inFlight \cup ask
  BY DEF Missing
<1>4. left \in SUBSET Keys /\ left = s \cup waiting'
  BY <1>1
<1>5. wanted = {} => left = {}
  OBVIOUS
<1> HIDE DEF ask, gone, left, runs, wanted
<1>6. /\ RetryAt(left, att, cool) \in 0..Off
      /\ \A k \in left : att[k] > 0 /\ cool[k] > 0 => RetryAt(left, att, cool) <= cool[k]
  BY <1>4, Scheduled DEF LedgerSound
<1>7. Off \in 0..Off
  BY Limits DEF Off
<1>8. AskSound'
  BY <1>1, <1>2 DEF AskSound, DisjointBatches
<1>9. retryTimer' \in {RetryAt(left, att, cool), Off, armed}
      /\ (runs /\ wanted # {} /\ ask = {} => retryTimer' = RetryAt(left, att, cool))
  BY <1>1
<1>10. retryTimer' \in 0..Off /\ pacing' \in BOOLEAN
  BY <1>1, <1>6, <1>7, <1>9
<1>11. batches' # {} => MayFlush
  BY <1>1, <1>2 DEF TimerSound
<1>12. runs => batches' # {} \/ \A k \in s \cup waiting' :
                     att[k] > 0 /\ cool[k] > 0 => retryTimer' <= cool[k]
  <2> SUFFICES ASSUME runs, batches' = {}, NEW k \in left, att[k] > 0, cool[k] > 0
               PROVE  retryTimer' <= cool[k]
    BY <1>4
  <2>1. ask = {} /\ wanted # {}
    BY <1>1, <1>5
  <2> QED
    BY <1>6, <1>9, <2>1
<1>13. runs => \A k \in s \cup w : att[k] = 0 => k \in have \cup inFlight'
  BY <1>1, <1>3 DEF wanted
<1> QED
  BY <1>1, <1>8, <1>10, <1>11, <1>12, <1>13 DEF runs

\* A flush that comes too early waits for the caches or for pacing to end.
LEMMA Waited ==
  ASSUME TimerSound, Waits
  PROVE  /\ parked' \in 0..2 /\ bootTimer' \in BOOLEAN /\ (bootTimer' => MayFlush)
         /\ (MayFlush /\ ~pacing) \/ bootTimer' \/ parked' > 0
<1>1. Min({parked + 1, 2}) = IF parked + 1 <= 2 THEN parked + 1 ELSE 2
  BY MinTwo DEF TimerSound
<1>2. parked' \in 0..2 /\ (~MayFlush => parked' > 0)
  BY <1>1 DEF Waits, TimerSound
<1>3. bootTimer' \in BOOLEAN /\ (bootTimer' => MayFlush) /\ (MayFlush /\ pacing => bootTimer')
  BY DEF Waits, TimerSound
<1> QED
  BY <1>2, <1>3

\* A step that flushes, whatever became of ledger and cache before: what counts is that no
\* key in `have` is gone and that a failed key's cooldown is the one the flush looked at.
LEMMA FlushKeeps ==
  ASSUME ProfilesInv, NEW s \in SUBSET Surfaces, NEW w \in SUBSET (Callers \cup Refreshable),
         NEW back, NEW have, NEW att \in [Keys -> Nat], NEW armed \in 0..Off,
         Flush(s, w, back, have, att, armed), shown' = s, attempts' = att, have \subseteq Have',
         \A k \in Keys : att[k] > 0 => cool'[k] = cool[k],
         parked' \in 0..2, bootTimer' \in BOOLEAN, bootTimer' => MayFlush, loaded' = loaded,
         (MayFlush /\ ~pacing) \/ bootTimer' \/ parked' > 0
  PROVE  AskSound' /\ TimerSound' /\ CoolingIsTimed' /\ FreshIsAsked' /\ waiting' \subseteq w
<1>1. s \in SUBSET Keys /\ w \in SUBSET Keys
  BY Limits
<1>2. /\ AskSound' /\ waiting' \subseteq w /\ inFlight \subseteq inFlight'
      /\ batches' # {} => MayFlush
      /\ retryTimer' \in 0..Off /\ pacing' \in BOOLEAN
      /\ MayFlush /\ ~pacing =>
            /\ \A k \in s \cup w : att[k] = 0 => k \in have \cup inFlight'
            /\ batches' # {} \/ \A k \in s \cup waiting' :
                  att[k] > 0 /\ cool[k] > 0 => retryTimer' <= cool[k]
  BY <1>1, Flushed DEF ProfilesInv
<1>3. TimerSound'
  BY <1>2 DEF TimerSound, MayFlush, ProfilesInv
<1>4. Wanted' = s \cup waiting' /\ Wanted' \subseteq Keys
  BY <1>1, <1>2 DEF Wanted
<1>5. CoolingIsTimed'
  <2> SUFFICES ASSUME batches' = {}, NEW k \in s \cup waiting', att[k] > 0, cool[k] > 0
               PROVE  retryTimer' <= cool[k] \/ bootTimer' \/ parked' > 0
    BY <1>4 DEF CoolingIsTimed
  <2> QED
    BY <1>2
<1>6. FreshIsAsked'
  <2> SUFFICES ASSUME NEW k \in s \cup w, att[k] = 0
               PROVE  k \in Have' \cup inFlight' \/ bootTimer' \/ parked' > 0
    BY <1>2, <1>4 DEF FreshIsAsked
  <2> QED
    BY <1>2
<1> QED
  BY <1>2, <1>3, <1>5, <1>6

-----------------------------------------------------------------------------
(* The steps that flush *)

\* What a surface, a call, a timer or the end of a wait may leave alone.
Quiet == UNCHANGED <<refreshing, ledgerVars, storeVars, histVars>>

LEMMA QuietFlush ==
  ASSUME ProfilesInv, NEW s \in SUBSET Surfaces, NEW w \in SUBSET (Callers \cup Refreshable),
         NEW back, NEW armed \in 0..Off, Flush(s, w, back, Have, attempts, armed),
         shown' = s, Quiet, parked' \in 0..2, bootTimer' \in BOOLEAN, bootTimer' => MayFlush,
         (MayFlush /\ ~pacing) \/ bootTimer' \/ parked' > 0
  PROVE  ProfilesInv'
<1>1. attempts \in [Keys -> Nat]
  BY DEF ProfilesInv, LedgerSound
<1>2. Have' = Have /\ loaded' = loaded /\ attempts' = attempts /\ cool' = cool
  BY DEF Quiet, Have, storeVars, ledgerVars
<1>3. AskSound' /\ TimerSound' /\ CoolingIsTimed' /\ FreshIsAsked' /\ waiting' \subseteq w
  BY <1>1, <1>2, FlushKeeps
<1>4. DemandTypes'
  BY <1>3 DEF ProfilesInv, DemandTypes, Quiet
<1>5. LedgerSound' /\ StoreTypes' /\ ColdStore' /\ KnownIsKept'
  BY DEF ProfilesInv, LedgerSound, StoreTypes, ColdStore, KnownIsKept, Quiet, ledgerVars,
         storeVars, histVars
<1> QED
  BY <1>3, <1>4, <1>5 DEF ProfilesInv

LEMMA MountKeeps == ASSUME ProfilesInv, NEW k \in Keys, Mount(k) PROVE ProfilesInv'
<1>1. /\ Flush(shown', waiting, {}, Have, attempts, retryTimer) /\ Waits /\ Quiet
      /\ shown' \in SUBSET Surfaces
  BY DEF Mount, Quiet, ProfilesInv, DemandTypes
<1>2. waiting \in SUBSET (Callers \cup Refreshable) /\ retryTimer \in 0..Off /\ TimerSound
  BY DEF ProfilesInv, DemandTypes, TimerSound
<1>3. /\ parked' \in 0..2 /\ bootTimer' \in BOOLEAN /\ (bootTimer' => MayFlush)
      /\ (MayFlush /\ ~pacing) \/ bootTimer' \/ parked' > 0
  BY <1>1, <1>2, Waited
<1> QED
  BY <1>1, <1>2, <1>3, QuietFlush

LEMMA GetKeeps == ASSUME ProfilesInv, NEW k \in Keys, Get(k) PROVE ProfilesInv'
<1> DEFINE w == waiting \cup {k}
           back == {j \in {k} : Settled(j, Have, attempts)}
<1>1. Flush(shown, w, back, Have, attempts, retryTimer) /\ Waits /\ Quiet /\ shown' = shown
  BY DEF Get, Quiet
<1>2. /\ w \in SUBSET (Callers \cup Refreshable) /\ shown \in SUBSET Surfaces
      /\ retryTimer \in 0..Off /\ TimerSound
  BY DEF Get, ProfilesInv, DemandTypes, TimerSound
<1> HIDE DEF w, back
<1>3. /\ parked' \in 0..2 /\ bootTimer' \in BOOLEAN /\ (bootTimer' => MayFlush)
      /\ (MayFlush /\ ~pacing) \/ bootTimer' \/ parked' > 0
  BY <1>1, <1>2, Waited
<1> QED
  BY <1>1, <1>2, <1>3, QuietFlush

LEMMA TimersKeep ==
  ASSUME ProfilesInv, ResumeFlush \/ RetryTimerFires \/ BootTimerFires
  PROVE  ProfilesInv'
<1>1. /\ waiting \in SUBSET (Callers \cup Refreshable) /\ shown \in SUBSET Surfaces
      /\ retryTimer \in 0..Off /\ TimerSound
  BY DEF ProfilesInv, DemandTypes, TimerSound
<1>2. Off \in 0..Off
  BY Limits DEF Off
<1>3. CASE ResumeFlush
  <2>1. /\ Flush(shown, waiting, {}, Have, attempts, retryTimer) /\ Quiet /\ shown' = shown
        /\ MayFlush /\ parked' = parked - 1 /\ parked > 0 /\ bootTimer' = (bootTimer \/ pacing)
    BY <1>3 DEF ResumeFlush, FlushNow, Quiet
  <2>2. parked' \in 0..2
    BY <1>1, <2>1 DEF TimerSound
  <2>3. bootTimer' \in BOOLEAN /\ (bootTimer' => MayFlush) /\ (~pacing \/ bootTimer')
    BY <1>1, <2>1 DEF TimerSound
  <2> QED
    BY <1>1, <2>1, <2>2, <2>3, QuietFlush
<1>4. CASE RetryTimerFires
  <2>1. Flush(shown, waiting, {}, Have, attempts, Off) /\ Waits /\ Quiet /\ shown' = shown
    BY <1>4 DEF RetryTimerFires, FlushNow, Quiet
  <2>2. /\ parked' \in 0..2 /\ bootTimer' \in BOOLEAN /\ (bootTimer' => MayFlush)
        /\ (MayFlush /\ ~pacing) \/ bootTimer' \/ parked' > 0
    BY <1>1, <2>1, Waited
  <2> QED
    BY <1>1, <1>2, <2>1, <2>2, QuietFlush
<1>5. CASE BootTimerFires
  <2>1. /\ Flush(shown, waiting, {}, Have, attempts, retryTimer) /\ Quiet /\ shown' = shown
        /\ bootTimer /\ ~pacing /\ bootTimer' = FALSE /\ parked' = parked
    BY <1>5 DEF BootTimerFires, FlushNow, Quiet
  <2>2. MayFlush /\ parked' \in 0..2
    BY <1>1, <2>1 DEF TimerSound
  <2> QED
    BY <1>1, <2>1, <2>2, QuietFlush
<1> QED
  BY <1>3, <1>4, <1>5

LEMMA RefreshKeeps == ASSUME ProfilesInv, NEW k \in Keys, Refresh(k) PROVE ProfilesInv'
<1> DEFINE att == [attempts EXCEPT ![k] = 0]
           w == waiting \cup {k}
<1>1. /\ Flush(shown, w, {}, Have \ {k}, att, retryTimer) /\ Waits
      /\ shown' = shown /\ loaded' = loaded /\ known' = known /\ lost' = lost
      /\ attempts' = att /\ cool' = [cool EXCEPT ![k] = 0] /\ misses' = misses \ {k}
      /\ refreshing' = [refreshing EXCEPT ![k] = IF k \in Have THEN "had" ELSE "hadnot"]
      /\ unsaved' = IF k \in misses THEN unsaved \cup {"misses"} ELSE unsaved
  BY DEF Refresh
<1>2. /\ w \in SUBSET (Callers \cup Refreshable) /\ shown \in SUBSET Surfaces
      /\ retryTimer \in 0..Off /\ TimerSound
  BY DEF Refresh, ProfilesInv, DemandTypes, TimerSound
<1>3. 0 \in 0..Cap
  BY Limits
<1>4. /\ att \in [Keys -> Nat] /\ cool' \in [Keys -> 0..Cap]
      /\ \A j \in Keys : (att[j] > 0 => cool'[j] = cool[j]) /\ (att[j] = 0 => cool'[j] = 0)
  BY <1>1, <1>3 DEF ProfilesInv, LedgerSound
<1>5. /\ k \in Have => cache' = cache \ {k} /\ disk' = [disk EXCEPT !["profiles"] = cache']
      /\ k \notin Have => cache' = cache /\ disk' = disk
  BY DEF Refresh, Removed
<1>6. Have \ {k} \subseteq Have'
  BY <1>1, <1>5 DEF Have
<1>7. /\ parked' \in 0..2 /\ bootTimer' \in BOOLEAN /\ (bootTimer' => MayFlush)
      /\ (MayFlush /\ ~pacing) \/ bootTimer' \/ parked' > 0
  BY <1>1, <1>2, Waited
<1> HIDE DEF att, w
<1>8. AskSound' /\ TimerSound' /\ CoolingIsTimed' /\ FreshIsAsked' /\ waiting' \subseteq w
  BY <1>1, <1>2, <1>4, <1>6, <1>7, FlushKeeps
<1>9. DemandTypes'
  BY <1>1, <1>2, <1>8 DEF ProfilesInv, DemandTypes
<1>10. LedgerSound'
  BY <1>1, <1>4 DEF LedgerSound
<1>11. StoreTypes'
  <2>1. cache' \subseteq Keys /\ misses' \subseteq Keys /\ unsaved' \subseteq Caches
    BY <1>1, <1>5 DEF ProfilesInv, StoreTypes, Caches
  <2>2. disk' \in [Caches -> SUBSET Keys]
    BY <1>5, <2>1 DEF ProfilesInv, StoreTypes, Caches
  <2> QED
    BY <1>1, <2>1, <2>2 DEF ProfilesInv, StoreTypes
<1>12. ColdStore'
  <2> SUFFICES ASSUME "profiles" \notin loaded
               PROVE  /\ cache' = {} /\ "profiles" \notin unsaved'
                      /\ \A j \in Keys : refreshing'[j] # "had"
    BY <1>1 DEF ColdStore
  <2>1. k \notin Have
    BY DEF Have
  <2> QED
    BY <1>1, <1>5, <2>1 DEF ProfilesInv, ColdStore, DemandTypes
<1>13. KnownIsKept'
  <2>1. CASE k \in Have
    <3>1. /\ "profiles" \in loaded /\ cache' = cache \ {k} /\ refreshing'[k] = "had"
          /\ \A j \in Keys \ {k} : refreshing'[j] = refreshing[j]
      BY <1>1, <1>5, <2>1 DEF Have, ProfilesInv, DemandTypes
    <3> QED
      BY <1>1, <3>1 DEF KnownIsKept, ProfilesInv
  <2>2. CASE k \notin Have
    <3>1. cache' = cache /\ disk' = disk /\ \A j \in Keys \ {k} : refreshing'[j] = refreshing[j]
      BY <1>1, <1>5, <2>2 DEF ProfilesInv, DemandTypes
    <3>2. refreshing[k] = "no"
      BY DEF Refresh
    <3> QED
      BY <1>1, <3>1, <3>2 DEF KnownIsKept, ProfilesInv
  <2> QED
    BY <2>1, <2>2
<1> QED
  BY <1>8, <1>9, <1>10, <1>11, <1>12, <1>13 DEF ProfilesInv

-----------------------------------------------------------------------------
(* The steps that store a profile *)

\* Storing evicts or keeps: whatever is in neither cache nor history was not known before.
LEMMA StoredKeeps ==
  ASSUME StoreTypes, NEW new \in SUBSET Keys, cache' \in Stored(new), Keep(new)
  PROVE  /\ cache' \subseteq Keys /\ known' \subseteq Keys /\ lost' \subseteq Keys \ known'
         /\ known' \subseteq cache' \cup ((known \ cache) \ new)
         /\ cache \cup new \subseteq cache' \cup lost' /\ lost \ new \subseteq lost'
<1>1. cache' \subseteq cache \cup new
  BY DEF Stored, Limited, kSubset
<1> QED
  BY <1>1 DEF Keep, StoreTypes

\* What becomes of a wanted key that never failed, when something was stored.
LEMMA StoredFresh ==
  ASSUME StoreTypes, FreshIsAsked, "profiles" \in loaded, loaded' = loaded,
         NEW new \in SUBSET Keys, cache' \in Stored(new), Keep(new),
         Wanted' \subseteq Wanted, bootTimer' = bootTimer, parked' = parked,
         \A k \in Wanted' : attempts'[k] = 0 =>
            k \in new \/ (attempts[k] = 0 /\ (k \in inFlight => k \in inFlight'))
  PROVE  FreshIsAsked'
<1>1. Have' = cache' /\ Have = cache
  BY DEF Have
<1>2. cache \cup new \subseteq cache' \cup lost' /\ lost \ new \subseteq lost'
  BY StoredKeeps
<1> SUFFICES ASSUME NEW k \in Wanted', attempts'[k] = 0
             PROVE  k \in cache' \cup inFlight' \cup lost' \/ bootTimer' \/ parked' > 0
  BY <1>1 DEF FreshIsAsked
<1>3. CASE k \in new
  BY <1>2, <1>3
<1>4. CASE k \notin new
  <2>1. k \in cache \cup inFlight \cup lost \/ bootTimer \/ parked > 0
    BY <1>1, <1>4 DEF FreshIsAsked
  <2> QED
    BY <1>2, <1>4, <2>1
<1> QED
  BY <1>3, <1>4

LEMMA RefreshedKeeps == ASSUME ProfilesInv, NEW k \in Keys, Refreshed(k) PROVE ProfilesInv'
<1>1. /\ refreshing[k] # "no" /\ refreshing' = [refreshing EXCEPT ![k] = "no"]
      /\ shown' = shown /\ waiting' = waiting /\ attempts' = attempts /\ cool' = cool
      /\ inFlight' = inFlight /\ batches' = batches /\ retryTimer' = retryTimer
      /\ bootTimer' = bootTimer /\ parked' = parked /\ pacing' = pacing
      /\ misses' = misses /\ disk' = disk /\ loaded' = loaded
  BY DEF Refreshed, ledgerVars, askVars, timerVars
<1>2. AskSound' /\ LedgerSound' /\ TimerSound' /\ CoolingIsTimed' /\ DemandTypes'
  BY <1>1 DEF ProfilesInv, AskSound, DisjointBatches, LedgerSound, TimerSound, MayFlush,
     CoolingIsTimed, Wanted, DemandTypes
<1>3. refreshing \in [Keys -> {"no", "had", "hadnot"}] /\ Wanted' = Wanted
      /\ \A j \in Keys \ {k} : refreshing'[j] = refreshing[j]
  BY <1>1 DEF ProfilesInv, DemandTypes, Wanted
<1>4. CASE refreshing[k] = "had" /\ k \notin Have
  <2>1. /\ cache' \in Stored({k}) /\ Keep({k}) /\ unsaved' = unsaved \cup {"profiles"}
        /\ "profiles" \in loaded
    BY <1>4 DEF Refreshed, ProfilesInv, ColdStore
  <2>2. /\ cache' \subseteq Keys /\ known' \subseteq Keys /\ lost' \subseteq Keys \ known'
        /\ known' \subseteq cache' \cup ((known \ cache) \ {k})
    BY <2>1, StoredKeeps DEF ProfilesInv
  <2>3. StoreTypes' /\ ColdStore'
    BY <1>1, <2>1, <2>2 DEF ProfilesInv, StoreTypes, ColdStore, Caches
  <2>4. KnownIsKept'
    BY <1>1, <1>3, <2>1, <2>2 DEF KnownIsKept, ProfilesInv
  <2>5. FreshIsAsked'
    BY <1>1, <1>3, <2>1, StoredFresh DEF ProfilesInv
  <2> QED
    BY <1>2, <2>3, <2>4, <2>5 DEF ProfilesInv
<1>5. CASE ~(refreshing[k] = "had" /\ k \notin Have)
  <2>1. cache' = cache /\ unsaved' = unsaved /\ known' = known /\ lost' = lost
    BY <1>5 DEF Refreshed
  <2>2. StoreTypes' /\ ColdStore' /\ FreshIsAsked'
    BY <1>1, <1>3, <2>1 DEF ProfilesInv, StoreTypes, ColdStore, FreshIsAsked, Have
  <2>3. KnownIsKept'
    BY <1>1, <1>3, <1>5, <2>1 DEF KnownIsKept, ProfilesInv, Have
  <2> QED
    BY <1>2, <2>2, <2>3 DEF ProfilesInv
<1> QED
  BY <1>4, <1>5

LEMMA ArrivesKeeps == ASSUME ProfilesInv, NEW k \in Keys, Arrives(k) PROVE ProfilesInv'
<1> DEFINE att == [attempts EXCEPT ![k] = 0]
           gone == {j \in waiting : Settled(j, cache', att)}
<1>1. /\ k \in inFlight /\ cache' \in Stored({k}) /\ Keep({k})
      /\ attempts' = att /\ cool' = [cool EXCEPT ![k] = 0] /\ misses' = misses \ {k}
      /\ unsaved' = unsaved \cup {"profiles"} \cup (IF k \in misses THEN {"misses"} ELSE {})
      /\ waiting' = waiting \ gone
      /\ retryTimer' = IF gone = {} THEN retryTimer
                       ELSE RetryAt(shown \cup (waiting \ gone), att, cool')
      /\ shown' = shown /\ refreshing' = refreshing /\ inFlight' = inFlight
      /\ batches' = batches /\ bootTimer' = bootTimer /\ parked' = parked /\ pacing' = pacing
      /\ disk' = disk /\ loaded' = loaded
  BY DEF Arrives, Wake, askVars
<1>2. batches # {} /\ MayFlush /\ "profiles" \in loaded
  BY <1>1 DEF ProfilesInv, AskSound, TimerSound, MayFlush, Caches
<1>3. 0 \in 0..Cap
  BY Limits
<1>4. att \in [Keys -> Nat] /\ cool' \in [Keys -> 0..Cap] /\ LedgerSound'
  BY <1>1, <1>3 DEF ProfilesInv, LedgerSound
<1> HIDE DEF gone
<1>5. shown \cup (waiting \ gone) \in SUBSET Keys
  BY Limits DEF ProfilesInv, DemandTypes
<1>6. RetryAt(shown \cup (waiting \ gone), att, cool') \in 0..Off
  BY <1>4, <1>5, Scheduled
<1>7. retryTimer' \in 0..Off
  BY <1>1, <1>6 DEF ProfilesInv, TimerSound
<1>8. DemandTypes' /\ AskSound' /\ TimerSound'
  BY <1>1, <1>7 DEF ProfilesInv, DemandTypes, AskSound, DisjointBatches, TimerSound, MayFlush
<1>9. CoolingIsTimed'
  BY <1>1, <1>2 DEF CoolingIsTimed
<1>10. /\ cache' \subseteq Keys /\ known' \subseteq Keys /\ lost' \subseteq Keys \ known'
       /\ known' \subseteq cache' \cup ((known \ cache) \ {k})
  BY <1>1, StoredKeeps DEF ProfilesInv
<1>11. StoreTypes' /\ ColdStore'
  BY <1>1, <1>2, <1>10 DEF ProfilesInv, StoreTypes, ColdStore, Caches
<1>12. KnownIsKept'
  BY <1>1, <1>2, <1>10 DEF KnownIsKept, ProfilesInv
<1>13. Wanted' \subseteq Wanted /\ Wanted' \subseteq Keys
  BY <1>1, <1>5 DEF Wanted
<1>14. \A j \in Wanted' : attempts'[j] = 0 => j \in {k} \/ attempts[j] = 0
  BY <1>1, <1>13 DEF ProfilesInv, LedgerSound
<1> HIDE DEF att
<1>15. FreshIsAsked'
  BY <1>1, <1>2, <1>13, <1>14, StoredFresh DEF ProfilesInv
<1> QED
  BY <1>4, <1>8, <1>9, <1>11, <1>12, <1>15 DEF ProfilesInv

\* The ledger after an answer: found keys are cleared, the others climb the ladder.
LEMMA LedgerClimbs ==
  ASSUME LedgerSound, NEW b, NEW F \in SUBSET b, NEW fast \in BOOLEAN,
         \A k \in b \ F : attempts[k] < MaxAttempts, attempts' = Applied(b, F),
         cool' = [k \in Keys |-> CASE k \in F -> 0 [] k \in b \ F -> Cooldown(NextAttempt(k), fast)
                                   [] OTHER -> cool[k]]
  PROVE  /\ LedgerSound' /\ Applied(b, F) \in [Keys -> Nat]
         /\ \A k \in Keys : attempts'[k] = 0 => k \in F \/ (k \notin b /\ attempts[k] = 0)
<1>1. \A k \in Keys : /\ NextAttempt(k) \in Nat \ {0}
                      /\ k \in b \ F => NextAttempt(k) \in 1..MaxAttempts
  <2> TAKE k \in Keys
  <2>1. MaxAttempts \in Nat /\ attempts[k] \in Nat
    BY Limits DEF LedgerSound
  <2> QED
    BY <2>1 DEF NextAttempt
<1>2. \A k \in Keys : k \in b \ F => Cooldown(NextAttempt(k), fast) \in 0..Cap
  BY <1>1, Ladder
<1>3. 0 \in 0..Cap
  BY Limits
<1>4. \A k \in Keys : Applied(b, F)[k] \in Nat
  BY <1>1 DEF Applied, LedgerSound
<1>5. Applied(b, F) \in [Keys -> Nat]
  BY <1>4 DEF Applied
<1>6. \A k \in Keys : cool'[k] \in 0..Cap
  BY <1>2, <1>3 DEF LedgerSound
<1>7. cool' \in [Keys -> 0..Cap]
  BY <1>6
<1>8. \A k \in Keys : attempts'[k] = 0 => k \in F \/ (k \notin b /\ attempts[k] = 0)
  BY <1>1 DEF Applied
<1>9. \A k \in Keys : attempts'[k] = 0 => cool'[k] = 0
  BY <1>8 DEF LedgerSound
<1> QED
  BY <1>5, <1>7, <1>8, <1>9 DEF LedgerSound

LEMMA SettleKeeps ==
  ASSUME ProfilesInv, NEW b \in batches, NEW F \in SUBSET b, NEW fast \in BOOLEAN,
         Settle(b, F, fast)
  PROVE  ProfilesInv'
<1> DEFINE att == Applied(b, F)
           cd == [k \in Keys |-> CASE k \in F -> 0 [] k \in b \ F -> Cooldown(NextAttempt(k), fast)
                                   [] OTHER -> cool[k]]
           missed == {k \in b \ F : att[k] >= SlowLane}
           gone == {k \in waiting : Settled(k, cache', att)}
<1>1. /\ batches' = batches \ {b} /\ inFlight' = inFlight \ b
      /\ attempts' = att /\ cool' = cd /\ cache' \in Stored(F) /\ Keep(F)
      /\ misses' = Persisted(F, missed)
      /\ unsaved' = unsaved \cup (IF F = {} THEN {} ELSE {"profiles"})
                            \cup (IF missed \cup (misses \cap F) = {} THEN {} ELSE {"misses"})
      /\ waiting' = waiting \ gone /\ retryTimer' = RetryAt(shown \cup waiting', att, cd)
      /\ shown' = shown /\ refreshing' = refreshing /\ bootTimer' = bootTimer
      /\ parked' = parked /\ pacing' = pacing /\ disk' = disk /\ loaded' = loaded
  BY DEF Settle, Released
<1>2. MayFlush /\ "profiles" \in loaded /\ b \subseteq inFlight /\ F \in SUBSET Keys
  BY DEF ProfilesInv, AskSound, TimerSound, MayFlush, Caches
<1>3. missed \subseteq Keys /\ waiting' \subseteq waiting
  BY <1>1, <1>2 DEF ProfilesInv, AskSound
<1>4. /\ LedgerSound' /\ att \in [Keys -> Nat] /\ cd \in [Keys -> 0..Cap]
      /\ \A k \in Keys : attempts'[k] = 0 => k \in F \/ (k \notin b /\ attempts[k] = 0)
  <2>1. LedgerSound
    BY DEF ProfilesInv
  <2>2. /\ LedgerSound' /\ att \in [Keys -> Nat]
        /\ \A k \in Keys : attempts'[k] = 0 => k \in F \/ (k \notin b /\ attempts[k] = 0)
    <3>1. \A k \in b \ F : attempts[k] < MaxAttempts
      BY DEF Settle
    <3> QED
      BY <1>1, <2>1, <3>1, LedgerClimbs
  <2> HIDE DEF att, cd
  <2>3. cd \in [Keys -> 0..Cap]
    BY <1>1, <2>2 DEF LedgerSound
  <2> QED
    BY <2>2, <2>3
<1> HIDE DEF att, cd, missed, gone
<1>5. shown \cup waiting' \in SUBSET Keys /\ Wanted' = shown \cup waiting' /\ Wanted' \subseteq Wanted
  BY <1>1, <1>3, Limits DEF ProfilesInv, DemandTypes, Wanted
<1>6. /\ RetryAt(shown \cup waiting', att, cd) \in 0..Off
      /\ \A k \in shown \cup waiting' : att[k] > 0 /\ cd[k] > 0 =>
            RetryAt(shown \cup waiting', att, cd) <= cd[k]
  BY <1>4, <1>5, Scheduled
<1>7. DemandTypes' /\ TimerSound'
  BY <1>1, <1>2, <1>3, <1>6 DEF ProfilesInv, DemandTypes, TimerSound, MayFlush
<1>8. AskSound'
  <2>1. DisjointBatches' /\ inFlight' \subseteq Keys
    BY <1>1 DEF ProfilesInv, AskSound, DisjointBatches
  <2>2. \A c \in batches : c = b \/ c \cap b = {}
    BY DEF ProfilesInv, AskSound, DisjointBatches
  <2>3. inFlight \ b = UNION (batches \ {b})
    BY <2>2 DEF ProfilesInv, AskSound
  <2> QED
    BY <1>1, <2>1, <2>3 DEF AskSound
<1>9. CoolingIsTimed'
  BY <1>1, <1>5, <1>6 DEF CoolingIsTimed
<1>10. /\ cache' \subseteq Keys /\ known' \subseteq Keys /\ lost' \subseteq Keys \ known'
       /\ known' \subseteq cache' \cup ((known \ cache) \ F)
  BY <1>1, <1>2, StoredKeeps DEF ProfilesInv
<1>11. StoreTypes' /\ ColdStore'
  <2>1. misses' \subseteq Keys /\ unsaved' \subseteq Caches
    BY <1>1, <1>2, <1>3 DEF ProfilesInv, StoreTypes, Persisted, Caches
  <2> QED
    BY <1>1, <1>2, <1>10, <2>1 DEF ProfilesInv, StoreTypes, ColdStore
<1>12. KnownIsKept'
  BY <1>1, <1>2, <1>10 DEF KnownIsKept, ProfilesInv
<1>13. FreshIsAsked'
  <2>1. \A k \in Wanted' : attempts'[k] = 0 =>
            k \in F \/ (attempts[k] = 0 /\ (k \in inFlight => k \in inFlight'))
    BY <1>1, <1>4, <1>5
  <2> QED
    BY <1>1, <1>2, <1>5, <2>1, StoredFresh DEF ProfilesInv
<1> QED
  BY <1>4, <1>7, <1>8, <1>9, <1>11, <1>12, <1>13 DEF ProfilesInv

-----------------------------------------------------------------------------
(* The other steps *)

\* A surface or a caller lets go: whoever is left sets the heartbeat.
LEMMA ReleaseKeeps ==
  ASSUME ProfilesInv, NEW k \in Keys, Unmount(k) \/ GetTimesOut(k)
  PROVE  ProfilesInv'
<1>1. /\ shown' \subseteq shown /\ waiting' \subseteq waiting
      /\ retryTimer' = RetryAt(shown' \cup waiting', attempts, cool)
      /\ UNCHANGED <<refreshing, ledgerVars, askVars, bootTimer, parked, pacing, storeVars, histVars>>
  BY DEF Unmount, GetTimesOut
<1>2. shown' \cup waiting' \in SUBSET Keys
  BY <1>1, Limits DEF ProfilesInv, DemandTypes
<1>3. /\ retryTimer' \in 0..Off
      /\ \A j \in shown' \cup waiting' : attempts[j] > 0 /\ cool[j] > 0 => retryTimer' <= cool[j]
  BY <1>1, <1>2, Scheduled DEF ProfilesInv, LedgerSound
<1>4. CoolingIsTimed' /\ FreshIsAsked'
  BY <1>1, <1>3 DEF CoolingIsTimed, FreshIsAsked, Wanted, ProfilesInv, Have, ledgerVars, storeVars,
     askVars, histVars
<1>5. DemandTypes' /\ TimerSound' /\ AskSound' /\ LedgerSound'
  BY <1>1, <1>3 DEF ProfilesInv, DemandTypes, TimerSound, MayFlush, AskSound, DisjointBatches,
     LedgerSound, ledgerVars, storeVars, askVars
<1>6. StoreTypes' /\ ColdStore' /\ KnownIsKept'
  BY <1>1 DEF ProfilesInv, StoreTypes, ColdStore, KnownIsKept, storeVars, histVars
<1> QED
  BY <1>4, <1>5, <1>6 DEF ProfilesInv

LEMMA TickKeeps == ASSUME ProfilesInv, Tick PROVE ProfilesInv'
<1>1. /\ retryTimer # 0 /\ ~(bootTimer /\ ~pacing)
      /\ cool' = [k \in Keys |-> IF cool[k] = 0 THEN 0 ELSE cool[k] - 1]
      /\ retryTimer' = IF retryTimer = Off THEN Off ELSE retryTimer - 1
      /\ pacing' = FALSE
      /\ UNCHANGED <<demandVars, attempts, askVars, bootTimer, parked, storeVars, histVars>>
  BY DEF Tick, Due
<1>2. Cap \in Nat \ {0} /\ Off = Cap + 1
  BY Limits DEF Off
<1>3. retryTimer' \in 0..Off
  BY <1>1, <1>2 DEF ProfilesInv, TimerSound
<1>4. \A k \in Keys : cool'[k] \in 0..Cap /\ (cool[k] = 0 => cool'[k] = 0)
  BY <1>1, <1>2 DEF ProfilesInv, LedgerSound
<1>5. LedgerSound'
  <2>1. cool' \in [Keys -> 0..Cap]
    BY <1>1, <1>4
  <2> QED
    BY <1>1, <1>4, <2>1 DEF ProfilesInv, LedgerSound
<1>6. CoolingIsTimed'
  <2> SUFFICES ASSUME batches = {}, NEW k \in Wanted, attempts[k] > 0, cool'[k] > 0
               PROVE  retryTimer' <= cool'[k] \/ bootTimer \/ parked > 0
    BY <1>1 DEF CoolingIsTimed, Wanted, demandVars, askVars
  <2>1. k \in Keys
    BY Limits DEF Wanted, ProfilesInv, DemandTypes
  <2>2. cool[k] \in 0..Cap /\ cool[k] > 0 /\ cool'[k] = cool[k] - 1
    BY <1>1, <1>2, <2>1 DEF ProfilesInv, LedgerSound
  <2>3. retryTimer <= cool[k] \/ bootTimer \/ parked > 0
    BY <2>2 DEF ProfilesInv, CoolingIsTimed
  <2>4. retryTimer <= cool[k] => retryTimer' <= cool'[k]
    BY <1>1, <1>2, <2>2 DEF ProfilesInv, TimerSound
  <2> QED
    BY <2>3, <2>4
<1>7. FreshIsAsked' /\ DemandTypes' /\ AskSound'
  BY <1>1 DEF ProfilesInv, FreshIsAsked, Wanted, Have, DemandTypes, AskSound, DisjointBatches,
     demandVars, askVars, storeVars, histVars
<1>8. TimerSound'
  BY <1>1, <1>3 DEF ProfilesInv, TimerSound, MayFlush, askVars, storeVars
<1>9. StoreTypes' /\ ColdStore' /\ KnownIsKept'
  BY <1>1 DEF ProfilesInv, StoreTypes, ColdStore, KnownIsKept, storeVars, histVars, demandVars
<1> QED
  BY <1>5, <1>6, <1>7, <1>8, <1>9 DEF ProfilesInv

LEMMA LoadProfilesKeeps == ASSUME ProfilesInv, LoadProfiles PROVE ProfilesInv'
<1>1. PICK alive \in SUBSET disk["profiles"] :
          /\ cache' = cache \cup alive
          /\ known' = known \ (disk["profiles"] \ cache')
          /\ lost' = lost \ alive
  BY DEF LoadProfiles
<1>2. /\ "profiles" \notin loaded /\ loaded' = loaded \cup {"profiles"}
      /\ UNCHANGED <<demandVars, ledgerVars, askVars, timerVars, pacing, misses, unsaved, disk>>
      /\ disk["profiles"] \subseteq Keys
  BY DEF LoadProfiles, ProfilesInv, StoreTypes, Caches
<1>3. ~bootTimer /\ batches = {}
  BY <1>2 DEF ProfilesInv, TimerSound, MayFlush, Caches
<1>4. DemandTypes' /\ AskSound' /\ LedgerSound' /\ CoolingIsTimed'
  BY <1>2 DEF ProfilesInv, DemandTypes, AskSound, DisjointBatches, LedgerSound, CoolingIsTimed,
     Wanted, demandVars, askVars, ledgerVars, timerVars
<1>5. TimerSound'
  BY <1>2, <1>3 DEF ProfilesInv, TimerSound, timerVars, askVars, Caches
<1>6. StoreTypes' /\ ColdStore'
  BY <1>1, <1>2 DEF ProfilesInv, StoreTypes, ColdStore
<1>7. KnownIsKept'
  BY <1>1, <1>2 DEF ProfilesInv, KnownIsKept, ColdStore
<1>8. FreshIsAsked'
  BY <1>1, <1>2 DEF ProfilesInv, FreshIsAsked, Wanted, Have, demandVars, ledgerVars, askVars, timerVars
<1> QED
  BY <1>4, <1>5, <1>6, <1>7, <1>8 DEF ProfilesInv

LEMMA LoadMissesKeeps == ASSUME ProfilesInv, LoadMisses PROVE ProfilesInv'
<1>1. PICK alive \in SUBSET disk["misses"] :
          /\ misses' = misses \cup alive
          /\ unsaved' = IF alive = disk["misses"] THEN unsaved ELSE unsaved \cup {"misses"}
          /\ attempts' = [k \in Keys |-> IF k \in alive /\ attempts[k] = 0 THEN SlowLane
                                         ELSE attempts[k]]
  BY DEF LoadMisses
<1>2. /\ "misses" \notin loaded /\ loaded' = loaded \cup {"misses"}
      /\ UNCHANGED <<demandVars, cool, askVars, timerVars, pacing, cache, disk, histVars>>
      /\ disk["misses"] \subseteq Keys
  BY DEF LoadMisses, ProfilesInv, StoreTypes, Caches
<1>3. ~bootTimer /\ batches = {}
  BY <1>2 DEF ProfilesInv, TimerSound, MayFlush, Caches
<1>4. SlowLane \in Nat \ {0}
  BY Limits
<1>5. LedgerSound' /\ \A k \in Keys : (attempts'[k] = 0 => attempts[k] = 0)
                                      /\ (cool[k] > 0 => attempts'[k] = attempts[k])
  BY <1>1, <1>2, <1>4 DEF ProfilesInv, LedgerSound
<1>6. Wanted \subseteq Keys
  BY Limits DEF Wanted, ProfilesInv, DemandTypes
<1>7. Wanted' = Wanted /\ Have' = Have
  BY <1>2 DEF Wanted, Have, demandVars
<1>8. DemandTypes' /\ AskSound'
  BY <1>2 DEF ProfilesInv, DemandTypes, AskSound, DisjointBatches, demandVars, askVars
<1>9. TimerSound'
  BY <1>2, <1>3 DEF ProfilesInv, TimerSound, timerVars, askVars, Caches
<1>10. StoreTypes' /\ ColdStore' /\ KnownIsKept'
  BY <1>1, <1>2 DEF ProfilesInv, StoreTypes, ColdStore, KnownIsKept, Caches, demandVars, histVars
<1>11. CoolingIsTimed'
  BY <1>2, <1>5, <1>6, <1>7 DEF ProfilesInv, CoolingIsTimed, timerVars, askVars
<1>12. FreshIsAsked'
  BY <1>2, <1>5, <1>6, <1>7 DEF ProfilesInv, FreshIsAsked, timerVars, askVars, histVars
<1> QED
  BY <1>5, <1>8, <1>9, <1>10, <1>11, <1>12 DEF ProfilesInv

LEMMA StorageKeeps ==
  ASSUME ProfilesInv, SaveProfiles \/ SaveMisses \/ (\E k \in Keys : Expire(k)) \/ Crash
         \/ UNCHANGED vars
  PROVE  ProfilesInv'
<1>1. ASSUME NEW c \in Caches, NEW keys \in SUBSET Keys, Saved(c, keys) PROVE ProfilesInv'
  <2>1. /\ c \in unsaved /\ unsaved' = unsaved \ {c} /\ disk' = [disk EXCEPT ![c] = keys]
        /\ UNCHANGED <<demandVars, ledgerVars, askVars, timerVars, pacing, cache, misses, loaded,
                       histVars>>
    BY <1>1 DEF Saved
  <2>2. disk' \in [Caches -> SUBSET Keys] /\ (c # "profiles" => disk'["profiles"] = disk["profiles"])
    BY <2>1 DEF ProfilesInv, StoreTypes, Caches
  <2>3. StoreTypes' /\ ColdStore' /\ KnownIsKept'
    BY <2>1, <2>2 DEF ProfilesInv, StoreTypes, ColdStore, KnownIsKept, demandVars, histVars
  <2>4. DemandTypes' /\ AskSound' /\ LedgerSound' /\ TimerSound' /\ CoolingIsTimed' /\ FreshIsAsked'
    BY <2>1 DEF ProfilesInv, DemandTypes, AskSound, DisjointBatches, LedgerSound, TimerSound,
       MayFlush, CoolingIsTimed, FreshIsAsked, Wanted, Have, demandVars, askVars, ledgerVars,
       timerVars, histVars
  <2> QED
    BY <2>3, <2>4 DEF ProfilesInv
<1>2. CASE SaveProfiles \/ SaveMisses
  BY <1>1, <1>2 DEF SaveProfiles, SaveMisses, Caches, ProfilesInv, StoreTypes
<1>3. ASSUME NEW k \in Keys, Expire(k) PROVE ProfilesInv'
  <2>1. /\ k \in Have /\ cache' = cache \ {k} /\ known' = known \ {k} /\ lost' = lost \cup {k}
        /\ UNCHANGED <<demandVars, ledgerVars, askVars, timerVars, pacing, misses, unsaved, disk,
                       loaded>>
    BY <1>3 DEF Expire
  <2>2. StoreTypes' /\ ColdStore' /\ KnownIsKept' /\ FreshIsAsked'
    BY <2>1 DEF ProfilesInv, StoreTypes, ColdStore, KnownIsKept, FreshIsAsked, Wanted, Have,
       demandVars, ledgerVars, askVars, timerVars
  <2>3. DemandTypes' /\ AskSound' /\ LedgerSound' /\ TimerSound' /\ CoolingIsTimed'
    BY <2>1 DEF ProfilesInv, DemandTypes, AskSound, DisjointBatches, LedgerSound, TimerSound,
       MayFlush, CoolingIsTimed, Wanted, demandVars, askVars, ledgerVars, timerVars
  <2> QED
    BY <2>2, <2>3 DEF ProfilesInv
<1>4. CASE Crash
  <2>1. disk' \in [Caches -> SUBSET Keys]
    BY <1>4 DEF Crash, ProfilesInv, StoreTypes
  <2>2. JustStarted'
    BY <1>4, <2>1 DEF Crash, JustStarted
  <2>3. JustStarted' => ProfilesInv'
    BY Started, PTL
  <2> QED
    BY <2>2, <2>3
<1>5. CASE UNCHANGED vars
  BY <1>5 DEF vars, ProfilesInv, DemandTypes, AskSound, DisjointBatches, LedgerSound, TimerSound,
     MayFlush, StoreTypes, ColdStore, KnownIsKept, CoolingIsTimed, FreshIsAsked, Wanted, Have,
     demandVars, ledgerVars, askVars, timerVars, storeVars, histVars
<1> QED
  BY <1>2, <1>3, <1>4, <1>5

-----------------------------------------------------------------------------
(* Theorems *)

LEMMA NextKeeps == ASSUME ProfilesInv, [Next]_vars PROVE ProfilesInv'
<1>1. CASE \E k \in Keys : \/ Mount(k) \/ Unmount(k) \/ Get(k) \/ GetTimesOut(k)
                           \/ Refresh(k) \/ Refreshed(k) \/ Arrives(k) \/ Expire(k)
  BY <1>1, MountKeeps, ReleaseKeeps, GetKeeps, RefreshKeeps, RefreshedKeeps, ArrivesKeeps,
     StorageKeeps
<1>2. CASE \E b \in batches : \E F \in SUBSET b, fast \in BOOLEAN : Settle(b, F, fast)
  BY <1>2, SettleKeeps
<1>3. CASE ResumeFlush \/ RetryTimerFires \/ BootTimerFires \/ Tick
  BY <1>3, TimersKeep, TickKeeps
<1>4. CASE LoadProfiles \/ LoadMisses \/ SaveProfiles \/ SaveMisses \/ Crash \/ UNCHANGED vars
  BY <1>4, LoadProfilesKeeps, LoadMissesKeeps, StorageKeeps
<1> QED
  BY <1>1, <1>2, <1>3, <1>4 DEF Next

LEMMA ProfilesInductive == Spec => []ProfilesInv
<1>1. ProfilesInv /\ [Next]_vars => ProfilesInv'
  BY NextKeeps
<1> QED
  BY <1>1, InitEstablishes, PTL DEF Spec

\* Types; a key is in flight exactly while some batch holds it, whatever order timers,
\* calls, early arrivals and answers of flush and dispatch come in.
THEOREM ProfilesTypeCorrect == Spec => []TypeOK
<1>1. ProfilesInv => TypeOK
  BY InvSuffices
<1> QED
  BY <1>1, ProfilesInductive, PTL

\* dispatch never asks for a key that another batch is asking for.
THEOREM DisjointCorrect == Spec => []DisjointBatches
<1>1. ProfilesInv => DisjointBatches
  BY InvSuffices
<1> QED
  BY <1>1, ProfilesInductive, PTL

\* loadFromStorage, removeProfile and refreshProfiles: no profile that was on disk or was
\* found is dropped, unless it expired, was evicted or is being refreshed.
THEOREM KnownCorrect == Spec => []KnownIsKept
<1>1. ProfilesInv => KnownIsKept
  BY InvSuffices
<1> QED
  BY <1>1, ProfilesInductive, PTL

\* scheduleRetry: while no batch is out and no flush is held up, the heartbeat is armed
\* for every wanted key that cools down, to go off no later than its cooldown ends.
THEOREM CoolingCorrect == Spec => []CoolingIsTimed
<1>1. ProfilesInv => CoolingIsTimed
  BY InvSuffices
<1> QED
  BY <1>1, ProfilesInductive, PTL

\* retain, flush: a wanted key that never failed is had, asked for or about to be.
THEOREM FreshCorrect == Spec => []FreshIsAsked
<1>1. ProfilesInv => FreshIsAsked
  BY InvSuffices
<1> QED
  BY <1>1, ProfilesInductive, PTL

=============================================================================

----------------------------- MODULE Client_proofs -----------------------------
(***************************************************************************)
(* Proofs about Client, for any keys, relays, cache size and number of     *)
(* batches: its types and the capacity of the cache, that a recorded miss  *)
(* was witnessed, that a published version is seen until it is cleared or  *)
(* evicted, and that whatever is cached is stored by some relay.           *)
(***************************************************************************)
EXTENDS Client, FiniteSetTheorems, TLAPS

-----------------------------------------------------------------------------
(* The invariant *)

CacheTypes == cache \in [Keys -> Versions] /\ told \in [Keys -> Versions] /\ miss \subseteq Keys \ Exempt

Cached == {k \in Keys : cache[k] # 0}
Capped == Cardinality(Cached) <= CacheSize

RelayTypes ==
    /\ cooling \subseteq Relays /\ stored \in [Relays -> [Keys -> Versions]]
    /\ pub \in [Keys -> Pubs] /\ heard \in [Slots -> SUBSET Relays]

QueryTypes == window \subseteq Keys /\ query \in [Slots -> Queries]

\* A batch asks for its own keys and receives nothing else.
Own(q) == q.ask \subseteq q.keys /\ \A k \in Keys : q.got[k] # 0 => k \in q.keys
QueriesOwn == \A s \in Slots : Own(query[s])

\* An EOSE that counts was a frame in time.
EoseHeard == \A s \in Slots : query[s].eose > 0 => heard[s] # {}

\* A version installed by a publish is cached, has no miss record, and no load of its key
\* is under way that could replace it.
Installed == \A k \in Keys : told[k] # 0 => cache[k] = told[k] /\ k \notin miss /\ k \notin InFlight

ClientInv ==
    CacheTypes /\ Capped /\ RelayTypes /\ QueryTypes /\ QueriesOwn /\ EoseHeard /\ Installed

LEMMA InvSuffices ==
  ASSUME ClientInv
  PROVE  TypeOK /\ PublishedIsSeen
<1>1. TypeOK
  BY DEF ClientInv, TypeOK, CacheTypes, Capped, Cached, RelayTypes, QueryTypes
<1>2. PublishedIsSeen
  BY DEF ClientInv, PublishedIsSeen, Installed
<1> QED
  BY <1>1, <1>2

\* With a key there are versions, and zero is one of them.
LEMMA Zero ==
  ASSUME NEW k \in Keys
  PROVE  0 \in Versions /\ 0..MaxVersion[k] \subseteq Versions
<1>1. MaxVersion[k] \in Nat
  BY ClientAssumption
<1>2. 0 \in 0..MaxVersion[k] /\ 0..MaxVersion[k] \subseteq Versions
  BY <1>1 DEF Versions
<1> QED
  BY <1>2

LEMMA Nothing ==
  /\ NoVersion \in [Keys -> Versions] /\ NoQuery \in Queries /\ Own(NoQuery)
  /\ NoQuery.eose = 0 /\ NoQuery.keys = {}
<1>1. NoVersion \in [Keys -> Versions]
  BY Zero DEF NoVersion
<1>2. NoQuery \in Queries /\ NoQuery.eose = 0 /\ NoQuery.keys = {}
  <2>1. [r \in Relays |-> "none"] \in [Relays -> Reqs]
    BY DEF Reqs
  <2> QED
    BY <1>1, <2>1 DEF NoQuery, Queries
<1>3. Own(NoQuery)
  BY DEF Own, NoQuery, NoVersion
<1> QED
  BY <1>1, <1>2, <1>3

LEMMA InitEstablishes == Init => ClientInv
<1> SUFFICES ASSUME Init PROVE ClientInv
  OBVIOUS
<1>1. /\ window = {} /\ query = [s \in Slots |-> NoQuery]
      /\ cache = NoVersion /\ miss = {} /\ cooling = {}
      /\ stored = [r \in Relays |-> NoVersion] /\ pub = [k \in Keys |-> NoPub]
      /\ heard = [s \in Slots |-> {}] /\ told = NoVersion
  BY DEF Init
<1>2. CacheTypes
  BY <1>1, Nothing DEF CacheTypes
<1>3. Capped
  <2>1. Cached = {} /\ 0 <= CacheSize
    BY <1>1, ClientAssumption DEF Cached, NoVersion
  <2> QED
    BY <2>1, FS_EmptySet DEF Capped
<1>4. RelayTypes
  <2>1. ASSUME NEW k \in Keys
        PROVE  NoPub \in Pubs
    BY Zero DEF NoPub, Pubs
  <2> QED
    BY <1>1, <2>1, Nothing DEF RelayTypes
<1>5. QueryTypes /\ QueriesOwn /\ EoseHeard
  BY <1>1, Nothing DEF QueryTypes, QueriesOwn, EoseHeard
<1>6. Installed
  BY <1>1 DEF Installed, NoVersion
<1> QED
  BY <1>2, <1>3, <1>4, <1>5, <1>6 DEF ClientInv

-----------------------------------------------------------------------------
(* The cache *)

\* LRUCache.set keeps the capacity, and a key there has the new version or its old one.
LEMMA Fills ==
  ASSUME CacheTypes, Capped, NEW new \in [Keys -> Versions], cache' \in Filled(new)
  PROVE  /\ cache' \in [Keys -> Versions] /\ Capped'
         /\ \A k \in Keys : cache'[k] # 0 => cache'[k] = IF new[k] # 0 THEN new[k] ELSE cache[k]
<1> DEFINE fresh == {k \in Keys : new[k] # 0}
           all == fresh \cup Cached
           value(k) == IF new[k] # 0 THEN new[k] ELSE cache[k]
<1>1. PICK D \in SUBSET all :
        /\ cache' = [k \in Keys |-> IF k \in D THEN value(k) ELSE 0]
        /\ Cardinality(D) <= CacheSize
  <2> DEFINE kept == IF fresh = {} \/ Cardinality(all) <= CacheSize THEN {all}
                     ELSE {D \in SUBSET all : Cardinality(D) = CacheSize /\ D \cap fresh # {}}
  <2>1. PICK D \in kept : cache' = [k \in Keys |-> IF k \in D THEN value(k) ELSE 0]
    BY DEF Filled, Cached
  <2>2. D \subseteq all /\ Cardinality(D) <= CacheSize
    <3>1. CASE fresh = {}
      <4>1. D = Cached
        BY <3>1
      <4> QED
        BY <4>1 DEF Capped
    <3>2. CASE fresh # {} /\ Cardinality(all) <= CacheSize
      BY <3>2
    <3>3. CASE fresh # {} /\ ~(Cardinality(all) <= CacheSize)
      <4>1. D \subseteq all /\ Cardinality(D) = CacheSize
        BY <3>3
      <4> QED
        BY <4>1, ClientAssumption
    <3> QED
      BY <3>1, <3>2, <3>3
  <2> QED
    BY <2>1, <2>2
<1>2. cache' \in [Keys -> Versions]
  BY <1>1, Zero DEF CacheTypes
<1>3. \A k \in Keys : cache'[k] # 0 => k \in D /\ cache'[k] = value(k)
  BY <1>1
<1>4. Capped'
  <2>1. Cached' \subseteq D /\ D \subseteq Keys
    BY <1>1, <1>3 DEF Cached
  <2>2. IsFiniteSet(D) /\ Cardinality(D) \in Nat
    BY <2>1, ClientAssumption, FS_Subset, FS_CardinalityType
  <2>3. Cardinality(Cached') <= Cardinality(D) /\ Cardinality(Cached') \in Nat
    BY <2>1, <2>2, FS_Subset, FS_CardinalityType
  <2>4. Cardinality(Cached') <= CacheSize
    BY <1>1, <2>2, <2>3, ClientAssumption
  <2> QED
    BY <2>4 DEF Capped
<1> QED
  BY <1>2, <1>3, <1>4

\* An evicted key is promised to nobody.
LEMMA Keeps ==
  ASSUME cache' \in [Keys -> Versions], NEW t \in [Keys -> Versions]
  PROVE  /\ Kept(t) \in [Keys -> Versions]
         /\ \A k \in Keys : Kept(t)[k] # 0 => Kept(t)[k] = t[k] /\ cache'[k] # 0
BY Zero DEF Kept

-----------------------------------------------------------------------------
(* Queries *)

\* One request changes; nothing else of the query.
LEMMA ReqSet ==
  ASSUME NEW q \in Queries, NEW f \in [Relays -> Reqs]
  PROVE  LET p == [q EXCEPT !.req = f] IN
         /\ p \in Queries /\ p.keys = q.keys /\ p.eose = q.eose /\ (Own(q) => Own(p))
BY DEF Queries, Own

\* A query asks the next tier.
LEMMA Asks ==
  ASSUME NEW q \in Queries, NEW t \in 1..2, NEW K \in SUBSET q.keys, NEW R
  PROVE  /\ Asking(q, t, K, R) \in Queries /\ Asking(q, t, K, R).keys = q.keys
         /\ Asking(q, t, K, R).eose = q.eose
         /\ Own(q) => Own(Asking(q, t, K, R))
<1> DEFINE f == [r \in Relays |-> IF r \in R \ cooling THEN "connecting" ELSE "none"]
<1>1. f \in [Relays -> Reqs]
  BY DEF Reqs
<1>2. Asking(q, t, K, R) = [q EXCEPT !.tier = t, !.ask = K, !.early = FALSE, !.req = f]
  BY DEF Asking
<1> HIDE DEF f
<1>3. Asking(q, t, K, R) = [tier |-> t, keys |-> q.keys, ask |-> K, req |-> f, got |-> q.got,
                            eose |-> q.eose, early |-> FALSE]
  BY <1>2 DEF Queries
<1>4. q.keys \subseteq Keys /\ q.got \in [Keys -> Versions] /\ q.eose \in Nat /\ t \in 0..2
  BY DEF Queries
<1> QED
  BY <1>1, <1>3, <1>4 DEF Queries, Own

\* Queries change, but for what they load; nothing that was read or written does.
LEMMA QueriesKeep ==
  ASSUME ClientInv, query' \in [Slots -> Queries], heard' \in [Slots -> SUBSET Relays],
         cooling' \subseteq Relays, UNCHANGED readFrame,
         \A s \in Slots : /\ query'[s].keys = query[s].keys /\ Own(query'[s])
                          /\ query'[s].eose > 0 => heard'[s] # {}
  PROVE  ClientInv'
<1> USE DEF ClientInv
<1>1. UNCHANGED <<window, cache, miss, stored, pub, told>>
  BY DEF readFrame
<1>2. CacheTypes' /\ Capped' /\ RelayTypes' /\ QueryTypes' /\ QueriesOwn' /\ EoseHeard'
  BY <1>1 DEF CacheTypes, Capped, Cached, RelayTypes, QueryTypes, QueriesOwn, EoseHeard
<1>3. InFlight' = InFlight
  BY <1>1 DEF InFlight
<1>4. Installed'
  BY <1>1, <1>3 DEF Installed
<1> QED
  BY <1>2, <1>4

\* One query changes.
LEMMA QueryKeeps ==
  ASSUME ClientInv, NEW s \in Slots, NEW q \in Queries, query' = [query EXCEPT ![s] = q],
         q.keys = query[s].keys, Own(q), q.eose = query[s].eose,
         cooling' \subseteq Relays, UNCHANGED <<readFrame, heard>>
  PROVE  ClientInv'
<1>1. query' \in [Slots -> Queries] /\ query'[s] = q
      /\ \A t \in Slots : t # s => query'[t] = query[t]
  BY DEF ClientInv, QueryTypes
<1>2. heard' = heard /\ UNCHANGED readFrame /\ heard' \in [Slots -> SUBSET Relays]
  BY DEF ClientInv, RelayTypes
<1>3. \A t \in Slots : /\ query'[t].keys = query[t].keys /\ Own(query'[t])
                       /\ query'[t].eose > 0 => heard'[t] # {}
  BY <1>1, <1>2 DEF ClientInv, QueriesOwn, EoseHeard
<1> QED
  BY <1>1, <1>2, <1>3, QueriesKeep

-----------------------------------------------------------------------------
(* Steps of a load *)

\* A request of a query moves on: no answer counts by it.
LEMMA ReqKeeps ==
  ASSUME ClientInv, NEW s \in Slots, NEW r \in Relays, NEW x \in Reqs,
         query' = [query EXCEPT ![s].req[r] = x], UNCHANGED <<readFrame, cooling, heard>>
  PROVE  ClientInv'
<1> DEFINE f == [query[s].req EXCEPT ![r] = x]
           p == [query[s] EXCEPT !.req = f]
<1>1. query \in [Slots -> Queries] /\ query[s] \in Queries /\ Own(query[s]) /\ cooling' \subseteq Relays
  BY DEF ClientInv, QueryTypes, QueriesOwn, RelayTypes
<1>2. f \in [Relays -> Reqs]
  BY <1>1 DEF Queries
<1>3. query' = [query EXCEPT ![s] = p]
  BY <1>1
<1> HIDE DEF f
<1>4. p \in Queries /\ p.keys = query[s].keys /\ p.eose = query[s].eose /\ Own(p)
  BY <1>1, <1>2, ReqSet
<1> HIDE DEF p
<1>5. UNCHANGED <<readFrame, heard>>
  OBVIOUS
<1> QED
  BY <1>1, <1>3, <1>4, <1>5, QueryKeeps

LEMMA RequestsKeep ==
  ASSUME ClientInv, NEW s \in Slots, NEW r \in Relays,
         Connects(s, r) \/ ConnectFails(s, r) \/ Closes(s, r)
  PROVE  ClientInv'
<1>1. "open" \in Reqs /\ "closed" \in Reqs
  BY DEF Reqs
<1>2. CASE Connects(s, r)
  <2> DEFINE x == IF query[s].early THEN "closed" ELSE "open"
  <2>1. x \in Reqs /\ query' = [query EXCEPT ![s].req[r] = x]
        /\ UNCHANGED <<readFrame, cooling, heard>>
    BY <1>1, <1>2 DEF Connects
  <2> HIDE DEF x
  <2> QED
    BY <2>1, ReqKeeps
<1>3. CASE ConnectFails(s, r)
  BY <1>1, <1>3, ReqKeeps DEF ConnectFails
<1>4. CASE Closes(s, r)
  BY <1>1, <1>4, ReqKeeps DEF Closes
<1> QED
  BY <1>2, <1>3, <1>4

\* An event of a key the batch asks for.
LEMMA DeliversKeeps ==
  ASSUME ClientInv, NEW s \in Slots, NEW r \in Relays, NEW k \in Keys, Delivers(s, r, k)
  PROVE  ClientInv'
<1> DEFINE q == query[s]
           g == [q.got EXCEPT ![k] = stored[r][k]]
           d == [q EXCEPT !.got = g]
<1>1. /\ query \in [Slots -> Queries] /\ q \in Queries /\ Own(q) /\ k \in q.ask
      /\ stored[r][k] \in Versions /\ cooling' \subseteq Relays
  BY DEF ClientInv, QueryTypes, QueriesOwn, RelayTypes, Delivers
<1>2. g \in [Keys -> Versions] /\ \A j \in Keys : g[j] # 0 => j \in q.keys
  BY <1>1 DEF Queries, Own
<1>3. query' = [query EXCEPT ![s] = Completed(d)]
  BY <1>1 DEF Delivers
<1> HIDE DEF g
<1>4. d \in Queries /\ d.keys = q.keys /\ d.eose = q.eose /\ Own(d)
  BY <1>1, <1>2 DEF Queries, Own
<1> HIDE DEF d
<1>5. LET c == Completed(d) IN c \in Queries /\ c.keys = q.keys /\ c.eose = q.eose /\ Own(c)
  <2> DEFINE e == [d EXCEPT !.early = TRUE]
             f == [x \in Relays |-> IF e.req[x] = "open" THEN "closed" ELSE e.req[x]]
             a == [e EXCEPT !.req = f]
  <2>1. e \in Queries /\ e.keys = q.keys /\ e.eose = q.eose /\ Own(e)
    BY <1>4 DEF Queries, Own
  <2>2. AllClosed(e) = a
    BY DEF AllClosed
  <2>3. f \in [Relays -> Reqs]
    BY <2>1 DEF Queries, Reqs
  <2>4. Completed(d) = IF Complete(d) THEN a ELSE d
    BY <2>2 DEF Completed
  <2> HIDE DEF e, f
  <2>5. a \in Queries /\ a.keys = q.keys /\ a.eose = q.eose /\ Own(a)
    BY <2>1, <2>3, ReqSet
  <2> QED
    BY <1>4, <2>4, <2>5
<1>6. UNCHANGED <<readFrame, heard>>
  BY DEF Delivers
<1> HIDE DEF q
<1>7. PICK c \in Queries : /\ query' = [query EXCEPT ![s] = c] /\ c.keys = query[s].keys
                           /\ c.eose = query[s].eose /\ Own(c)
  BY <1>3, <1>5 DEF q
<1> QED
  BY <1>1, <1>6, <1>7, QueryKeeps

\* An EOSE counts only on an open REQ, and then it is heard.
LEMMA EoseKeeps ==
  ASSUME ClientInv, NEW s \in Slots, NEW r \in Relays, Eose(s, r)
  PROVE  ClientInv'
<1> DEFINE q == query[s]
           f == [q.req EXCEPT ![r] = "answered"]
           n == q.eose + 1
           p == [q EXCEPT !.eose = n, !.req = f]
<1>1. /\ query \in [Slots -> Queries] /\ q \in Queries /\ Own(q) /\ q.req[r] = "open"
      /\ heard \in [Slots -> SUBSET Relays] /\ cooling' \subseteq Relays
  BY DEF ClientInv, QueryTypes, QueriesOwn, RelayTypes, Eose, Counted
<1>2. f \in [Relays -> Reqs] /\ n \in Nat
  BY <1>1 DEF Queries, Reqs
<1>3. query' = [query EXCEPT ![s] = p]
  BY <1>1 DEF Eose
<1> HIDE DEF f, n
<1>4. p \in Queries /\ p.keys = q.keys /\ Own(p)
  BY <1>1, <1>2 DEF Queries, Own
<1> HIDE DEF p
<1>5. heard' = [heard EXCEPT ![s] = @ \cup {r}] /\ UNCHANGED readFrame
  BY <1>1 DEF Eose
<1>6. query' \in [Slots -> Queries] /\ heard' \in [Slots -> SUBSET Relays] /\ heard'[s] # {}
  BY <1>1, <1>3, <1>4, <1>5
<1>7. ASSUME NEW t \in Slots
      PROVE  query'[t].keys = query[t].keys /\ Own(query'[t]) /\ (query'[t].eose > 0 => heard'[t] # {})
  <2>1. CASE t = s
    BY <1>1, <1>3, <1>4, <1>6, <2>1
  <2>2. CASE t # s
    BY <1>1, <1>3, <1>5, <2>2 DEF ClientInv, QueriesOwn, EoseHeard
  <2> QED
    BY <2>1, <2>2
<1> HIDE DEF q
<1> QED
  BY <1>1, <1>5, <1>6, <1>7, QueriesKeep

\* A rate limit closes REQs of any query.
LEMMA LimitKeeps ==
  ASSUME ClientInv, NEW s \in Slots, NEW r \in Relays, RateLimited(s, r)
  PROVE  ClientInv'
<1>1. ASSUME NEW t \in Slots
      PROVE  /\ query'[t] \in Queries /\ query'[t].keys = query[t].keys /\ Own(query'[t])
             /\ query'[t].eose = query[t].eose
  <2> DEFINE f == [query[t].req EXCEPT ![r] = "closed"]
             p == [query[t] EXCEPT !.req = f]
  <2>1. query[t] \in Queries /\ Own(query[t])
    BY DEF ClientInv, QueryTypes, QueriesOwn
  <2>2. f \in [Relays -> Reqs]
    BY <2>1 DEF Queries, Reqs
  <2>3. query'[t] = p \/ query'[t] = query[t]
    BY DEF RateLimited
  <2> HIDE DEF f
  <2>4. p \in Queries /\ p.keys = query[t].keys /\ p.eose = query[t].eose /\ Own(p)
    BY <2>1, <2>2, ReqSet
  <2> HIDE DEF p
  <2> QED
    BY <2>1, <2>3, <2>4
<1>2. query' \in [Slots -> Queries]
  <2>1. query' = [t \in Slots |-> query'[t]]
    BY DEF RateLimited
  <2> QED
    BY <1>1, <2>1
<1>3. cooling' \subseteq Relays /\ heard' = heard /\ UNCHANGED readFrame
  BY DEF ClientInv, RelayTypes, RateLimited
<1>4. heard' \in [Slots -> SUBSET Relays]
  BY <1>3 DEF ClientInv, RelayTypes
<1>5. \A t \in Slots : /\ query'[t].keys = query[t].keys /\ Own(query'[t])
                       /\ query'[t].eose > 0 => heard'[t] # {}
  BY <1>1, <1>3 DEF ClientInv, EoseHeard
<1> QED
  BY <1>2, <1>3, <1>4, <1>5, QueriesKeep

LEMMA CooldownKeeps ==
  ASSUME ClientInv, NEW r \in Relays, CooldownEnds(r)
  PROVE  ClientInv'
<1>1. UNCHANGED <<readFrame, query, heard>> /\ cooling' \subseteq Relays
  BY DEF ClientInv, RelayTypes, CooldownEnds
<1>2. /\ query' \in [Slots -> Queries] /\ heard' \in [Slots -> SUBSET Relays]
      /\ \A s \in Slots : /\ query'[s].keys = query[s].keys /\ Own(query'[s])
                          /\ query'[s].eose > 0 => heard'[s] # {}
  BY <1>1 DEF ClientInv, QueryTypes, RelayTypes, QueriesOwn, EoseHeard
<1> QED
  BY <1>1, <1>2, QueriesKeep

\* The fallback set is asked for what is not there.
LEMMA NextTierKeeps ==
  ASSUME ClientInv, NEW s \in Slots, NextTier(s)
  PROVE  ClientInv'
<1> DEFINE q == query[s]
           p == Asking(q, 2, Unresolved(q), Fallback)
<1>1. q \in Queries /\ Own(q) /\ cooling' \subseteq Relays
  BY DEF ClientInv, QueryTypes, QueriesOwn, RelayTypes, NextTier
<1>2. Unresolved(q) \in SUBSET q.keys
  BY <1>1 DEF Unresolved, Own
<1>3. p \in Queries /\ p.keys = q.keys /\ p.eose = q.eose /\ Own(p)
  BY <1>1, <1>2, Asks
<1>4. query' = [query EXCEPT ![s] = p] /\ UNCHANGED <<readFrame, heard>>
  BY DEF NextTier
<1> HIDE DEF p
<1> QED
  BY <1>1, <1>3, <1>4, QueryKeeps

\* A key joins the pending batch: nothing was installed for it.
LEMMA LoadKeeps ==
  ASSUME ClientInv, NEW k \in Keys, Load(k)
  PROVE  ClientInv'
<1> USE DEF ClientInv
<1>1. /\ cache[k] = 0 /\ window' = window \cup {k}
      /\ UNCHANGED <<query, cache, miss, cooling, stored, pub, heard, told>>
  BY DEF Load
<1>2. CacheTypes' /\ Capped' /\ RelayTypes' /\ QueryTypes' /\ QueriesOwn' /\ EoseHeard'
  BY <1>1 DEF CacheTypes, Capped, Cached, RelayTypes, QueryTypes, QueriesOwn, EoseHeard
<1>3. InFlight' = InFlight \cup {k}
  BY <1>1 DEF InFlight
<1>4. Installed'
  BY <1>1, <1>3 DEF Installed
<1> QED
  BY <1>2, <1>4

\* The pending batch becomes a query.
LEMMA DispatchKeeps ==
  ASSUME ClientInv, NEW s \in Slots, Dispatch(s)
  PROVE  ClientInv'
<1> USE DEF ClientInv
<1> DEFINE n == [NoQuery EXCEPT !.keys = window]
           q == Asking(n, 1, window, Primary)
<1>1. /\ query[s] = NoQuery /\ window' = {} /\ query' = [query EXCEPT ![s] = q]
      /\ UNCHANGED <<cache, miss, cooling, stored, pub, heard, told>>
  BY DEF Dispatch
<1>2. n \in Queries /\ n.keys = window /\ n.eose = 0 /\ Own(n) /\ window \in SUBSET n.keys
  <2>1. NoQuery.ask = {} /\ NoQuery.got = NoVersion
    BY DEF NoQuery
  <2>2. NoQuery \in Queries /\ NoQuery.eose = 0 /\ window \subseteq Keys
    BY Nothing DEF QueryTypes
  <2>3. n \in Queries /\ n.keys = window /\ n.eose = 0 /\ n.ask = {} /\ n.got = NoVersion
    BY <2>1, <2>2 DEF Queries
  <2> HIDE DEF n
  <2> QED
    BY <2>3 DEF Own, NoVersion
<1> HIDE DEF n
<1>3. q \in Queries /\ q.keys = window /\ q.eose = 0 /\ Own(q)
  BY <1>2, Asks
<1> HIDE DEF q
<1>4. query' \in [Slots -> Queries] /\ query'[s] = q /\ \A t \in Slots : t # s => query'[t] = query[t]
  BY <1>1, <1>3 DEF QueryTypes
<1>5. CacheTypes' /\ Capped' /\ RelayTypes'
  BY <1>1 DEF CacheTypes, Capped, Cached, RelayTypes
<1>6. QueryTypes' /\ QueriesOwn' /\ EoseHeard'
  BY <1>1, <1>3, <1>4 DEF QueryTypes, QueriesOwn, EoseHeard
<1>7. InFlight' \subseteq InFlight
  BY <1>1, <1>3, <1>4 DEF InFlight
<1>8. Installed'
  BY <1>1, <1>7 DEF Installed
<1> QED
  BY <1>5, <1>6, <1>8

\* The batch resolves: what it found is cached, and no key of it was promised to anyone.
LEMMA FinishKeeps ==
  ASSUME ClientInv, NEW s \in Slots, Finish(s)
  PROVE  ClientInv'
<1> USE DEF ClientInv
<1> DEFINE q == query[s]
<1>1. q \in Queries /\ Own(q) /\ q.keys \subseteq Keys /\ q.got \in [Keys -> Versions]
  BY DEF QueryTypes, QueriesOwn, Queries
<1>2. /\ cache' \in Filled(q.got) /\ told' = Kept(told)
      /\ miss' = {k \in miss : q.got[k] = 0} \cup Missed(q)
      /\ query' = [query EXCEPT ![s] = NoQuery] /\ heard' = [heard EXCEPT ![s] = {}]
      /\ UNCHANGED <<window, cooling, stored, pub>>
  BY DEF Finish
<1>3. /\ cache' \in [Keys -> Versions] /\ Capped'
      /\ \A k \in Keys : cache'[k] # 0 => cache'[k] = IF q.got[k] # 0 THEN q.got[k] ELSE cache[k]
  BY <1>1, <1>2, Fills
<1>4. /\ told' \in [Keys -> Versions]
      /\ \A k \in Keys : told'[k] # 0 => told'[k] = told[k] /\ cache'[k] # 0
  BY <1>2, <1>3, Keeps DEF CacheTypes
<1>5. Missed(q) \subseteq q.ask /\ Missed(q) \subseteq Keys \ Exempt
  BY <1>1 DEF Missed, Unresolved, Own
<1>6. CacheTypes'
  BY <1>2, <1>3, <1>4, <1>5 DEF CacheTypes
<1>7. RelayTypes'
  BY <1>2 DEF RelayTypes
<1>8. QueryTypes' /\ QueriesOwn' /\ EoseHeard'
  BY <1>2, Nothing DEF QueryTypes, QueriesOwn, EoseHeard, RelayTypes
<1>9. InFlight' \subseteq InFlight
  BY <1>2, Nothing DEF InFlight, QueryTypes
<1>10. Installed'
  <2> SUFFICES ASSUME NEW k \in Keys, told'[k] # 0
               PROVE  cache'[k] = told'[k] /\ k \notin miss' /\ k \notin InFlight'
    BY DEF Installed
  <2>1. told'[k] = told[k] /\ cache'[k] # 0 /\ cache[k] = told[k] /\ k \notin miss /\ k \notin InFlight
    BY <1>4 DEF Installed
  <2>2. k \notin q.keys
    BY <2>1 DEF InFlight
  <2>3. q.got[k] = 0 /\ k \notin q.ask
    BY <1>1, <2>2 DEF Own
  <2> QED
    BY <1>2, <1>3, <1>5, <1>9, <2>1, <2>3
<1> QED
  BY <1>3, <1>6, <1>7, <1>8, <1>10

\* A miss record ends, or a profile is cleared.
LEMMA RecordsKeep ==
  ASSUME ClientInv, NEW k \in Keys, MissCools(k) \/ Clear(k)
  PROVE  ClientInv'
<1> USE DEF ClientInv
<1>1. CASE MissCools(k)
  <2>1. miss' \subseteq miss /\ UNCHANGED <<window, query, cache, cooling, stored, pub, heard, told>>
    BY <1>1 DEF MissCools
  <2>2. CacheTypes' /\ Capped' /\ RelayTypes' /\ QueryTypes' /\ QueriesOwn' /\ EoseHeard'
    BY <2>1 DEF CacheTypes, Capped, Cached, RelayTypes, QueryTypes, QueriesOwn, EoseHeard
  <2>3. Installed'
    BY <2>1 DEF Installed, InFlight
  <2> QED
    BY <2>2, <2>3
<1>2. CASE Clear(k)
  <2>1. /\ cache' = [cache EXCEPT ![k] = 0] /\ told' = [told EXCEPT ![k] = 0]
        /\ UNCHANGED <<window, query, cooling, heard, miss, stored, pub>>
    BY <1>2 DEF Clear, pubFrame
  <2>2. CacheTypes' /\ RelayTypes' /\ QueryTypes' /\ QueriesOwn' /\ EoseHeard'
    BY <2>1, Zero DEF CacheTypes, RelayTypes, QueryTypes, QueriesOwn, EoseHeard
  <2>3. Capped'
    <3>1. Cached' \subseteq Cached /\ Cached \subseteq Keys
      BY <2>1 DEF Cached, CacheTypes
    <3>2. IsFiniteSet(Cached) /\ Cardinality(Cached) \in Nat
      BY <3>1, ClientAssumption, FS_Subset, FS_CardinalityType
    <3>3. Cardinality(Cached') <= Cardinality(Cached) /\ Cardinality(Cached') \in Nat
      BY <3>1, <3>2, FS_Subset, FS_CardinalityType
    <3> QED
      BY <3>2, <3>3, ClientAssumption DEF Capped
  <2>4. Installed'
    BY <2>1 DEF Installed, InFlight, CacheTypes
  <2> QED
    BY <2>2, <2>3, <2>4
<1> QED
  BY <1>1, <1>2

-----------------------------------------------------------------------------
(* Steps of a publish *)

\* A relay's answer changes two fields.
LEMMA Answered ==
  ASSUME NEW p \in Pubs, NEW w \in SUBSET Relays, NEW o \in BOOLEAN
  PROVE  [p EXCEPT !.wait = w, !.ok = o] = [version |-> p.version, wait |-> w, ok |-> o]
<1>1. [p EXCEPT !.wait = w] = [version |-> p.version, wait |-> w, ok |-> p.ok]
  BY DEF Pubs
<1> DEFINE d == [version |-> p.version, wait |-> w, ok |-> p.ok]
<1>2. [d EXCEPT !.ok = o] = [version |-> p.version, wait |-> w, ok |-> o]
  OBVIOUS
<1>3. [p EXCEPT !.wait = w, !.ok = o] = [[p EXCEPT !.wait = w] EXCEPT !.ok = o]
  OBVIOUS
<1> QED
  BY <1>1, <1>2, <1>3

\* What a relay's answer does to the publish and to what the relay stores.
LEMMA AnswerShape ==
  ASSUME pub \in [Keys -> Pubs], NEW k \in Keys, NEW r \in Relays, PublishAnswers(k, r)
  PROVE  \E has, ok \in BOOLEAN :
           /\ ok => has
           /\ stored' = IF has THEN [stored EXCEPT ![r][k] = pub[k].version] ELSE stored
           /\ pub' = [pub EXCEPT ![k] = [version |-> pub[k].version, wait |-> pub[k].wait \ {r},
                                         ok |-> pub[k].ok \/ ok]]
<1>1. PICK has \in BOOLEAN, ok \in BOOLEAN :
        /\ ok => has
        /\ stored' = IF has THEN [stored EXCEPT ![r][k] = pub[k].version] ELSE stored
        /\ pub' = [pub EXCEPT ![k].wait = @ \ {r}, ![k].ok = @ \/ ok]
  BY Zenon DEF PublishAnswers
<1> DEFINE w == pub[k].wait \ {r}
           o == pub[k].ok \/ ok
           p == [version |-> pub[k].version, wait |-> w, ok |-> o]
<1>2. pub[k] \in Pubs /\ w \in SUBSET Relays /\ o \in BOOLEAN
  BY DEF Pubs
<1>3. pub' = [pub EXCEPT ![k] = p]
  <2>1. pub' = [pub EXCEPT ![k].wait = w, ![k].ok = o]
    BY <1>1
  <2> HIDE DEF w, o
  <2>2. pub' = [pub EXCEPT ![k] = [@ EXCEPT !.wait = w, !.ok = o]]
    BY <2>1, Zenon
  <2>3. [pub[k] EXCEPT !.wait = w, !.ok = o] = p
    BY <1>2, Answered, Zenon
  <2> QED
    BY <2>2, <2>3, Zenon
<1> QED
  BY <1>1, <1>3

LEMMA PublishKeeps ==
  ASSUME ClientInv, NEW k \in Keys, Publish(k) \/ (\E r \in Relays : PublishAnswers(k, r))
  PROVE  ClientInv'
<1> USE DEF ClientInv
<1>1. pub \in [Keys -> Pubs] /\ pub[k] \in Pubs /\ stored \in [Relays -> [Keys -> Versions]]
  BY DEF RelayTypes
<1>2. UNCHANGED <<window, query, cooling, heard, cache, miss, told>>
  BY DEF Publish, PublishAnswers, pubFrame
<1>3. pub' \in [Keys -> Pubs] /\ stored' \in [Relays -> [Keys -> Versions]]
  <2>1. CASE Publish(k)
    <3>1. PICK v \in 1..MaxVersion[k] :
            pub' = [pub EXCEPT ![k] = [version |-> v, wait |-> Relays, ok |-> FALSE]]
      BY <2>1 DEF Publish
    <3>2. v \in Versions
      BY Zero, ClientAssumption
    <3>3. [version |-> v, wait |-> Relays, ok |-> FALSE] \in Pubs /\ stored' = stored
      BY <2>1, <3>2 DEF Pubs, Publish
    <3> QED
      BY <1>1, <3>1, <3>3
  <2>2. ASSUME NEW r \in Relays, PublishAnswers(k, r)
        PROVE  pub' \in [Keys -> Pubs] /\ stored' \in [Relays -> [Keys -> Versions]]
    <3>1. PICK has \in BOOLEAN, ok \in BOOLEAN :
            /\ stored' = IF has THEN [stored EXCEPT ![r][k] = pub[k].version] ELSE stored
            /\ pub' = [pub EXCEPT ![k] = [version |-> pub[k].version,
                                          wait |-> pub[k].wait \ {r}, ok |-> pub[k].ok \/ ok]]
      BY <1>1, <2>2, AnswerShape
    <3>2. pub[k].version \in Versions /\ pub[k].wait \subseteq Relays /\ pub[k].ok \in BOOLEAN
      BY <1>1 DEF Pubs
    <3>3. stored' \in [Relays -> [Keys -> Versions]]
      BY <1>1, <3>1, <3>2
    <3>4. [version |-> pub[k].version, wait |-> pub[k].wait \ {r}, ok |-> pub[k].ok \/ ok] \in Pubs
      BY <3>2 DEF Pubs
    <3> QED
      BY <1>1, <3>1, <3>3, <3>4
  <2> QED
    BY <2>1, <2>2
<1>4. CacheTypes' /\ Capped' /\ RelayTypes' /\ QueryTypes' /\ QueriesOwn' /\ EoseHeard'
  BY <1>2, <1>3 DEF CacheTypes, Capped, Cached, RelayTypes, QueryTypes, QueriesOwn, EoseHeard
<1>5. Installed'
  BY <1>2 DEF Installed, InFlight
<1> QED
  BY <1>4, <1>5

\* prime: the version is installed, unless a load of its key is under way.
LEMMA PrimedKeeps ==
  ASSUME ClientInv, NEW k \in Keys, NEW v \in Versions, Primed(k, v)
  PROVE  CacheTypes' /\ Capped' /\ \A j \in Keys : told'[j] # 0 =>
             cache'[j] = told'[j] /\ j \notin miss' /\ j \notin InFlight
<1> USE DEF ClientInv
<1> DEFINE new == [NoVersion EXCEPT ![k] = v]
           t == [told EXCEPT ![k] = IF k \in InFlight THEN 0 ELSE v]
<1>1. new \in [Keys -> Versions] /\ new[k] = v /\ \A j \in Keys : j # k => new[j] = 0
  BY Nothing DEF NoVersion
<1>2. /\ t \in [Keys -> Versions] /\ t[k] = (IF k \in InFlight THEN 0 ELSE v)
      /\ \A j \in Keys : j # k => t[j] = told[j]
  BY Zero DEF CacheTypes
<1>3. cache' \in Filled(new) /\ miss' = miss \ {k} /\ told' = Kept(t)
  BY DEF Primed
<1> HIDE DEF new, t
<1>4. /\ cache' \in [Keys -> Versions] /\ Capped'
      /\ \A j \in Keys : cache'[j] # 0 => cache'[j] = IF new[j] # 0 THEN new[j] ELSE cache[j]
  BY <1>1, <1>3, Fills
<1>5. /\ told' \in [Keys -> Versions]
      /\ \A j \in Keys : told'[j] # 0 => told'[j] = t[j] /\ cache'[j] # 0
  BY <1>2, <1>3, <1>4, Keeps
<1>6. CacheTypes'
  BY <1>3, <1>4, <1>5 DEF CacheTypes
<1>7. ASSUME NEW j \in Keys, told'[j] # 0
      PROVE  cache'[j] = told'[j] /\ j \notin miss' /\ j \notin InFlight
  <2>1. CASE j = k
    <3>1. t[k] # 0 /\ cache'[k] # 0 /\ told'[k] = t[k]
      BY <1>5, <1>7, <2>1
    <3>2. k \notin InFlight /\ t[k] = v
      BY <1>2, <3>1
    <3>3. cache'[k] = v
      BY <1>1, <1>4, <3>1, <3>2
    <3> QED
      BY <1>3, <2>1, <3>1, <3>2, <3>3
  <2>2. CASE j # k
    <3>1. told'[j] = told[j] /\ cache'[j] # 0 /\ new[j] = 0
      BY <1>1, <1>2, <1>5, <1>7, <2>2
    <3>2. cache'[j] = cache[j]
      BY <1>4, <3>1
    <3> QED
      BY <1>3, <1>7, <3>1, <3>2 DEF Installed
  <2> QED
    BY <2>1, <2>2
<1> QED
  BY <1>4, <1>6, <1>7

LEMMA PublishEndsKeeps ==
  ASSUME ClientInv, NEW k \in Keys, PublishEnds(k)
  PROVE  ClientInv'
<1> USE DEF ClientInv
<1>1. pub' = [pub EXCEPT ![k] = NoPub] /\ UNCHANGED <<window, query, cooling, heard, stored>>
  BY DEF PublishEnds, pubFrame
<1>2. NoPub \in Pubs /\ pub[k].version \in Versions
  BY Zero DEF NoPub, Pubs, RelayTypes
<1>3. RelayTypes' /\ QueryTypes' /\ QueriesOwn' /\ EoseHeard' /\ InFlight' = InFlight
  BY <1>1, <1>2 DEF RelayTypes, QueryTypes, QueriesOwn, EoseHeard, InFlight
<1>4. CASE pub[k].ok
  <2>1. Primed(k, pub[k].version)
    BY <1>4 DEF PublishEnds
  <2>2. CacheTypes' /\ Capped' /\ \A j \in Keys : told'[j] # 0 =>
             cache'[j] = told'[j] /\ j \notin miss' /\ j \notin InFlight
    BY <1>2, <2>1, PrimedKeeps
  <2>3. Installed'
    BY <1>3, <2>2 DEF Installed
  <2> QED
    BY <1>3, <2>2, <2>3
<1>5. CASE ~pub[k].ok
  <2>1. UNCHANGED <<cache, miss, told>>
    BY <1>5 DEF PublishEnds
  <2>2. CacheTypes' /\ Capped' /\ Installed'
    BY <1>3, <2>1 DEF CacheTypes, Capped, Cached, Installed
  <2> QED
    BY <1>3, <2>2
<1> QED
  BY <1>4, <1>5

LEMMA StutterKeeps ==
  ASSUME ClientInv, UNCHANGED vars
  PROVE  ClientInv'
<1> USE DEF ClientInv, vars
<1>1. CacheTypes' /\ Capped' /\ RelayTypes' /\ QueryTypes' /\ QueriesOwn' /\ EoseHeard'
  BY DEF CacheTypes, Capped, Cached, RelayTypes, QueryTypes, QueriesOwn, EoseHeard
<1>2. Installed'
  BY DEF Installed, InFlight
<1> QED
  BY <1>1, <1>2

-----------------------------------------------------------------------------
(* Theorems *)

LEMMA NextKeeps == ClientInv /\ [Next]_vars => ClientInv'
<1> SUFFICES ASSUME ClientInv, [Next]_vars PROVE ClientInv'
  OBVIOUS
<1>1. ASSUME NEW k \in Keys,
             \/ Load(k) \/ MissCools(k) \/ Clear(k) \/ Publish(k) \/ PublishEnds(k)
             \/ \E r \in Relays : PublishAnswers(k, r)
      PROVE  ClientInv'
  BY <1>1, LoadKeeps, RecordsKeep, PublishKeeps, PublishEndsKeeps
<1>2. ASSUME NEW s \in Slots, Dispatch(s) \/ NextTier(s) \/ Finish(s)
      PROVE  ClientInv'
  BY <1>2, DispatchKeeps, NextTierKeeps, FinishKeeps
<1>3. ASSUME NEW s \in Slots, NEW r \in Relays,
             \/ Connects(s, r) \/ ConnectFails(s, r) \/ Eose(s, r) \/ Closes(s, r)
             \/ RateLimited(s, r) \/ \E k \in Keys : Delivers(s, r, k)
      PROVE  ClientInv'
  BY <1>3, RequestsKeep, EoseKeeps, LimitKeeps, DeliversKeeps
<1>4. ASSUME NEW r \in Relays, CooldownEnds(r)
      PROVE  ClientInv'
  BY <1>4, CooldownKeeps
<1>5. CASE UNCHANGED vars
  BY <1>5, StutterKeeps
<1> QED
  BY <1>1, <1>2, <1>3, <1>4, <1>5 DEF Next

LEMMA ClientInductive == Spec => []ClientInv
BY InitEstablishes, NextKeeps, PTL DEF Spec

\* Only a batch that resolves records a miss, and only of a key it asked for.
LEMMA MissRecorded ==
  ASSUME ClientInv, [Next]_vars, NEW k \in miss', k \notin miss
  PROVE  \E s \in Slots : k \in query[s].keys /\ heard[s] # {}
<1>1. ASSUME NEW j \in Keys,
             \/ Load(j) \/ MissCools(j) \/ Clear(j) \/ Publish(j) \/ PublishEnds(j)
             \/ \E r \in Relays : PublishAnswers(j, r)
      PROVE  miss' \subseteq miss
  <2>1. CASE Load(j) \/ MissCools(j) \/ Clear(j) \/ Publish(j)
    BY <2>1 DEF Load, MissCools, Clear, Publish
  <2>2. CASE PublishEnds(j)
    <3>1. miss' = miss \ {j} \/ miss' = miss
      BY <2>2 DEF PublishEnds, Primed
    <3> QED
      BY <3>1
  <2>3. ASSUME NEW r \in Relays, PublishAnswers(j, r)
        PROVE  miss' = miss
    BY <2>3 DEF PublishAnswers
  <2> QED
    BY <1>1, <2>1, <2>2, <2>3
<1>2. ASSUME NEW s \in Slots,
             \/ Dispatch(s) \/ NextTier(s)
             \/ \E r \in Relays :
                   \/ Connects(s, r) \/ ConnectFails(s, r) \/ Eose(s, r) \/ Closes(s, r)
                   \/ RateLimited(s, r) \/ \E j \in Keys : Delivers(s, r, j)
      PROVE  miss' \subseteq miss
  <2>1. CASE Dispatch(s) \/ NextTier(s)
    BY <2>1 DEF Dispatch, NextTier, readFrame
  <2>2. ASSUME NEW r \in Relays, Connects(s, r) \/ ConnectFails(s, r) \/ Closes(s, r)
        PROVE  UNCHANGED readFrame
    BY <2>2 DEF Connects, ConnectFails, Closes
  <2>3. ASSUME NEW r \in Relays, Eose(s, r)
        PROVE  UNCHANGED readFrame
    BY <2>3 DEF Eose
  <2>4. ASSUME NEW r \in Relays, RateLimited(s, r)
        PROVE  UNCHANGED readFrame
    BY <2>4 DEF RateLimited
  <2>5. ASSUME NEW r \in Relays, NEW j \in Keys, Delivers(s, r, j)
        PROVE  UNCHANGED readFrame
    BY <2>5 DEF Delivers
  <2>6. UNCHANGED readFrame => miss' = miss
    BY DEF readFrame
  <2> QED
    BY <1>2, <2>1, <2>2, <2>3, <2>4, <2>5, <2>6
<1>3. ASSUME NEW r \in Relays, CooldownEnds(r)
      PROVE  miss' \subseteq miss
  BY <1>3 DEF CooldownEnds, readFrame
<1>4. ASSUME UNCHANGED vars
      PROVE  miss' \subseteq miss
  BY <1>4 DEF vars
<1>5. PICK s \in Slots : Finish(s)
  BY <1>1, <1>2, <1>3, <1>4 DEF Next
<1>6. k \in Missed(query[s])
  BY <1>5 DEF Finish
<1>7. query[s].eose > 0 /\ k \in query[s].ask
  BY <1>6 DEF Missed, Unresolved
<1>8. k \in query[s].keys /\ heard[s] # {}
  BY <1>7 DEF ClientInv, QueriesOwn, Own, EoseHeard
<1> QED
  BY <1>8

\* Every variable keeps its type, and the loader's cache never exceeds its capacity
\* (LRUCache), whatever loads, publishes and clears overlap.
THEOREM ClientTypeCorrect == Spec => []TypeOK
<1>1. ClientInv => TypeOK
  BY InvSuffices
<1> QED
  BY <1>1, ClientInductive, PTL

\* recordOutcome: no key is recorded as missing unless its batch saw an EOSE frame of some
\* relay before it was done with that relay.
THEOREM MissCorrect == Spec => MissIsWitnessed
<1>1. ClientInv /\ [Next]_vars =>
        [\A k \in miss' \ miss : \E s \in Slots : k \in query[s].keys /\ heard[s] # {}]_vars
  BY MissRecorded
<1> QED
  BY <1>1, ClientInductive, PTL DEF Spec, MissIsWitnessed

\* publishEvent's write-through: a version installed by a publish that no load ran beside
\* is what a load sees, and no miss hides it, until it is cleared or evicted.
THEOREM PublishedSeenCorrect == Spec => []PublishedIsSeen
<1>1. ClientInv => PublishedIsSeen
  BY InvSuffices
<1> QED
  BY <1>1, ClientInductive, PTL

-----------------------------------------------------------------------------
(* What is cached is stored *)

\* Inductive form of CachedIsStored: what a batch received and what a publish was told is
\* accepted are stored too, and a relay that has not answered a publish yet holds nothing
\* newer, so that what relays store only grows.
Backed(k, v) == v # 0 => \E r \in Relays : stored[r][k] >= v
ReadsBacked == \A k \in Keys : Backed(k, cache[k]) /\ \A s \in Slots : Backed(k, query[s].got[k])
PubsBacked == \A k \in Keys :
    /\ pub[k].ok => Backed(k, pub[k].version)
    /\ \A r \in pub[k].wait : stored[r][k] <= pub[k].version
StoredInv == ReadsBacked /\ PubsBacked

LEMMA VersionsNat == Versions \subseteq Nat
BY ClientAssumption DEF Versions

LEMMA StoredNat ==
  ASSUME ClientInv, NEW r \in Relays, NEW k \in Keys
  PROVE  stored[r][k] \in Nat /\ pub[k].version \in Nat
BY VersionsNat DEF ClientInv, RelayTypes, Pubs

\* What a key may be read as after a step: what was backed before it.
LEMMA ReadsKeep ==
  ASSUME ClientInv, ClientInv', StoredInv,
         \A r \in Relays, k \in Keys : stored'[r][k] >= stored[r][k],
         \A k \in Keys : \/ cache'[k] \in {0, cache[k]}
                         \/ \E s \in Slots : cache'[k] = query[s].got[k]
                         \/ pub[k].ok /\ cache'[k] = pub[k].version,
         \A s \in Slots, k \in Keys : \/ query'[s].got[k] \in {0, query[s].got[k]}
                                      \/ \E r \in Relays : query'[s].got[k] = stored[r][k]
  PROVE  ReadsBacked'
<1>1. ASSUME NEW k \in Keys, NEW v \in Nat, \E r \in Relays : stored[r][k] >= v
      PROVE  \E r \in Relays : stored'[r][k] >= v
  <2>1. PICK r \in Relays : stored[r][k] >= v
    BY <1>1
  <2>2. stored[r][k] \in Nat /\ stored'[r][k] \in Nat /\ stored'[r][k] >= stored[r][k]
    BY VersionsNat DEF ClientInv, RelayTypes
  <2> QED
    BY <2>1, <2>2
<1>2. ASSUME NEW k \in Keys, cache'[k] # 0
      PROVE  \E r \in Relays : stored'[r][k] >= cache'[k]
  <2>1. cache'[k] \in Nat
    BY VersionsNat DEF ClientInv, CacheTypes
  <2>2. \E r \in Relays : stored[r][k] >= cache'[k]
    <3>1. CASE cache'[k] = cache[k]
      BY <1>2, <3>1 DEF StoredInv, ReadsBacked, Backed
    <3>2. ASSUME NEW s \in Slots, cache'[k] = query[s].got[k]
          PROVE  \E r \in Relays : stored[r][k] >= cache'[k]
      BY <1>2, <3>2 DEF StoredInv, ReadsBacked, Backed
    <3>3. CASE pub[k].ok /\ cache'[k] = pub[k].version
      BY <1>2, <3>3 DEF StoredInv, PubsBacked, Backed
    <3> QED
      BY <1>2, <3>1, <3>2, <3>3
  <2> QED
    BY <1>1, <2>1, <2>2
<1>3. ASSUME NEW s \in Slots, NEW k \in Keys, query'[s].got[k] # 0
      PROVE  \E r \in Relays : stored'[r][k] >= query'[s].got[k]
  <2>1. query'[s].got[k] \in Nat
    BY VersionsNat DEF ClientInv, QueryTypes, Queries
  <2>2. \E r \in Relays : stored[r][k] >= query'[s].got[k]
    <3>1. CASE query'[s].got[k] = query[s].got[k]
      BY <1>3, <3>1 DEF StoredInv, ReadsBacked, Backed
    <3>2. ASSUME NEW r \in Relays, query'[s].got[k] = stored[r][k]
          PROVE  \E x \in Relays : stored[x][k] >= query'[s].got[k]
      BY <2>1, <3>2
    <3> QED
      BY <1>3, <3>1, <3>2
  <2> QED
    BY <1>1, <2>1, <2>2
<1> QED
  BY <1>2, <1>3 DEF ReadsBacked, Backed

\* No publish begins or is answered; one may end.
LEMMA PubsKeep ==
  ASSUME StoredInv, stored' = stored, \A k \in Keys : pub'[k] \in {pub[k], NoPub}
  PROVE  PubsBacked'
<1>1. ASSUME NEW k \in Keys
      PROVE  /\ pub'[k].ok => Backed(k, pub[k].version) /\ pub'[k].version = pub[k].version
             /\ \A r \in pub'[k].wait : stored[r][k] <= pub'[k].version
  BY DEF StoredInv, PubsBacked, NoPub
<1> QED
  BY <1>1 DEF PubsBacked, Backed

\* A step that leaves cache and publishes alone, and receives nothing.
LEMMA QueriesBacked ==
  ASSUME ClientInv, ClientInv', StoredInv, UNCHANGED <<cache, stored, pub>>,
         \A s \in Slots, k \in Keys : query'[s].got[k] \in {0, query[s].got[k]}
  PROVE  StoredInv'
<1>1. \A r \in Relays, k \in Keys : stored'[r][k] >= stored[r][k]
  BY StoredNat
<1>2. ReadsBacked'
  BY <1>1, ReadsKeep
<1>3. PubsBacked'
  BY PubsKeep
<1> QED
  BY <1>2, <1>3 DEF StoredInv

\* A request of a query moves on.
LEMMA RequestsBacked ==
  ASSUME ClientInv, ClientInv', StoredInv, NEW s \in Slots, NEW r \in Relays,
         Connects(s, r) \/ ConnectFails(s, r) \/ Closes(s, r)
  PROVE  StoredInv'
<1>1. query \in [Slots -> Queries] /\ UNCHANGED readFrame
  BY DEF ClientInv, QueryTypes, Connects, ConnectFails, Closes
<1>2. \A t \in Slots : query'[t].got = query[t].got
  BY <1>1 DEF Connects, ConnectFails, Closes, Queries
<1> QED
  BY <1>1, <1>2, QueriesBacked DEF readFrame

LEMMA EoseBacked ==
  ASSUME ClientInv, ClientInv', StoredInv, NEW s \in Slots, NEW r \in Relays, Eose(s, r)
  PROVE  StoredInv'
<1> DEFINE q == query[s]
           f == [q.req EXCEPT ![r] = "answered"]
           n == q.eose + 1
           p == [q EXCEPT !.eose = n, !.req = f]
<1>1. query \in [Slots -> Queries] /\ q \in Queries /\ UNCHANGED readFrame
  BY DEF ClientInv, QueryTypes, Eose
<1>2. query' = [query EXCEPT ![s] = p]
  BY <1>1 DEF Eose
<1> HIDE DEF f, n
<1>3. p.got = q.got
  BY <1>1 DEF Queries
<1> HIDE DEF p
<1>4. \A t \in Slots : query'[t].got = query[t].got
  BY <1>1, <1>2, <1>3
<1> QED
  BY <1>1, <1>4, QueriesBacked DEF readFrame

LEMMA LimitBacked ==
  ASSUME ClientInv, ClientInv', StoredInv, NEW s \in Slots, NEW r \in Relays, RateLimited(s, r)
  PROVE  StoredInv'
<1>1. query \in [Slots -> Queries] /\ UNCHANGED readFrame
  BY DEF ClientInv, QueryTypes, RateLimited
<1>2. \A t \in Slots : query'[t].got = query[t].got
  BY <1>1 DEF RateLimited, Queries
<1> QED
  BY <1>1, <1>2, QueriesBacked DEF readFrame

\* A batch goes to a tier with what it has so far, at first nothing.
LEMMA TiersBacked ==
  ASSUME ClientInv, ClientInv', StoredInv, NEW s \in Slots, Dispatch(s) \/ NextTier(s)
  PROVE  StoredInv'
<1>1. query \in [Slots -> Queries] /\ UNCHANGED <<cache, stored, pub>>
  BY DEF ClientInv, QueryTypes, Dispatch, NextTier, readFrame
<1>2. PICK q : /\ query' = [query EXCEPT ![s] = q]
               /\ q.got = NoVersion \/ q.got = query[s].got
  <2>1. CASE Dispatch(s)
    <3> DEFINE n == [NoQuery EXCEPT !.keys = window]
               q == Asking(n, 1, window, Primary)
    <3>1. query' = [query EXCEPT ![s] = q]
      BY <2>1 DEF Dispatch
    <3>2. q.got = NoVersion
      BY DEF Asking, NoQuery
    <3> HIDE DEF q
    <3> QED
      BY <3>1, <3>2
  <2>2. CASE NextTier(s)
    <3> DEFINE q == Asking(query[s], 2, Unresolved(query[s]), Fallback)
    <3>1. query' = [query EXCEPT ![s] = q]
      BY <2>2 DEF NextTier
    <3>2. q.got = query[s].got
      BY <1>1 DEF Asking, Queries
    <3> HIDE DEF q
    <3> QED
      BY <3>1, <3>2
  <2> QED
    BY <2>1, <2>2
<1>3. \A t \in Slots, k \in Keys : query'[t].got[k] \in {0, query[t].got[k]}
  BY <1>1, <1>2 DEF NoVersion
<1> QED
  BY <1>1, <1>3, QueriesBacked

\* What touches no batch, no cache and no relay.
LEMMA RestBacked ==
  ASSUME ClientInv, ClientInv', StoredInv,
         \/ \E k \in Keys : Load(k) \/ MissCools(k)
         \/ \E r \in Relays : CooldownEnds(r)
         \/ UNCHANGED vars
  PROVE  StoredInv'
<1>1. UNCHANGED <<query, cache, stored, pub>>
  BY DEF Load, MissCools, CooldownEnds, readFrame, vars
<1> QED
  BY <1>1, QueriesBacked

\* A batch receives what a relay stores.
LEMMA DeliversBacked ==
  ASSUME ClientInv, ClientInv', StoredInv, NEW s \in Slots, NEW r \in Relays, NEW j \in Keys,
         Delivers(s, r, j)
  PROVE  StoredInv'
<1>1. query \in [Slots -> Queries] /\ UNCHANGED <<cache, stored, pub>>
  BY DEF ClientInv, QueryTypes, Delivers, readFrame
<1>2. \A t \in Slots : t # s => query'[t] = query[t]
  BY <1>1 DEF Delivers
<1>3. query'[s].got = [query[s].got EXCEPT ![j] = stored[r][j]]
  <2> DEFINE d == [query[s] EXCEPT !.got[j] = stored[r][j]]
  <2>1. query'[s] = Completed(d)
    BY <1>1 DEF Delivers
  <2>2. Completed(d).got = d.got
    <3> DEFINE e == [d EXCEPT !.early = TRUE]
               f == [x \in Relays |-> IF e.req[x] = "open" THEN "closed" ELSE e.req[x]]
               a == [e EXCEPT !.req = f]
    <3>1. Completed(d) = IF Complete(d) THEN a ELSE d
      BY DEF Completed, AllClosed
    <3> HIDE DEF f
    <3>2. a.got = d.got
      BY <1>1 DEF Queries
    <3> QED
      BY <3>1, <3>2
  <2>3. d.got = [query[s].got EXCEPT ![j] = stored[r][j]]
    BY <1>1 DEF Queries
  <2> HIDE DEF d
  <2> QED
    BY <2>1, <2>2, <2>3
<1>4. query[s].got \in [Keys -> Versions]
  BY <1>1 DEF Queries
<1>5. \A t \in Slots, k \in Keys : \/ query'[t].got[k] \in {0, query[t].got[k]}
                                   \/ \E x \in Relays : query'[t].got[k] = stored[x][k]
  BY <1>2, <1>3, <1>4
<1>6. ReadsBacked'
  BY <1>1, <1>5, StoredNat, ReadsKeep
<1>7. PubsBacked'
  BY <1>1, PubsKeep
<1> QED
  BY <1>6, <1>7 DEF StoredInv

\* A batch resolves to what it received; a profile is cleared.
LEMMA FinishBacked ==
  ASSUME ClientInv, ClientInv', StoredInv, NEW s \in Slots, Finish(s)
  PROVE  StoredInv'
<1>1. /\ query \in [Slots -> Queries] /\ query[s].got \in [Keys -> Versions]
      /\ CacheTypes /\ Capped
  BY DEF ClientInv, QueryTypes, Queries
<1>2. /\ cache' \in Filled(query[s].got) /\ query' = [query EXCEPT ![s] = NoQuery]
      /\ UNCHANGED <<stored, pub>>
  BY DEF Finish
<1>3. \A k \in Keys : cache'[k] # 0 =>
          cache'[k] = IF query[s].got[k] # 0 THEN query[s].got[k] ELSE cache[k]
  BY <1>1, <1>2, Fills
<1>4. \A t \in Slots, k \in Keys : query'[t].got[k] \in {0, query[t].got[k]}
  <2>1. NoQuery.got = NoVersion
    BY DEF NoQuery
  <2> QED
    BY <1>1, <1>2, <2>1 DEF NoVersion
<1>5. ReadsBacked'
  <2>1. \A k \in Keys : \/ cache'[k] \in {0, cache[k]}
                        \/ \E t \in Slots : cache'[k] = query[t].got[k]
    BY <1>3
  <2> QED
    BY <1>2, <1>4, <2>1, StoredNat, ReadsKeep
<1>6. PubsBacked'
  BY <1>2, PubsKeep
<1> QED
  BY <1>5, <1>6 DEF StoredInv

LEMMA ClearBacked ==
  ASSUME ClientInv, ClientInv', StoredInv, NEW k \in Keys, Clear(k)
  PROVE  StoredInv'
<1>1. cache' = [cache EXCEPT ![k] = 0] /\ UNCHANGED <<query, stored, pub>>
  BY DEF Clear, pubFrame
<1>2. \A j \in Keys : cache'[j] \in {0, cache[j]}
  BY <1>1 DEF ClientInv, CacheTypes
<1>3. ReadsBacked'
  BY <1>1, <1>2, StoredNat, ReadsKeep
<1>4. PubsBacked'
  BY <1>1, PubsKeep
<1> QED
  BY <1>3, <1>4 DEF StoredInv

\* A publish begins with a version newer than any relay stores.
LEMMA PublishBacked ==
  ASSUME ClientInv, ClientInv', StoredInv, NEW k \in Keys, Publish(k)
  PROVE  StoredInv'
<1>1. PICK v \in 1..MaxVersion[k] :
        /\ \A r \in Relays : stored[r][k] < v
        /\ pub' = [pub EXCEPT ![k] = [version |-> v, wait |-> Relays, ok |-> FALSE]]
  BY DEF Publish
<1>2. UNCHANGED <<cache, query, stored>> /\ pub \in [Keys -> Pubs] /\ v \in Nat
  BY ClientAssumption DEF Publish, pubFrame, ClientInv, RelayTypes
<1>3. ReadsBacked'
  BY <1>2, StoredNat, ReadsKeep
<1>4. ASSUME NEW j \in Keys
      PROVE  /\ pub'[j].ok => Backed(j, pub[j].version) /\ pub'[j].version = pub[j].version
             /\ \A r \in pub'[j].wait : stored[r][j] <= pub'[j].version
  <2>1. CASE j = k
    <3>1. pub'[j] = [version |-> v, wait |-> Relays, ok |-> FALSE]
      BY <1>1, <1>2, <2>1
    <3>2. ASSUME NEW r \in Relays
          PROVE  stored[r][j] <= v
      BY <1>1, <1>2, <2>1, StoredNat
    <3> QED
      BY <3>1, <3>2
  <2>2. CASE j # k
    BY <1>1, <1>2, <2>2 DEF StoredInv, PubsBacked
  <2> QED
    BY <2>1, <2>2
<1>5. PubsBacked'
  BY <1>2, <1>4 DEF PubsBacked, Backed
<1> QED
  BY <1>3, <1>5 DEF StoredInv

\* A relay's answer: it stores the version now, or what it stored stays; only a relay that
\* stores the version says ok.
LEMMA AnswersBacked ==
  ASSUME ClientInv, ClientInv', StoredInv, NEW k \in Keys, NEW r \in Relays, PublishAnswers(k, r)
  PROVE  StoredInv'
<1>0. pub \in [Keys -> Pubs]
  BY DEF ClientInv, RelayTypes
<1>1. PICK has \in BOOLEAN, ok \in BOOLEAN :
        /\ ok => has
        /\ stored' = IF has THEN [stored EXCEPT ![r][k] = pub[k].version] ELSE stored
        /\ pub' = [pub EXCEPT ![k] = [version |-> pub[k].version, wait |-> pub[k].wait \ {r},
                                      ok |-> pub[k].ok \/ ok]]
  BY <1>0, AnswerShape
<1>2. /\ UNCHANGED <<cache, query>> /\ pub \in [Keys -> Pubs] /\ r \in pub[k].wait
      /\ stored \in [Relays -> [Keys -> Versions]]
  BY DEF PublishAnswers, pubFrame, ClientInv, RelayTypes
<1>3. /\ stored[r][k] <= pub[k].version
      /\ stored'[r][k] = IF has THEN pub[k].version ELSE stored[r][k]
      /\ \A x \in Relays, j \in Keys : (x # r \/ j # k) => stored'[x][j] = stored[x][j]
  BY <1>1, <1>2 DEF StoredInv, PubsBacked
<1>4. ASSUME NEW x \in Relays, NEW j \in Keys
      PROVE  stored'[x][j] >= stored[x][j]
  <2>1. CASE x = r /\ j = k
    BY <1>3, <2>1, StoredNat
  <2>2. CASE x # r \/ j # k
    BY <1>3, <2>2, StoredNat
  <2> QED
    BY <2>1, <2>2
<1>5. ReadsBacked'
  BY <1>2, <1>4, ReadsKeep
<1>6. /\ pub'[k].version = pub[k].version /\ pub'[k].wait = pub[k].wait \ {r}
      /\ pub'[k].ok = (pub[k].ok \/ ok)
      /\ \A j \in Keys : j # k => pub'[j] = pub[j]
  BY <1>1, <1>2
<1>7. ASSUME NEW j \in Keys, pub'[j].ok, pub'[j].version # 0
      PROVE  \E x \in Relays : stored'[x][j] >= pub'[j].version
  <2>1. pub'[j].version = pub[j].version
    BY <1>6
  <2>2. CASE pub[j].ok
    <3>1. PICK x \in Relays : stored[x][j] >= pub[j].version
      BY <1>7, <2>1, <2>2 DEF StoredInv, PubsBacked, Backed
    <3>2. stored'[x][j] >= stored[x][j] /\ stored[x][j] \in Nat /\ pub[j].version \in Nat
      BY <1>4, StoredNat
    <3>3. stored'[x][j] \in Nat
      BY VersionsNat DEF ClientInv, RelayTypes
    <3> QED
      BY <2>1, <3>1, <3>2, <3>3
  <2>3. CASE ~pub[j].ok
    <3>1. j = k /\ ok
      BY <1>6, <1>7, <2>3
    <3>2. stored'[r][k] = pub[k].version /\ pub[k].version \in Nat
      BY <1>1, <1>3, <3>1, StoredNat
    <3> QED
      BY <2>1, <3>1, <3>2
  <2> QED
    BY <2>2, <2>3
<1>8. ASSUME NEW j \in Keys, NEW x \in pub'[j].wait
      PROVE  stored'[x][j] <= pub'[j].version
  <2>1. x \in pub[j].wait /\ (x # r \/ j # k) /\ pub'[j].version = pub[j].version
    BY <1>6
  <2>2. x \in Relays
    BY <1>2, <2>1 DEF Pubs
  <2>3. stored'[x][j] = stored[x][j]
    BY <1>3, <2>1, <2>2
  <2> QED
    BY <2>1, <2>3 DEF StoredInv, PubsBacked
<1>9. PubsBacked'
  BY <1>7, <1>8 DEF PubsBacked, Backed
<1> QED
  BY <1>5, <1>9 DEF StoredInv

\* Only what some relay accepted is primed.
LEMMA EndsBacked ==
  ASSUME ClientInv, ClientInv', StoredInv, NEW k \in Keys, PublishEnds(k)
  PROVE  StoredInv'
<1>1. pub' = [pub EXCEPT ![k] = NoPub] /\ UNCHANGED <<query, stored>>
  BY DEF PublishEnds, pubFrame
<1>2. pub \in [Keys -> Pubs] /\ pub[k].version \in Versions /\ CacheTypes /\ Capped
  BY DEF ClientInv, RelayTypes, Pubs
<1>3. \A j \in Keys : \/ cache'[j] \in {0, cache[j]}
                      \/ pub[j].ok /\ cache'[j] = pub[j].version
  <2>1. CASE pub[k].ok
    <3>1. PICK new : new = [NoVersion EXCEPT ![k] = pub[k].version]
      OBVIOUS
    <3>2. new \in [Keys -> Versions] /\ new[k] = pub[k].version
          /\ \A j \in Keys : j # k => new[j] = 0
      BY <1>2, <3>1, Nothing DEF NoVersion
    <3>3. cache' \in Filled(new)
      BY <2>1, <3>1 DEF PublishEnds, Primed
    <3>4. \A j \in Keys : cache'[j] # 0 => cache'[j] = IF new[j] # 0 THEN new[j] ELSE cache[j]
      BY <1>2, <3>2, <3>3, Fills
    <3> QED
      BY <2>1, <3>2, <3>4
  <2>2. CASE ~pub[k].ok
    BY <2>2 DEF PublishEnds
  <2> QED
    BY <2>1, <2>2
<1>4. ReadsBacked'
  BY <1>1, <1>3, StoredNat, ReadsKeep
<1>5. PubsBacked'
  BY <1>1, <1>2, PubsKeep
<1> QED
  BY <1>4, <1>5 DEF StoredInv

LEMMA NextBacked == ClientInv /\ ClientInv' /\ StoredInv /\ [Next]_vars => StoredInv'
<1> SUFFICES ASSUME ClientInv, ClientInv', StoredInv, [Next]_vars PROVE StoredInv'
  OBVIOUS
<1>1. ASSUME NEW k \in Keys,
             \/ Load(k) \/ MissCools(k) \/ Clear(k) \/ Publish(k) \/ PublishEnds(k)
             \/ \E r \in Relays : PublishAnswers(k, r)
      PROVE  StoredInv'
  BY <1>1, RestBacked, ClearBacked, PublishBacked, EndsBacked, AnswersBacked
<1>2. ASSUME NEW s \in Slots, Dispatch(s) \/ NextTier(s) \/ Finish(s)
      PROVE  StoredInv'
  BY <1>2, TiersBacked, FinishBacked
<1>3. ASSUME NEW s \in Slots, NEW r \in Relays,
             \/ Connects(s, r) \/ ConnectFails(s, r) \/ Eose(s, r) \/ Closes(s, r)
             \/ RateLimited(s, r) \/ \E k \in Keys : Delivers(s, r, k)
      PROVE  StoredInv'
  BY <1>3, RequestsBacked, EoseBacked, LimitBacked, DeliversBacked
<1>4. ASSUME NEW r \in Relays, CooldownEnds(r)
      PROVE  StoredInv'
  BY <1>4, RestBacked
<1>5. CASE UNCHANGED vars
  BY <1>5, RestBacked
<1> QED
  BY <1>1, <1>2, <1>3, <1>4, <1>5 DEF Next

\* What a load is answered with from the cache is stored by some relay, in that version or
\* a newer one, whatever answers of relays are lost, refused or late: the write-through of
\* publishEvent installs nothing that every relay refused.
THEOREM CachedStoredCorrect == Spec => []CachedIsStored
<1>1. Init => StoredInv
  <2> SUFFICES ASSUME Init PROVE StoredInv
    OBVIOUS
  <2>1. /\ cache = NoVersion /\ query = [s \in Slots |-> NoQuery]
        /\ pub = [k \in Keys |-> NoPub] /\ NoQuery.got = NoVersion
    BY DEF Init, NoQuery
  <2> QED
    BY <2>1 DEF StoredInv, ReadsBacked, PubsBacked, Backed, NoVersion, NoPub
<1>2. StoredInv => CachedIsStored
  BY DEF StoredInv, ReadsBacked, Backed, CachedIsStored
<1> QED
  BY <1>1, <1>2, ClientInductive, NextBacked, PTL DEF Spec

=============================================================================

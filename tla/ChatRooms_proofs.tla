--------------------------- MODULE ChatRooms_proofs ---------------------------
(***************************************************************************)
(* Proofs about ChatRooms, for any instances and any number of calls in    *)
(* flight: its types, that without a demand source every room of the map   *)
(* has one listener, or one on its way, and that one call at a time leaves *)
(* no listener without a room.                                             *)
(***************************************************************************)
EXTENDS ChatRooms, FiniteSetTheorems, TLAPS

-----------------------------------------------------------------------------
(* The invariant *)

\* Types as in TypeOK.
RoomTypes ==
    /\ rooms \subseteq Urls /\ listener \in [Urls -> BOOLEAN] /\ tasks \in [Tasks -> Task]
    /\ boot \in {"refresh", "poll", "ready"} /\ \A u \in Urls : listener[u] => u \in rooms

EnvTypes ==
    /\ wanted \subseteq Urls /\ demanded \subseteq Urls /\ demandWired \in BOOLEAN
    /\ orphan \in BOOLEAN /\ stopped \in BOOLEAN

\* A call holds a room of the map only while it dials it.
Holds(q, rm) == q.held => q.at = "dial" /\ q.kind # "idle" /\ q.on \in rm
HeldInMap == \A t \in Tasks : Holds(tasks[t], rooms)

\* Nothing polls without a demand source.
PollsWired == ~demandWired => boot # "poll" /\ \A t \in Tasks : tasks[t].kind # "poll"

\* One listener, or one call that dials.
Once(D, heard) == IF heard THEN D = {} ELSE \E t \in Tasks : D = {t}
HeardOnce == ~demandWired => \A u \in rooms : Once(Dials(u), listener[u])

RoomsInv == RoomTypes /\ EnvTypes /\ HeldInMap /\ PollsWired /\ HeardOnce

LEMMA InvSuffices ==
  ASSUME RoomsInv
  PROVE  TypeOK /\ EagerRoomsHeardOnce
<1>1. TypeOK
  BY DEF RoomsInv, TypeOK, RoomTypes, EnvTypes
<1>2. EagerRoomsHeardOnce
  <2> SUFFICES ASSUME ~demandWired, NEW u \in rooms
               PROVE  Cardinality(Dials(u)) + (IF listener[u] THEN 1 ELSE 0) = 1
    BY DEF EagerRoomsHeardOnce
  <2>1. Once(Dials(u), listener[u])
    BY DEF RoomsInv, HeardOnce
  <2>2. CASE listener[u]
    <3>1. Cardinality(Dials(u)) = 0
      BY <2>1, <2>2, FS_EmptySet DEF Once
    <3> QED
      BY <2>2, <3>1
  <2>3. CASE ~listener[u]
    <3>1. Cardinality(Dials(u)) = 1
      BY <2>1, <2>3, FS_Singleton DEF Once
    <3> QED
      BY <2>3, <3>1
  <2> QED
    BY <2>2, <2>3
<1> QED
  BY <1>1, <1>2

LEMMA InitEstablishes == Init => RoomsInv
<1> SUFFICES ASSUME Init PROVE RoomsInv
  OBVIOUS
<1>1. PICK first \in Tasks : tasks = [t \in Tasks |->
           IF t = first THEN [Idle EXCEPT !.kind = "refresh"] ELSE Idle]
  BY DEF Init
<1>2. /\ Idle \in Task /\ [Idle EXCEPT !.kind = "refresh"] \in Task
      /\ ~Idle.held /\ ~[Idle EXCEPT !.kind = "refresh"].held
      /\ Idle.kind # "poll" /\ [Idle EXCEPT !.kind = "refresh"].kind # "poll"
  BY DEF Idle, Task
<1>3. tasks \in [Tasks -> Task] /\ \A t \in Tasks : ~tasks[t].held /\ tasks[t].kind # "poll"
  BY <1>1, <1>2
<1>4. RoomTypes /\ EnvTypes
  BY <1>3 DEF Init, RoomTypes, EnvTypes
<1>5. HeldInMap /\ PollsWired /\ HeardOnce
  BY <1>3 DEF Init, HeldInMap, Holds, PollsWired, HeardOnce
<1> QED
  BY <1>4, <1>5 DEF RoomsInv

-----------------------------------------------------------------------------
(* A call goes on *)

\* start() polls only with a demand source.
LEMMA Boots ==
  ASSUME NEW kind \in {"refresh", "poll"}, boot \in {"refresh", "poll", "ready"},
         ~demandWired => boot # "poll"
  PROVE  /\ BootAfter(kind) \in {"refresh", "poll", "ready"}
         /\ BootAfter(kind) = "poll" => demandWired
<1>1. CASE boot = "refresh" /\ kind = "refresh"
  <2>1. BootAfter(kind) = IF demandWired THEN "poll" ELSE "ready"
    BY <1>1 DEF BootAfter
  <2> QED
    BY <2>1
<1>2. CASE boot = "poll" /\ kind = "poll"
  <2>1. BootAfter(kind) = "ready"
    BY <1>2 DEF BootAfter
  <2> QED
    BY <2>1
<1>3. CASE ~(boot = "refresh" /\ kind = "refresh") /\ ~(boot = "poll" /\ kind = "poll")
  <2>1. BootAfter(kind) = boot
    BY <1>3 DEF BootAfter
  <2> QED
    BY <2>1
<1> QED
  BY <1>1, <1>2, <1>3

\* A call that returns holds nothing.
LEMMA Returned ==
  ASSUME NEW t \in Tasks, NEW others \in [Tasks -> Task], NEW kind \in {"refresh", "poll"},
         boot \in {"refresh", "poll", "ready"}, ~demandWired => boot # "poll",
         Return(t, others, kind)
  PROVE  /\ boot' \in {"refresh", "poll", "ready"} /\ (boot' = "poll" => demandWired)
         /\ tasks' \in [Tasks -> Task] /\ ~tasks'[t].held
         /\ (tasks'[t].kind = "poll" => demandWired)
         /\ \A q \in Tasks : q # t => tasks'[q] = others[q]
<1>1. /\ boot' \in {"refresh", "poll", "ready"} /\ (boot' = "poll" => demandWired)
  BY Boots DEF Return
<1> DEFINE polls == [Idle EXCEPT !.kind = "poll"]
           mine == IF boot # boot' /\ boot' = "poll" THEN polls ELSE Idle
<1>2. /\ Idle \in Task /\ polls \in Task /\ ~Idle.held /\ ~polls.held /\ Idle.kind # "poll"
  BY DEF Idle, Task
<1> HIDE DEF polls
<1>3. mine \in Task /\ ~mine.held /\ (mine.kind = "poll" => demandWired)
  BY <1>1, <1>2
<1>4. tasks' = [others EXCEPT ![t] = mine]
  BY DEF Return, polls
<1> HIDE DEF mine
<1> QED
  BY <1>1, <1>3, <1>4

\* A call that dials holds the room it dials.
LEMMA Dialled ==
  ASSUME NEW t \in Tasks, NEW others \in [Tasks -> Task], NEW r \in Task, NEW u \in Urls,
         NEW met \in SUBSET Urls, Dial(t, others, r, u, met)
  PROVE  /\ boot' = boot /\ tasks' \in [Tasks -> Task]
         /\ tasks'[t].held /\ tasks'[t].at = "dial" /\ tasks'[t].on = u
         /\ tasks'[t].kind = r.kind
         /\ \A q \in Tasks : q # t => tasks'[q] = others[q]
<1> DEFINE s == r.seen \cup met \cup {u}
           mine == [r EXCEPT !.at = "dial", !.on = u, !.held = TRUE, !.seen = s]
<1>1. s \in SUBSET Urls
  BY DEF Task
<1>2. tasks' = [others EXCEPT ![t] = mine] /\ boot' = boot
  BY DEF Dial
<1> HIDE DEF s
<1>3. /\ mine \in Task /\ mine.held /\ mine.at = "dial" /\ mine.on = u /\ mine.kind = r.kind
  BY <1>1 DEF Task
<1> HIDE DEF mine
<1> QED
  BY <1>2, <1>3

\* GoOn over any map and handles in which the other calls are in order.
LEMMA GoesOnKeeps ==
  ASSUME NEW t \in Tasks, NEW others \in [Tasks -> Task], NEW r \in Task,
         r.kind \in {"refresh", "poll"}, NEW rm \in SUBSET Urls, NEW ls \in [Urls -> BOOLEAN],
         \A u \in Urls : ls[u] => u \in rm,
         boot \in {"refresh", "poll", "ready"}, ~demandWired => boot # "poll",
         \A q \in Tasks : q # t => Holds(others[q], rm),
         ~demandWired => r.kind # "poll" /\ \A q \in Tasks : q # t => others[q].kind # "poll",
         ~demandWired =>
            \A u \in rm : Once({q \in Tasks : q # t /\ others[q].on = u /\ others[q].held}, ls[u]),
         GoOn(t, others, r, rm, ls), demandWired' = demandWired
  PROVE  RoomTypes' /\ HeldInMap' /\ PollsWired' /\ HeardOnce'
<1> DEFINE Other(u) == {q \in Tasks : q # t /\ others[q].on = u /\ others[q].held}
<1>1. listener' = ls /\ r.urls \subseteq Urls
  BY DEF GoOn, Task
<1>2. ASSUME NEW kind \in {"refresh", "poll"}, Return(t, others, kind),
             \/ rooms' = rm
             \/ demandWired /\ rooms' = rm \cup r.urls
      PROVE  RoomTypes' /\ HeldInMap' /\ PollsWired' /\ HeardOnce'
  <2>1. /\ boot' \in {"refresh", "poll", "ready"} /\ (boot' = "poll" => demandWired)
        /\ tasks' \in [Tasks -> Task] /\ ~tasks'[t].held
        /\ (tasks'[t].kind = "poll" => demandWired)
        /\ \A q \in Tasks : q # t => tasks'[q] = others[q]
    BY <1>2, Returned
  <2>2. rm \subseteq rooms' /\ rooms' \subseteq Urls
    BY <1>1, <1>2
  <2>3. RoomTypes'
    BY <1>1, <2>1, <2>2 DEF RoomTypes
  <2>4. HeldInMap'
    BY <2>1, <2>2 DEF HeldInMap, Holds
  <2>5. PollsWired'
    BY <2>1 DEF PollsWired
  <2>6. HeardOnce'
    <3> SUFFICES ASSUME ~demandWired, NEW u \in rm
                 PROVE  Once(Dials(u)', listener'[u])
      BY <1>2 DEF HeardOnce, Once
    <3>1. Dials(u)' = Other(u)
      BY <2>1 DEF Dials
    <3> QED
      BY <1>1, <3>1
  <2> QED
    BY <2>3, <2>4, <2>5, <2>6
<1>3. ASSUME NEW u \in Urls, NEW met \in SUBSET Urls, Dial(t, others, r, u, met),
             rooms' = rm \cup {u}, ~demandWired => u \notin rm
      PROVE  RoomTypes' /\ HeldInMap' /\ PollsWired' /\ HeardOnce'
  <2>1. /\ boot' = boot /\ tasks' \in [Tasks -> Task]
        /\ tasks'[t].held /\ tasks'[t].at = "dial" /\ tasks'[t].on = u
        /\ tasks'[t].kind = r.kind
        /\ \A q \in Tasks : q # t => tasks'[q] = others[q]
    BY <1>3, Dialled
  <2>2. RoomTypes'
    BY <1>1, <1>3, <2>1 DEF RoomTypes
  <2>3. HeldInMap'
    BY <1>3, <2>1 DEF HeldInMap, Holds
  <2>4. PollsWired'
    BY <2>1 DEF PollsWired
  <2>5. HeardOnce'
    <3> SUFFICES ASSUME ~demandWired, NEW v \in rm \cup {u}
                 PROVE  Once(Dials(v)', listener'[v])
      BY <1>3 DEF HeardOnce, Once
    <3>1. CASE v = u
      <4>1. ~ls[u]
        BY <1>3
      <4>2. Dials(u)' = {t}
        BY <1>3, <2>1 DEF Dials, Holds
      <4> QED
        BY <1>1, <3>1, <4>1, <4>2 DEF Once
    <3>2. CASE v # u
      <4>1. Dials(v)' = Other(v)
        BY <2>1, <3>2 DEF Dials
      <4> QED
        BY <1>1, <3>2, <4>1
    <3> QED
      BY <3>1, <3>2
  <2> QED
    BY <2>2, <2>3, <2>4, <2>5
<1>4. CASE r.kind = "refresh" /\ demandWired
  BY <1>2, <1>4 DEF GoOn
<1>5. CASE r.kind = "refresh" /\ ~demandWired
  <2>1. CASE Missing(r, rm) = {}
    BY <1>2, <1>5, <2>1 DEF GoOn
  <2>2. CASE Missing(r, rm) # {}
    <3>1. PICK u \in Missing(r, rm), met \in SUBSET ((r.urls \ r.seen) \cap rm) :
            rooms' = rm \cup {u} /\ Dial(t, others, r, u, met)
      BY <1>5, <2>2 DEF GoOn
    <3>2. u \in Urls /\ met \in SUBSET Urls /\ u \notin rm
      BY <1>1, <3>1 DEF Missing
    <3> QED
      BY <1>3, <3>1, <3>2
  <2> QED
    BY <2>1, <2>2
<1>6. CASE r.kind = "poll"
  <2>1. demandWired /\ rooms' = rm
    BY <1>6 DEF GoOn
  <2>2. CASE Undialled(r, rm, ls) = {}
    BY <1>2, <1>6, <2>1, <2>2 DEF GoOn
  <2>3. CASE Undialled(r, rm, ls) # {}
    <3>1. PICK u \in Undialled(r, rm, ls), met \in SUBSET ((rm \ r.seen) \ Undialled(r, rm, ls)) :
            Dial(t, others, r, u, met)
      BY <1>6, <2>3 DEF GoOn
    <3>2. u \in Urls /\ met \in SUBSET Urls /\ rooms' = rm \cup {u}
      BY <2>1, <3>1 DEF Undialled
    <3> QED
      BY <1>3, <2>1, <3>1, <3>2
  <2> QED
    BY <2>2, <2>3
<1> QED
  BY <1>4, <1>5, <1>6

\* The other calls keep all but their hold on the rooms that went.
LEMMA Forgotten ==
  ASSUME tasks \in [Tasks -> Task], NEW gone \in SUBSET Urls
  PROVE  /\ Forget(gone) \in [Tasks -> Task]
         /\ \A q \in Tasks : /\ Forget(gone)[q].kind = tasks[q].kind
                             /\ Forget(gone)[q].at = tasks[q].at
                             /\ Forget(gone)[q].on = tasks[q].on
                             /\ Forget(gone)[q].held <=> tasks[q].held /\ tasks[q].on \notin gone
<1>1. ASSUME NEW q \in Tasks
      PROVE  /\ Forget(gone)[q] \in Task
             /\ Forget(gone)[q].kind = tasks[q].kind /\ Forget(gone)[q].at = tasks[q].at
             /\ Forget(gone)[q].on = tasks[q].on
             /\ Forget(gone)[q].held <=> tasks[q].held /\ tasks[q].on \notin gone
  <2> DEFINE c == tasks[q]
             h == c.held /\ c.on \notin gone
             s == IF c.kind = "poll" THEN c.seen \ gone ELSE c.seen
  <2>1. c \in Task /\ h \in BOOLEAN /\ s \in SUBSET Urls
    BY DEF Task
  <2>2. Forget(gone)[q] = [c EXCEPT !.held = h, !.seen = s]
    BY DEF Forget
  <2> HIDE DEF c, s
  <2>3. Forget(gone)[q] = [kind |-> c.kind, at |-> c.at, urls |-> c.urls, seen |-> s,
                           on |-> c.on, held |-> h]
    BY <2>1, <2>2 DEF Task
  <2>4. /\ Forget(gone)[q] \in Task
        /\ Forget(gone)[q].kind = c.kind /\ Forget(gone)[q].at = c.at
        /\ Forget(gone)[q].on = c.on /\ Forget(gone)[q].held = h
    BY <2>1, <2>3 DEF Task
  <2> QED
    BY <2>4 DEF c
<1>2. Forget(gone) = [q \in Tasks |-> Forget(gone)[q]]
  BY DEF Forget
<1>3. Forget(gone) \in [Tasks -> Task]
  BY <1>1, <1>2
<1> QED
  BY <1>1, <1>3

-----------------------------------------------------------------------------
(* Steps *)

\* A step that replaces one call by one that holds nothing.
LEMMA CallKeeps ==
  ASSUME RoomsInv, NEW t \in Tasks, ~tasks[t].held, NEW c \in Task, ~c.held,
         c.kind = "poll" => demandWired, tasks' = [tasks EXCEPT ![t] = c],
         UNCHANGED <<wanted, demanded, demandWired, boot, rooms, listener, orphan, stopped>>
  PROVE  RoomsInv'
<1> USE DEF RoomsInv
<1>1. /\ tasks' \in [Tasks -> Task] /\ tasks'[t] = c
      /\ \A q \in Tasks : q # t => tasks'[q] = tasks[q]
  BY DEF RoomTypes
<1>2. RoomTypes' /\ EnvTypes'
  BY <1>1 DEF RoomTypes, EnvTypes
<1>3. HeldInMap' /\ PollsWired'
  BY <1>1 DEF HeldInMap, Holds, PollsWired
<1>4. ASSUME NEW u \in Urls
      PROVE  Dials(u)' = Dials(u)
  BY <1>1 DEF Dials
<1>5. HeardOnce'
  BY <1>4 DEF HeardOnce, RoomTypes
<1> QED
  BY <1>2, <1>3, <1>5

\* A timer calls, or a query is answered.
LEMMA TimersKeep ==
  ASSUME RoomsInv, NEW t \in Tasks, RefreshTick(t) \/ DemandTick(t) \/ Answer(t)
  PROVE  RoomsInv'
<1>1. ASSUME NEW kind \in {"refresh", "poll"}, Call(t, kind), kind = "poll" => demandWired
      PROVE  RoomsInv'
  <2> DEFINE c == [Idle EXCEPT !.kind = kind]
  <2>1. c \in Task /\ ~c.held /\ c.kind = kind
    BY DEF Idle, Task
  <2>2. ~tasks[t].held
    BY <1>1 DEF RoomsInv, HeldInMap, Holds, Call, Free
  <2>3. tasks' = [tasks EXCEPT ![t] = c]
        /\ UNCHANGED <<wanted, demanded, demandWired, boot, rooms, listener, orphan, stopped>>
    BY <1>1 DEF Call, envVars, roomVars
  <2> HIDE DEF c
  <2> QED
    BY <1>1, <2>1, <2>2, <2>3, CallKeeps
<1>2. CASE RefreshTick(t) \/ DemandTick(t)
  BY <1>1, <1>2 DEF RefreshTick, DemandTick
<1>3. CASE Answer(t)
  <2> DEFINE urls == IF tasks[t].kind = "refresh" THEN listChatRooms ELSE fetchDemandedATags
             c == [tasks[t] EXCEPT !.at = "answer", !.urls = urls]
  <2>1. urls \subseteq Urls
    BY DEF RoomsInv, EnvTypes, listChatRooms, fetchDemandedATags
  <2>2. tasks[t] \in Task /\ ~tasks[t].held
    BY <1>3 DEF RoomsInv, RoomTypes, HeldInMap, Holds, Answer
  <2>3. tasks' = [tasks EXCEPT ![t] = c]
        /\ UNCHANGED <<wanted, demanded, demandWired, boot, rooms, listener, orphan, stopped>>
    <3>1. tasks \in [Tasks -> Task] /\ tasks' = [tasks EXCEPT ![t].at = "answer", ![t].urls = urls]
      BY <1>3 DEF RoomsInv, RoomTypes, Answer
    <3>2. UNCHANGED <<wanted, demanded, demandWired, boot, rooms, listener, orphan, stopped>>
      BY <1>3 DEF Answer, envVars, roomVars
    <3> HIDE DEF urls
    <3> QED
      BY <3>1, <3>2
  <2> HIDE DEF urls
  <2>4. c \in Task /\ ~c.held /\ c.kind = tasks[t].kind
    BY <2>1, <2>2 DEF Task
  <2>5. c.kind = "poll" => demandWired
    BY <2>4 DEF RoomsInv, PollsWired
  <2> HIDE DEF c
  <2> QED
    BY <2>2, <2>3, <2>4, <2>5, CallKeeps
<1> QED
  BY <1>2, <1>3

\* A query is rejected and the call with it.
LEMMA RejectKeeps ==
  ASSUME RoomsInv, NEW t \in Tasks, Reject(t)
  PROVE  RoomsInv'
<1> USE DEF RoomsInv
<1>1. ~tasks[t].held /\ tasks[t].kind \in {"refresh", "poll"}
  BY DEF Reject, Free, HeldInMap, Holds, RoomTypes, Task
<1>2. /\ Return(t, tasks, tasks[t].kind)
      /\ UNCHANGED <<wanted, demanded, demandWired, rooms, listener, orphan, stopped>>
  BY DEF Reject, envVars, roomVars
<1>3. /\ boot' \in {"refresh", "poll", "ready"} /\ (boot' = "poll" => demandWired)
      /\ tasks' \in [Tasks -> Task] /\ ~tasks'[t].held
      /\ (tasks'[t].kind = "poll" => demandWired)
      /\ \A q \in Tasks : q # t => tasks'[q] = tasks[q]
  BY <1>1, <1>2, Returned DEF RoomTypes, PollsWired
<1>4. RoomTypes' /\ EnvTypes'
  BY <1>2, <1>3 DEF RoomTypes, EnvTypes
<1>5. HeldInMap' /\ PollsWired'
  BY <1>2, <1>3 DEF HeldInMap, Holds, PollsWired
<1>6. ASSUME NEW u \in Urls
      PROVE  Dials(u)' = Dials(u)
  BY <1>1, <1>3 DEF Dials
<1>7. HeardOnce'
  BY <1>2, <1>6 DEF HeardOnce, RoomTypes
<1> QED
  BY <1>4, <1>5, <1>7

\* refreshRooms closes what the rows do not name, then opens.
LEMMA ReconcileKeeps ==
  ASSUME RoomsInv, NEW t \in Tasks, Reconcile(t)
  PROVE  RoomsInv'
<1> USE DEF RoomsInv
<1> DEFINE r == tasks[t]
           gone == rooms \ r.urls
           others == Forget(gone)
           rm == rooms \ gone
           ls == [u \in Urls |-> listener[u] /\ u \notin gone]
<1>1. r.kind = "refresh" /\ r.at = "answer" /\ r \in Task /\ ~r.held
  BY DEF Reconcile, RoomTypes, HeldInMap, Holds
<1>2. gone \in SUBSET Urls /\ rm \in SUBSET Urls /\ gone \subseteq rooms
  BY DEF RoomTypes
<1>3. ls \in [Urls -> BOOLEAN] /\ \A u \in Urls : ls[u] <=> listener[u] /\ u \notin gone
  BY DEF RoomTypes
<1>4. GoOn(t, others, r, rm, ls) /\ UNCHANGED <<envVars, orphan, stopped>>
  BY DEF Reconcile
<1>5. demandWired' = demandWired /\ EnvTypes'
  BY <1>4 DEF envVars, EnvTypes
<1> HIDE DEF gone, ls
<1>6. /\ others \in [Tasks -> Task]
      /\ \A q \in Tasks : /\ others[q].kind = tasks[q].kind
                          /\ others[q].at = tasks[q].at
                          /\ others[q].on = tasks[q].on
                          /\ others[q].held <=> tasks[q].held /\ tasks[q].on \notin gone
  BY <1>2, Forgotten DEF RoomTypes
<1> HIDE DEF others, rm
<1>7. /\ \A u \in Urls : ls[u] => u \in rm
      /\ \A q \in Tasks : q # t => Holds(others[q], rm)
  BY <1>3, <1>6 DEF rm, RoomTypes, HeldInMap, Holds
<1>8. ~demandWired => r.kind # "poll" /\ \A q \in Tasks : q # t => others[q].kind # "poll"
  BY <1>1, <1>6 DEF PollsWired
<1>9. ASSUME ~demandWired, NEW u \in rm
      PROVE  Once({q \in Tasks : q # t /\ others[q].on = u /\ others[q].held}, ls[u])
  <2>1. u \in rooms /\ u \notin gone /\ u \in Urls
    BY <1>2 DEF rm
  <2>2. {q \in Tasks : q # t /\ others[q].on = u /\ others[q].held} = Dials(u)
    BY <1>1, <1>6, <2>1 DEF Dials
  <2>3. Once(Dials(u), listener[u])
    BY <1>9, <2>1 DEF HeardOnce
  <2> QED
    BY <1>3, <2>1, <2>2, <2>3 DEF Once
<1>10. RoomTypes' /\ HeldInMap' /\ PollsWired' /\ HeardOnce'
  <2>1. boot \in {"refresh", "poll", "ready"} /\ (~demandWired => boot # "poll")
    BY DEF RoomTypes, PollsWired
  <2>2. rm \in SUBSET Urls /\ r.kind \in {"refresh", "poll"}
    BY <1>1, <1>2 DEF rm
  <2>3. ls \in [Urls -> BOOLEAN] /\ demandWired' = demandWired /\ GoOn(t, others, r, rm, ls)
    BY <1>3, <1>4, <1>5 DEF others, rm
  <2> HIDE DEF r, RoomsInv
  <2> QED
    BY <1>1, <1>6, <1>7, <1>8, <1>9, <2>1, <2>2, <2>3, GoesOnKeeps
<1> QED
  BY <1>5, <1>10

\* pollDemand dials what is asked for, over the map as it is.
LEMMA SweepKeeps ==
  ASSUME RoomsInv, NEW t \in Tasks, Sweep(t)
  PROVE  RoomsInv'
<1> USE DEF RoomsInv
<1>1. tasks[t].kind = "poll" /\ tasks[t].at = "answer" /\ tasks[t] \in Task /\ ~tasks[t].held
  BY DEF Sweep, RoomTypes, HeldInMap, Holds
<1>2. GoOn(t, tasks, tasks[t], rooms, listener) /\ UNCHANGED <<envVars, orphan, stopped>>
  BY DEF Sweep
<1>3. demandWired /\ demandWired' = demandWired /\ EnvTypes'
  BY <1>1, <1>2 DEF envVars, EnvTypes, PollsWired
<1>4. /\ rooms \in SUBSET Urls /\ listener \in [Urls -> BOOLEAN] /\ tasks \in [Tasks -> Task]
      /\ \A u \in Urls : listener[u] => u \in rooms
      /\ \A q \in Tasks : q # t => Holds(tasks[q], rooms)
      /\ boot \in {"refresh", "poll", "ready"}
  BY DEF RoomTypes, HeldInMap
<1>5. RoomTypes' /\ HeldInMap' /\ PollsWired' /\ HeardOnce'
  <2> HIDE DEF RoomsInv
  <2> QED
    BY <1>1, <1>2, <1>3, <1>4, GoesOnKeeps
<1> QED
  BY <1>3, <1>5

\* openListener resolves: the room that held the call has its listener now.
LEMMA ListenerUpKeeps ==
  ASSUME RoomsInv, NEW t \in Tasks, ListenerUp(t)
  PROVE  RoomsInv'
<1> USE DEF RoomsInv
<1> DEFINE r == tasks[t]
           u == r.on
           ls == IF r.held THEN [listener EXCEPT ![u] = TRUE] ELSE listener
           Other(v) == {q \in Tasks : q # t /\ tasks[q].on = v /\ tasks[q].held}
<1>1. r \in Task /\ r.kind \in {"refresh", "poll"} /\ (r.held => u \in rooms)
  BY DEF ListenerUp, Free, RoomTypes, HeldInMap, Holds, Task
<1>2. GoOn(t, tasks, r, rooms, ls) /\ UNCHANGED <<envVars, stopped>>
  BY DEF ListenerUp
<1>3. demandWired' = demandWired
  BY <1>2 DEF envVars
<1>4. EnvTypes'
  <2>1. LeavesOrphan(t) \in BOOLEAN
    BY DEF LeavesOrphan
  <2>2. orphan' = (orphan \/ LeavesOrphan(t))
    BY DEF ListenerUp
  <2>3. orphan' \in BOOLEAN
    BY <2>2
  <2> QED
    BY <1>2, <2>3 DEF envVars, EnvTypes
<1>5. /\ rooms \in SUBSET Urls /\ listener \in [Urls -> BOOLEAN] /\ tasks \in [Tasks -> Task]
      /\ \A v \in Urls : listener[v] => v \in rooms
      /\ \A q \in Tasks : q # t => Holds(tasks[q], rooms)
      /\ boot \in {"refresh", "poll", "ready"} /\ (~demandWired => boot # "poll")
      /\ (~demandWired => r.kind # "poll" /\ \A q \in Tasks : q # t => tasks[q].kind # "poll")
  BY DEF RoomTypes, HeldInMap, PollsWired
<1>6. /\ ls \in [Urls -> BOOLEAN] /\ \A v \in Urls : ls[v] => v \in rooms
      /\ (r.held => ls[u]) /\ \A v \in Urls : v # u \/ ~r.held => ls[v] = listener[v]
  BY <1>1, <1>5
<1>7. ASSUME ~demandWired, NEW v \in rooms
      PROVE  Once(Other(v), ls[v])
  <2>1. Once(Dials(v), listener[v]) /\ v \in Urls
    BY <1>7 DEF HeardOnce, RoomTypes
  <2>2. CASE r.held /\ v = u
    <3>1. t \in Dials(v)
      BY <2>2 DEF Dials
    <3>2. Dials(v) = {t}
      BY <2>1, <3>1 DEF Once
    <3>3. Other(v) = {}
      BY <3>2 DEF Dials
    <3> QED
      BY <1>6, <2>2, <3>3 DEF Once
  <2>3. CASE ~(r.held /\ v = u)
    <3>1. Other(v) = Dials(v)
      BY <2>3 DEF Dials
    <3>2. ls[v] = listener[v]
      BY <1>6, <2>1, <2>3
    <3> QED
      BY <2>1, <3>1, <3>2
  <2> QED
    BY <2>2, <2>3
<1>8. RoomTypes' /\ HeldInMap' /\ PollsWired' /\ HeardOnce'
  <2> HIDE DEF RoomsInv, ls, r
  <2> QED
    BY <1>1, <1>2, <1>3, <1>5, <1>6, <1>7, GoesOnKeeps
<1> QED
  BY <1>4, <1>8

\* stop() leaves no room.
LEMMA StopKeeps ==
  ASSUME RoomsInv, Stop
  PROVE  RoomsInv'
<1> USE DEF RoomsInv, Stop
<1>1. UNCHANGED <<wanted, demanded, demandWired, boot, orphan>>
  BY DEF envVars
<1>2. /\ tasks' \in [Tasks -> Task]
      /\ \A q \in Tasks : /\ tasks'[q].kind = tasks[q].kind
                          /\ tasks'[q].held <=> tasks[q].held /\ tasks[q].on \notin rooms
  BY Forgotten DEF RoomTypes
<1>3. RoomTypes' /\ EnvTypes'
  BY <1>1, <1>2 DEF RoomTypes, EnvTypes
<1>4. HeldInMap' /\ PollsWired'
  BY <1>1, <1>2 DEF HeldInMap, Holds, PollsWired
<1>5. HeardOnce'
  BY DEF HeardOnce
<1> QED
  BY <1>3, <1>4, <1>5

\* Rows and viewers come and go; or nothing happens.
LEMMA WorldKeeps ==
  ASSUME RoomsInv, SetChat \/ RowChanges \/ DemandChanges \/ UNCHANGED vars
  PROVE  RoomsInv'
<1> USE DEF RoomsInv
<1>1. /\ UNCHANGED <<demandWired, boot, rooms, listener, orphan, tasks, stopped>>
      /\ wanted' \subseteq Urls /\ demanded' \subseteq Urls
  BY DEF SetChat, RowChanges, DemandChanges, EnvTypes, vars, envVars, roomVars
<1>2. RoomTypes' /\ EnvTypes' /\ HeldInMap' /\ PollsWired' /\ HeardOnce'
  BY <1>1 DEF RoomTypes, EnvTypes, HeldInMap, PollsWired, HeardOnce, Dials
<1> QED
  BY <1>2

-----------------------------------------------------------------------------
(* One call at a time *)

\* Inductive form of NoOrphanListener where no two calls are in flight: until stop(), the
\* room that is dialled is in the map and has no handle yet.
DialIsOwn(t) == tasks[t].at = "dial" => tasks[t].held /\ ~listener[tasks[t].on]
Serial(t) == ~stopped => ~orphan /\ DialIsOwn(t)

\* A call that goes on dials a room of the map without a handle.
LEMMA GoesOnAlone ==
  ASSUME NEW t \in Tasks, NEW others \in [Tasks -> Task], NEW r \in Task,
         r.kind \in {"refresh", "poll"}, NEW rm \in SUBSET Urls, NEW ls \in [Urls -> BOOLEAN],
         \A u \in Urls : ls[u] => u \in rm, GoOn(t, others, r, rm, ls)
  PROVE  DialIsOwn(t)'
<1>1. listener' = ls /\ r.urls \subseteq Urls
  BY DEF GoOn, Task
<1>2. ASSUME NEW kind, Return(t, others, kind) PROVE DialIsOwn(t)'
  <2>1. tasks'[t] \in {Idle, [Idle EXCEPT !.kind = "poll"]}
    BY <1>2 DEF Return
  <2>2. tasks'[t].at = "query"
    BY <2>1 DEF Idle
  <2> QED
    BY <2>2 DEF DialIsOwn
<1>3. ASSUME NEW u \in Urls, NEW met \in SUBSET Urls, Dial(t, others, r, u, met), ~ls[u]
      PROVE  DialIsOwn(t)'
  <2>1. tasks'[t].held /\ tasks'[t].on = u
    BY <1>3, Dialled
  <2> QED
    BY <1>1, <1>3, <2>1 DEF DialIsOwn
<1>4. CASE r.kind = "refresh" /\ ~demandWired /\ Missing(r, rm) # {}
  <2>1. PICK u \in Missing(r, rm), met \in SUBSET ((r.urls \ r.seen) \cap rm) :
          Dial(t, others, r, u, met)
    BY <1>4 DEF GoOn
  <2>2. u \in Urls /\ met \in SUBSET Urls /\ ~ls[u]
    BY <1>1, <2>1 DEF Missing
  <2> QED
    BY <1>3, <2>1, <2>2
<1>5. CASE r.kind = "poll" /\ Undialled(r, rm, ls) # {}
  <2>1. PICK u \in Undialled(r, rm, ls), met \in SUBSET ((rm \ r.seen) \ Undialled(r, rm, ls)) :
          Dial(t, others, r, u, met)
    BY <1>5 DEF GoOn
  <2>2. u \in Urls /\ met \in SUBSET Urls /\ ~ls[u]
    BY <2>1 DEF Undialled
  <2> QED
    BY <1>3, <2>1, <2>2
<1>6. CASE \E kind : Return(t, others, kind)
  BY <1>2, <1>6
<1> QED
  BY <1>4, <1>5, <1>6 DEF GoOn

LEMMA SerialKeeps ==
  ASSUME NEW t \in Tasks, Tasks = {t}, RoomsInv, Serial(t), [Next]_vars
  PROVE  Serial(t)'
<1> USE DEF Serial, RoomsInv
<1>1. /\ rooms \in SUBSET Urls /\ listener \in [Urls -> BOOLEAN] /\ tasks \in [Tasks -> Task]
      /\ tasks[t] \in Task /\ (tasks[t].at = "dial" /\ tasks[t].held => tasks[t].on \in rooms)
      /\ \A v \in Urls : listener[v] => v \in rooms
  BY DEF RoomTypes, HeldInMap, Holds
<1>2. ASSUME RefreshTick(t) \/ DemandTick(t) \/ Answer(t) PROVE Serial(t)'
  <2>1. UNCHANGED <<listener, orphan, stopped>>
    BY <1>2 DEF RefreshTick, DemandTick, Call, Answer, roomVars
  <2>2. tasks'[t].at \in {"query", "answer"}
    <3>1. CASE Answer(t)
      <4>1. PICK a : tasks' = [tasks EXCEPT ![t].at = "answer", ![t].urls = a]
        BY <3>1 DEF Answer
      <4>2. tasks'[t] = [tasks[t] EXCEPT !.at = "answer", !.urls = a]
        BY <1>1, <4>1
      <4> QED
        BY <1>1, <4>2 DEF Task
    <3>2. CASE RefreshTick(t) \/ DemandTick(t)
      <4>1. \E kind : tasks'[t] = [Idle EXCEPT !.kind = kind]
        BY <1>1, <3>2 DEF RefreshTick, DemandTick, Call
      <4> QED
        BY <4>1 DEF Idle
    <3> QED
      BY <1>2, <3>1, <3>2
  <2> QED
    BY <2>1, <2>2 DEF DialIsOwn
<1>3. ASSUME Reject(t) PROVE Serial(t)'
  <2>1. UNCHANGED <<listener, orphan, stopped>>
    BY <1>3 DEF Reject, roomVars
  <2>2. tasks'[t] \in {Idle, [Idle EXCEPT !.kind = "poll"]}
    BY <1>1, <1>3 DEF Reject, Return
  <2>3. tasks'[t].at = "query"
    BY <2>2 DEF Idle
  <2> QED
    BY <2>1, <2>3 DEF DialIsOwn
<1>4. ASSUME Reconcile(t) PROVE Serial(t)'
  <2> DEFINE gone == rooms \ tasks[t].urls
             left == rooms \ gone
             ls == [u \in Urls |-> listener[u] /\ u \notin gone]
             others == Forget(gone)
  <2>1. /\ GoOn(t, others, tasks[t], left, ls) /\ UNCHANGED <<orphan, stopped>>
        /\ tasks[t].kind \in {"refresh", "poll"}
    BY <1>4 DEF Reconcile
  <2>2. others \in [Tasks -> Task]
    BY <1>1, Forgotten
  <2>3. left \in SUBSET Urls /\ ls \in [Urls -> BOOLEAN] /\ \A u \in Urls : ls[u] => u \in left
    BY <1>1
  <2>4. DialIsOwn(t)'
    <3> HIDE DEF others, left, ls, Serial, RoomsInv
    <3> QED
      BY <1>1, <2>1, <2>2, <2>3, GoesOnAlone
  <2> QED
    BY <2>1, <2>4
<1>5. ASSUME Sweep(t) PROVE Serial(t)'
  <2>1. /\ GoOn(t, tasks, tasks[t], rooms, listener) /\ UNCHANGED <<orphan, stopped>>
        /\ tasks[t].kind \in {"refresh", "poll"}
    BY <1>5 DEF Sweep
  <2>2. DialIsOwn(t)'
    BY <1>1, <2>1, GoesOnAlone
  <2> QED
    BY <2>1, <2>2
\* The handle goes to a room that had none.
<1>6. ASSUME ListenerUp(t) PROVE Serial(t)'
  <2> DEFINE u == tasks[t].on
             ls == IF tasks[t].held THEN [listener EXCEPT ![u] = TRUE] ELSE listener
  <2>1. /\ GoOn(t, tasks, tasks[t], rooms, ls) /\ stopped' = stopped
        /\ orphan' = (orphan \/ LeavesOrphan(t)) /\ tasks[t].at = "dial"
        /\ tasks[t].kind \in {"refresh", "poll"}
    BY <1>1, <1>6 DEF ListenerUp, Free, Task
  <2>2. ls \in [Urls -> BOOLEAN] /\ \A v \in Urls : ls[v] => v \in rooms
    BY <1>1, <2>1
  <2>3. DialIsOwn(t)'
    <3> HIDE DEF ls, Serial, RoomsInv
    <3> QED
      BY <1>1, <2>1, <2>2, GoesOnAlone
  <2>4. ~stopped => ~orphan'
    BY <2>1 DEF LeavesOrphan, DialIsOwn
  <2> QED
    BY <2>1, <2>3, <2>4
<1>7. CASE Stop
  BY <1>7 DEF Stop
<1>8. CASE SetChat \/ RowChanges \/ DemandChanges \/ UNCHANGED vars
  <2>1. UNCHANGED <<listener, orphan, tasks, stopped>>
    BY <1>8 DEF SetChat, RowChanges, DemandChanges, vars, roomVars
  <2> QED
    BY <2>1 DEF DialIsOwn
<1> QED
  BY <1>2, <1>3, <1>4, <1>5, <1>6, <1>7, <1>8 DEF Next

-----------------------------------------------------------------------------
(* Theorems *)

LEMMA RoomsInductive == Spec => []RoomsInv
<1>1. Init => RoomsInv
  BY InitEstablishes
<1>2. RoomsInv /\ [Next]_vars => RoomsInv'
  <2> SUFFICES ASSUME RoomsInv, [Next]_vars PROVE RoomsInv'
    OBVIOUS
  <2>1. ASSUME NEW t \in Tasks,
               \/ RefreshTick(t) \/ DemandTick(t) \/ Answer(t) \/ Reject(t)
               \/ Reconcile(t) \/ Sweep(t) \/ ListenerUp(t)
        PROVE  RoomsInv'
    BY <2>1, TimersKeep, RejectKeeps, ReconcileKeeps, SweepKeeps, ListenerUpKeeps
  <2>2. CASE Stop
    BY <2>2, StopKeeps
  <2>3. CASE SetChat \/ RowChanges \/ DemandChanges \/ UNCHANGED vars
    BY <2>3, WorldKeeps
  <2> QED
    BY <2>1, <2>2, <2>3 DEF Next
<1> QED
  BY <1>1, <1>2, PTL DEF Spec

\* Every variable keeps its type, and a listener handle is only ever set for a room of the
\* map, whatever calls of refreshRooms and pollDemand overlap.
THEOREM RoomsTypeCorrect == Spec => []TypeOK
<1>1. RoomsInv => TypeOK
  BY InvSuffices
<1> QED
  BY <1>1, RoomsInductive, PTL

\* Without a demand source, however many refreshRooms calls overlap, each room of the map
\* has one listener, or exactly one call on its way to give it one (startListener).
THEOREM EagerCorrect == Spec => []EagerRoomsHeardOnce
<1>1. RoomsInv => EagerRoomsHeardOnce
  BY InvSuffices
<1> QED
  BY <1>1, RoomsInductive, PTL

\* Overlapping calls are all there is to the listeners that refreshRooms and pollDemand
\* lose (startListener): where no two of them are in flight at once, none runs that no room
\* owns, whatever rows and viewers change while a room is dialled.
THEOREM SerialCorrect ==
  ASSUME NEW t \in Tasks, Tasks = {t}
  PROVE  Spec => []NoOrphanListener
<1>1. Init => Serial(t)
  <2> SUFFICES ASSUME Init PROVE Serial(t)
    OBVIOUS
  <2>1. tasks[t] \in {Idle, [Idle EXCEPT !.kind = "refresh"]}
    BY DEF Init
  <2>2. tasks[t].at = "query"
    BY <2>1 DEF Idle
  <2> QED
    BY <2>2 DEF Init, Serial, DialIsOwn
<1>2. RoomsInv /\ Serial(t) /\ [Next]_vars => Serial(t)'
  BY SerialKeeps
<1>3. Serial(t) => NoOrphanListener
  BY DEF Serial, NoOrphanListener
<1> QED
  BY <1>1, <1>2, <1>3, RoomsInductive, PTL DEF Spec

=============================================================================

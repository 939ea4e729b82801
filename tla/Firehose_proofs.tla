---------------------------- MODULE Firehose_proofs ----------------------------
(***************************************************************************)
(* Proofs about Firehose, for any network relays and any limits of the      *)
(* watchdog: its types, that nothing survives stop(), that the watchdog     *)
(* replaces a deaf firehose and keeps one that hears, and that the network  *)
(* watcher does not lose its last relay unseen.                             *)
(***************************************************************************)
EXTENDS Firehose, FiniteSetTheorems, TLAPS

-----------------------------------------------------------------------------
(* Subscriptions *)

\* Subscriptions over the relays R: Local!Subs and Net!Subs are two cases.
SubsOf(R) == [held : BOOLEAN, link : [R -> Local!Links], again : [R -> BOOLEAN],
              closes : 0..Cardinality(R), unreached : SUBSET R]

\* The relays whose first REQ is over.
Spent(s, R) == {r \in R : \/ s.again[r] \/ s.link[r] = "cooling"
                          \/ s.link[r] = "ended" /\ r \notin s.unreached}

\* closedCount is the number of those; a relay never reached stays ended.
Sound(s, R) == s.held => /\ s.closes = Cardinality(Spent(s, R))
                         /\ \A r \in s.unreached : s.link[r] = "ended"

\* A subscription just opened, or closed by its consumer, is sound.
LEMMA FreshSub ==
  /\ Local!Opened \in SubsOf({ChatRelay}) /\ Sound(Local!Opened, {ChatRelay})
  /\ Local!Closed \in SubsOf({ChatRelay}) /\ Sound(Local!Closed, {ChatRelay})
  /\ Net!Opened \in SubsOf(NetworkRelays) /\ Sound(Net!Opened, NetworkRelays)
  /\ Net!Closed \in SubsOf(NetworkRelays) /\ Sound(Net!Closed, NetworkRelays)
<1>1. /\ IsFiniteSet({ChatRelay}) /\ Cardinality({ChatRelay}) \in Nat
      /\ IsFiniteSet(NetworkRelays) /\ Cardinality(NetworkRelays) \in Nat
      /\ Cardinality({}) = 0
  BY FirehoseAssumption, FS_Singleton, FS_CardinalityType, FS_EmptySet DEF FirehoseAssumption
<1>2. Local!Opened \in SubsOf({ChatRelay}) /\ Local!Closed \in SubsOf({ChatRelay})
  BY <1>1 DEF SubsOf, Local!Opened, Local!Closed, Local!Links
<1>3. Net!Opened \in SubsOf(NetworkRelays) /\ Net!Closed \in SubsOf(NetworkRelays)
  BY <1>1 DEF SubsOf, Net!Opened, Net!Closed, Local!Links
<1>4. Spent(Local!Opened, {ChatRelay}) = {} /\ Spent(Net!Opened, NetworkRelays) = {}
  BY DEF Spent, Local!Opened, Net!Opened
<1>5. Sound(Local!Opened, {ChatRelay}) /\ Sound(Net!Opened, NetworkRelays)
  BY <1>1, <1>4 DEF Sound, Local!Opened, Net!Opened
<1>6. Sound(Local!Closed, {ChatRelay}) /\ Sound(Net!Closed, NetworkRelays)
  BY DEF Sound, Local!Closed, Net!Closed
<1> QED
  BY <1>2, <1>3, <1>5, <1>6

\* Moving one link changes that link alone.
LEMMA MovedLink ==
  ASSUME NEW R, NEW s \in SubsOf(R), NEW r \in R, NEW to
  PROVE  Local!Moved(s, r, to) =
           [held |-> s.held, link |-> [s.link EXCEPT ![r] = to], again |-> s.again,
            closes |-> s.closes, unreached |-> s.unreached]
<1>1. s = [held |-> s.held, link |-> s.link, again |-> s.again, closes |-> s.closes,
           unreached |-> s.unreached]
  BY DEF SubsOf
<1>2. Local!Moved(s, r, to) = [s EXCEPT !.link = [s.link EXCEPT ![r] = to]]
  BY DEF Local!Moved
<1> QED
  BY <1>1, <1>2

\* No step of a subscription but the end of a REQ changes the count.
LEMMA QuietStep ==
  ASSUME NEW R, NEW s \in SubsOf(R), Sound(s, R), s.held, NEW r \in R
  PROVE  /\ s.link[r] \in {"open", "mute"} => \A to \in {"open", "mute"} :
               Local!Moved(s, r, to) \in SubsOf(R) /\ Sound(Local!Moved(s, r, to), R)
         /\ s.link[r] = "dialling" => \A connected \in BOOLEAN :
               /\ Local!Dialled(s, r, connected) \in SubsOf(R)
               /\ Sound(Local!Dialled(s, r, connected), R)
         /\ s.link[r] = "cooling" =>
               Local!Reopened(s, r) \in SubsOf(R) /\ Sound(Local!Reopened(s, r), R)
<1>1. ASSUME NEW to \in {"open", "mute"}, s.link[r] \in {"open", "mute"}
      PROVE  Local!Moved(s, r, to) \in SubsOf(R) /\ Sound(Local!Moved(s, r, to), R)
  <2> DEFINE t == Local!Moved(s, r, to)
  <2>1. t \in SubsOf(R)
    BY DEF SubsOf, Local!Moved, Local!Links
  <2>2. Spent(t, R) = Spent(s, R)
    BY <1>1 DEF Spent, SubsOf, Local!Moved
  <2>3. t.closes = s.closes /\ t.unreached = s.unreached
    BY DEF SubsOf, Local!Moved
  <2>4. \A q \in t.unreached : t.link[q] = "ended"
    BY <1>1, <2>3 DEF SubsOf, Sound, Local!Moved
  <2> QED
    BY <2>1, <2>2, <2>3, <2>4 DEF Sound
<1>2. ASSUME NEW connected \in BOOLEAN, s.link[r] = "dialling"
      PROVE  /\ Local!Dialled(s, r, connected) \in SubsOf(R)
             /\ Sound(Local!Dialled(s, r, connected), R)
  <2> DEFINE t == Local!Dialled(s, r, connected)
             u == IF connected \/ s.again[r] THEN s.unreached ELSE s.unreached \cup {r}
             k == [s.link EXCEPT ![r] = IF connected THEN "open" ELSE "ended"]
  <2>1. t = [held |-> s.held, link |-> k, again |-> s.again, closes |-> s.closes,
             unreached |-> u]
    <3> DEFINE m == Local!Moved(s, r, IF connected THEN "open" ELSE "ended")
    <3>1. m = [held |-> s.held, link |-> k, again |-> s.again, closes |-> s.closes,
               unreached |-> s.unreached]
      BY MovedLink
    <3>2. t = [m EXCEPT !.unreached = IF connected \/ s.again[r] THEN @ ELSE @ \cup {r}]
      BY DEF Local!Dialled
    <3> HIDE DEF t, k, m
    <3> QED
      BY <3>1, <3>2
  <2>2. /\ t.unreached = u /\ t.link = k /\ t.closes = s.closes /\ t.again = s.again
        /\ t \in SubsOf(R)
    <3>1. k \in [R -> Local!Links] /\ u \in SUBSET R
      BY DEF SubsOf, Local!Links
    <3> HIDE DEF t, k, u
    <3> QED
      BY <2>1, <3>1 DEF SubsOf
  <2>3. Spent(t, R) = Spent(s, R)
    BY <1>2, <2>2 DEF Spent, SubsOf, Sound
  <2>4. \A q \in t.unreached : t.link[q] = "ended"
    BY <1>2, <2>2 DEF SubsOf, Sound
  <2> QED
    BY <2>2, <2>3, <2>4 DEF Sound
<1>3. ASSUME s.link[r] = "cooling"
      PROVE  Local!Reopened(s, r) \in SubsOf(R) /\ Sound(Local!Reopened(s, r), R)
  <2> DEFINE t == Local!Reopened(s, r)
             k == [s.link EXCEPT ![r] = "dialling"]
             a == [s.again EXCEPT ![r] = TRUE]
  <2>1. t = [held |-> s.held, link |-> k, again |-> a, closes |-> s.closes,
             unreached |-> s.unreached]
    <3> DEFINE m == Local!Moved(s, r, "dialling")
    <3>1. m = [held |-> s.held, link |-> k, again |-> s.again, closes |-> s.closes,
               unreached |-> s.unreached]
      BY MovedLink
    <3>2. t = [m EXCEPT !.again[r] = TRUE]
      BY DEF Local!Reopened
    <3> HIDE DEF t, k, m
    <3> QED
      BY <3>1, <3>2
  <2>2. /\ t.unreached = s.unreached /\ t.link = k /\ t.closes = s.closes /\ t.again = a
        /\ t \in SubsOf(R)
    <3>1. k \in [R -> Local!Links] /\ a \in [R -> BOOLEAN]
      BY DEF SubsOf, Local!Links
    <3> HIDE DEF t, k, a
    <3> QED
      BY <2>1, <3>1 DEF SubsOf
  <2>3. Spent(t, R) = Spent(s, R)
    BY <1>3, <2>2 DEF Spent, SubsOf
  <2>4. \A q \in t.unreached : t.link[q] = "ended"
    BY <1>3, <2>2 DEF SubsOf, Sound
  <2> QED
    BY <2>2, <2>3, <2>4 DEF Sound
<1> QED
  BY <1>1, <1>2, <1>3

\* The end of a REQ is counted once for each relay, the first time.
LEMMA EndedStep ==
  ASSUME NEW R, IsFiniteSet(R), NEW s \in SubsOf(R), Sound(s, R), s.held,
         NEW r \in R, s.link[r] \in {"open", "mute"}, NEW limited \in BOOLEAN
  PROVE  Local!Ends(s, r, limited) \in SubsOf(R) /\ Sound(Local!Ends(s, r, limited), R)
<1> DEFINE t == Local!Ends(s, r, limited)
           k == [s.link EXCEPT ![r] = IF limited THEN "cooling" ELSE "ended"]
           n == IF s.again[r] THEN s.closes ELSE s.closes + 1
<1>1. t = [held |-> s.held, link |-> k, again |-> s.again, closes |-> n,
           unreached |-> s.unreached]
  <2> DEFINE m == Local!Moved(s, r, IF limited THEN "cooling" ELSE "ended")
  <2>1. m = [held |-> s.held, link |-> k, again |-> s.again, closes |-> s.closes,
             unreached |-> s.unreached]
    BY MovedLink
  <2>2. t = [m EXCEPT !.closes = IF s.again[r] THEN @ ELSE @ + 1]
    BY DEF Local!Ends
  <2> HIDE DEF t, k, m
  <2> QED
    BY <2>1, <2>2
<1>2. /\ t.link = k /\ t.closes = n /\ t.again = s.again /\ t.unreached = s.unreached
      /\ t.held = s.held
  BY <1>1 DEF SubsOf
<1>3. r \notin s.unreached
  BY DEF Sound
<1>4. Spent(t, R) = Spent(s, R) \cup {r}
  BY <1>2, <1>3 DEF Spent, SubsOf
<1>5. r \in Spent(s, R) <=> s.again[r]
  BY DEF Spent, SubsOf
<1>6. IsFiniteSet(Spent(s, R)) /\ IsFiniteSet(Spent(t, R))
      /\ Cardinality(Spent(t, R)) <= Cardinality(R) /\ Cardinality(R) \in Nat
  BY FS_Subset, FS_CardinalityType DEF Spent
<1>7. Cardinality(Spent(t, R)) = n
  BY <1>4, <1>5, <1>6, FS_AddElement DEF Sound
<1>8. n \in 0..Cardinality(R)
  BY <1>6, <1>7, FS_CardinalityType
<1>9. t \in SubsOf(R)
  <2>1. k \in [R -> Local!Links]
    BY DEF SubsOf, Local!Links
  <2> HIDE DEF t, k, n
  <2> QED
    BY <1>1, <1>8, <2>1 DEF SubsOf
<1>10. \A q \in t.unreached : t.link[q] = "ended"
  BY <1>2, <1>3 DEF SubsOf, Sound
<1> QED
  BY <1>2, <1>7, <1>9, <1>10 DEF Sound

-----------------------------------------------------------------------------
(* The inductive invariant *)

\* Both records count right, and the watcher's count is not complete: the close that
\* completes it opens the watcher anew.
SubsSound ==
    /\ Sound(nostrSub, {ChatRelay}) /\ Sound(networkSub, NetworkRelays)
    /\ networkSub.held => /\ NetworkRelays # {}
                          /\ networkSub.closes < Cardinality(NetworkRelays)

\* What was heard of this window agrees with the link now, and with what was seen.
HeardAgrees ==
    /\ Open(nostrSub) => heard # "never"
    /\ heard = "throughout" => Open(nostrSub)
    /\ seen => heard # "never"

\* A window in which the firehose was deaf counts as a miss.
DeafIsMissed == deaf <= streak

\* An echo that was not seen is on its way, of this window or of the last.
EchoesDue ==
    /\ heard = "throughout" /\ published /\ ~seen => "now" \in echoes
    /\ steady /\ heard = "throughout" /\ streak > 0 => seen \/ "late" \in echoes

FirehoseInv ==
    TypeOK /\ SubsSound /\ HeardAgrees /\ DeafIsMissed /\ EchoesDue /\ StoppedStaysClosed

\* Subs is SubsOf, of either subscription.
LEMMA SameCount ==
  \A S : Local!Cardinality(S) = Cardinality(S) /\ Net!Cardinality(S) = Cardinality(S)
  BY DEF Cardinality, Local!Cardinality, Net!Cardinality

LEMMA SubsAre == Local!Subs = SubsOf({ChatRelay}) /\ Net!Subs = SubsOf(NetworkRelays)
  BY SameCount DEF SubsOf, Local!Subs, Net!Subs, Local!Links, Net!Links

\* The watcher's steps are those of any subscription.
LEMMA NetIsLocal ==
  ASSUME NEW s, NEW r, NEW x
  PROVE  /\ Net!Moved(s, r, x) = Local!Moved(s, r, x)
         /\ Net!Dialled(s, r, x) = Local!Dialled(s, r, x)
         /\ Net!Reopened(s, r) = Local!Reopened(s, r)
         /\ Net!Ends(s, r, x) = Local!Ends(s, r, x)
  BY DEF Net!Moved, Net!Dialled, Net!Reopened, Net!Ends,
         Local!Moved, Local!Dialled, Local!Reopened, Local!Ends

\* None of these steps takes the handle away, or touches the count.
LEMMA StepFields ==
  ASSUME NEW R, NEW s \in SubsOf(R), NEW r \in R, NEW x
  PROVE  /\ Local!Moved(s, r, x).held = s.held /\ Local!Moved(s, r, x).closes = s.closes
         /\ Local!Dialled(s, r, x).held = s.held /\ Local!Dialled(s, r, x).closes = s.closes
         /\ Local!Reopened(s, r).held = s.held /\ Local!Reopened(s, r).closes = s.closes
         /\ Local!Ends(s, r, x).held = s.held
         /\ Local!Ends(s, r, x).closes \in {s.closes, s.closes + 1}
<1>1. \A to : /\ Local!Moved(s, r, to).held = s.held
              /\ Local!Moved(s, r, to).closes = s.closes
              /\ DOMAIN Local!Moved(s, r, to) = DOMAIN s
  <2> SUFFICES ASSUME NEW to
               PROVE  /\ Local!Moved(s, r, to).held = s.held
                      /\ Local!Moved(s, r, to).closes = s.closes
                      /\ DOMAIN Local!Moved(s, r, to) = DOMAIN s
    OBVIOUS
  <2>1. Local!Moved(s, r, to) =
           [held |-> s.held, link |-> [s.link EXCEPT ![r] = to], again |-> s.again,
            closes |-> s.closes, unreached |-> s.unreached]
    BY MovedLink
  <2> QED
    BY <2>1 DEF SubsOf
<1>2. DOMAIN s = {"held", "link", "again", "closes", "unreached"}
  BY DEF SubsOf
<1>3. Local!Dialled(s, r, x).held = s.held /\ Local!Dialled(s, r, x).closes = s.closes
  <2> DEFINE m == Local!Moved(s, r, IF x THEN "open" ELSE "ended")
  <2>1. Local!Dialled(s, r, x) =
           [m EXCEPT !.unreached = IF x \/ s.again[r] THEN @ ELSE @ \cup {r}]
    BY DEF Local!Dialled
  <2>2. m.held = s.held /\ m.closes = s.closes /\ DOMAIN m = DOMAIN s
    BY <1>1
  <2> HIDE DEF m
  <2> QED
    BY <1>2, <2>1, <2>2
<1>4. Local!Reopened(s, r).held = s.held /\ Local!Reopened(s, r).closes = s.closes
  <2> DEFINE m == Local!Moved(s, r, "dialling")
  <2>1. Local!Reopened(s, r) = [m EXCEPT !.again[r] = TRUE]
    BY DEF Local!Reopened
  <2>2. m.held = s.held /\ m.closes = s.closes /\ DOMAIN m = DOMAIN s
    BY <1>1
  <2> HIDE DEF m
  <2> QED
    BY <1>2, <2>1, <2>2
<1>5. /\ Local!Ends(s, r, x).held = s.held
      /\ Local!Ends(s, r, x).closes \in {s.closes, s.closes + 1}
  <2> DEFINE m == Local!Moved(s, r, IF x THEN "cooling" ELSE "ended")
  <2>1. Local!Ends(s, r, x) = [m EXCEPT !.closes = IF s.again[r] THEN @ ELSE @ + 1]
    BY DEF Local!Ends
  <2>2. m.held = s.held /\ m.closes = s.closes /\ DOMAIN m = DOMAIN s
    BY <1>1
  <2> HIDE DEF m
  <2> QED
    BY <1>2, <2>1, <2>2
<1> QED
  BY <1>1, <1>3, <1>4, <1>5

\* The firehose moves: what was heard of the window and the echoes follow.
LEMMA LocalMoves ==
  ASSUME FirehoseInv, NEW s \in SubsOf({ChatRelay}), Sound(s, {ChatRelay}),
         MoveLocal(s), UNCHANGED <<watchVars, steady, deaf>>
  PROVE  /\ nostrSub' = s /\ nostrSub' \in Local!Subs
         /\ recent' \in BOOLEAN /\ published' \in BOOLEAN /\ seen' \in BOOLEAN
         /\ streak' \in 0..(EchoMissRestart - 1) /\ silence' \in 0..MaxSilence
         /\ echoes' \subseteq {"now", "late"}
         /\ heard' \in {"throughout", "part", "never"} /\ steady' \in BOOLEAN
         /\ deaf' \in 0..EchoMissRestart
         /\ HeardAgrees' /\ DeafIsMissed' /\ EchoesDue'
<1>1. /\ nostrSub' = s
      /\ heard' = CASE heard = "never" /\ Open(s) -> "part"
                    [] heard = "throughout" /\ ~Open(s) -> "part"
                    [] OTHER -> heard
      /\ echoes' = IF Open(s) THEN echoes ELSE {}
  BY DEF MoveLocal
<1>2. Open(nostrSub)' = Open(s)
  BY <1>1 DEF Open, Local!At
<1>3. /\ published' = published /\ seen' = seen /\ streak' = streak /\ steady' = steady
      /\ deaf' = deaf /\ recent' = recent /\ silence' = silence
  BY DEF watchVars
<1>4. heard' \in {"throughout", "part", "never"} /\ echoes' \subseteq {"now", "late"}
  BY <1>1 DEF FirehoseInv, TypeOK
<1>5. HeardAgrees'
  <2>1. Open(s) => heard' # "never"
    BY <1>1
  <2>2. heard' = "throughout" => Open(s)
    BY <1>1
  <2>3. seen' => heard' # "never"
    BY <1>1, <1>3 DEF FirehoseInv, HeardAgrees
  <2> QED
    BY <1>2, <2>1, <2>2, <2>3 DEF HeardAgrees
<1>6. heard' = "throughout" => heard = "throughout" /\ echoes' = echoes
  BY <1>1
<1>7. DeafIsMissed' /\ EchoesDue'
  BY <1>3, <1>6 DEF FirehoseInv, DeafIsMissed, EchoesDue
<1> QED
  BY <1>1, <1>3, <1>4, <1>5, <1>7, SubsAre DEF FirehoseInv, TypeOK

\* The firehose is replaced: all that was counted is gone.
LEMMA Restarted ==
  ASSUME Restart
  PROVE  /\ nostrSub' = Local!Opened /\ nostrSub' \in Local!Subs /\ nostrSub'.held
         /\ Sound(nostrSub, {ChatRelay})'
         /\ recent' \in BOOLEAN /\ published' \in BOOLEAN /\ seen' \in BOOLEAN
         /\ streak' \in 0..(EchoMissRestart - 1) /\ silence' \in 0..MaxSilence
         /\ echoes' \subseteq {"now", "late"}
         /\ heard' \in {"throughout", "part", "never"} /\ steady' \in BOOLEAN
         /\ deaf' \in 0..EchoMissRestart
         /\ HeardAgrees' /\ DeafIsMissed' /\ EchoesDue'
<1>1. nostrSub' = Local!Opened
  BY DEF Restart
<1>2. nostrSub' \in Local!Subs /\ Sound(nostrSub, {ChatRelay})'
  <2>1. Local!Opened \in Local!Subs /\ Sound(Local!Opened, {ChatRelay})
    BY FreshSub, SubsAre
  <2>2. Sound(nostrSub, {ChatRelay})' = Sound(nostrSub', {ChatRelay})
    BY DEF Sound, Spent
  <2> QED
    BY <1>1, <2>1, <2>2
<1>3. nostrSub'.held /\ ~Open(nostrSub)'
  BY <1>1 DEF Open, Local!At, Local!Opened
<1>4. HeardAgrees' /\ DeafIsMissed' /\ EchoesDue'
  BY <1>3 DEF Restart, HeardAgrees, DeafIsMissed, EchoesDue
<1>5. 0 \in 0..(EchoMissRestart - 1) /\ 0 \in 0..MaxSilence /\ 0 \in 0..EchoMissRestart
  BY FirehoseAssumption DEF FirehoseAssumption
<1>6. /\ recent' = TRUE /\ published' = FALSE /\ seen' = FALSE /\ streak' = 0 /\ silence' = 0
      /\ echoes' = {} /\ heard' = "never" /\ steady' = FALSE /\ deaf' = 0
  BY DEF Restart
<1> QED
  BY <1>1, <1>2, <1>3, <1>4, <1>5, <1>6

\* A handle stays, or the service runs and opens one.
LEMMA EnsuredIs ==
  ASSUME NEW s, NEW opened
  PROVE  Ensured(s, opened) = s \/ (Ensured(s, opened) = opened /\ ~stopped)
<1>1. CASE stopped \/ s.held
  BY <1>1 DEF Ensured
<1>2. CASE ~(stopped \/ s.held)
  BY <1>2 DEF Ensured
<1> QED
  BY <1>1, <1>2

\* A held firehose whose link is no longer served moves to s, with its handle.
LEMMA LocalSubMoves ==
  ASSUME FirehoseInv, NEW s \in SubsOf({ChatRelay}), Sound(s, {ChatRelay}),
         s.held => nostrSub.held \/ ~stopped,
         MoveLocal(s), UNCHANGED <<up, networkSub, refreshing, stopped, watchVars, steady, deaf>>
  PROVE  FirehoseInv'
<1>1. /\ nostrSub' = s /\ nostrSub' \in Local!Subs
      /\ recent' \in BOOLEAN /\ published' \in BOOLEAN /\ seen' \in BOOLEAN
      /\ streak' \in 0..(EchoMissRestart - 1) /\ silence' \in 0..MaxSilence
      /\ echoes' \subseteq {"now", "late"}
      /\ heard' \in {"throughout", "part", "never"} /\ steady' \in BOOLEAN
      /\ deaf' \in 0..EchoMissRestart
      /\ HeardAgrees' /\ DeafIsMissed' /\ EchoesDue'
  BY LocalMoves
<1>2. TypeOK'
  BY <1>1 DEF FirehoseInv, TypeOK
<1>3. SubsSound'
  BY <1>1 DEF FirehoseInv, SubsSound, Sound, Spent
<1>4. StoppedStaysClosed'
  BY <1>1 DEF FirehoseInv, StoppedStaysClosed
<1> QED
  BY <1>1, <1>2, <1>3, <1>4 DEF FirehoseInv

\* The watcher moves to s, held as before, its count not complete.
LEMMA NetSubMoves ==
  ASSUME FirehoseInv, NEW s \in SubsOf(NetworkRelays), Sound(s, NetworkRelays), NetStep(s),
         networkSub.held, s.closes < Cardinality(NetworkRelays)
  PROVE  FirehoseInv'
<1>1. /\ networkSub' = s /\ UNCHANGED <<up, nostrSub, refreshing, stopped, recent, published, seen,
                                       streak, silence, echoes, heard, steady, deaf>>
  BY DEF NetStep, watchVars, histVars
<1>2. TypeOK'
  BY <1>1, SubsAre DEF FirehoseInv, TypeOK
<1>3. SubsSound'
  BY <1>1 DEF FirehoseInv, SubsSound, Sound, Spent
<1>4. StoppedStaysClosed'
  BY <1>1 DEF FirehoseInv, StoppedStaysClosed
<1>5. HeardAgrees' /\ DeafIsMissed' /\ EchoesDue'
  BY <1>1 DEF FirehoseInv, HeardAgrees, DeafIsMissed, EchoesDue, Open, Local!At
<1> QED
  BY <1>2, <1>3, <1>4, <1>5 DEF FirehoseInv

\* The invariant holds at first.
LEMMA InitHolds == Init => FirehoseInv
<1> SUFFICES ASSUME Init PROVE FirehoseInv
  OBVIOUS
<1>1. 0 \in 0..(EchoMissRestart - 1) /\ 0 \in 0..MaxSilence /\ 0 \in 0..EchoMissRestart
  BY FirehoseAssumption DEF FirehoseAssumption
<1>2. TypeOK
  BY <1>1, FreshSub, SubsAre DEF Init, TypeOK
<1>3. SubsSound
  BY FreshSub DEF Init, SubsSound, Net!Closed
<1>4. ~Open(nostrSub)
  BY DEF Init, Open, Local!At, Local!Closed
<1>5. HeardAgrees /\ DeafIsMissed /\ EchoesDue /\ StoppedStaysClosed
  BY <1>4 DEF Init, HeardAgrees, DeafIsMissed, EchoesDue, StoppedStaysClosed
<1> QED
  BY <1>2, <1>3, <1>5 DEF FirehoseInv

\* Every action keeps the invariant.
LEMMA StepHolds == FirehoseInv /\ [Next]_vars => FirehoseInv'
<1> SUFFICES ASSUME FirehoseInv, [Next]_vars PROVE FirehoseInv'
  OBVIOUS
<1> USE DEF FirehoseInv
<1>0. nostrSub \in SubsOf({ChatRelay}) /\ networkSub \in SubsOf(NetworkRelays)
  BY SubsAre DEF TypeOK
<1>1. CASE RefreshTick
  BY <1>1 DEF RefreshTick, subVars, watchVars, histVars, TypeOK, SubsSound, Sound, Spent,
              HeardAgrees, DeafIsMissed, EchoesDue, StoppedStaysClosed, Open, Local!At
<1>2. CASE RefreshTail
  <2>1. CASE UNCHANGED <<subVars, heard, echoes>>
    BY <1>2, <2>1 DEF RefreshTail, subVars, watchVars, TypeOK, SubsSound, Sound, Spent,
                      HeardAgrees, DeafIsMissed, EchoesDue, StoppedStaysClosed, Open, Local!At
  <2>2. CASE /\ MoveLocal(Ensured(nostrSub, Local!Opened))
             /\ networkSub' = IF NetworkRelays = {} THEN networkSub
                              ELSE Ensured(networkSub, Net!Opened)
    <3> DEFINE s == Ensured(nostrSub, Local!Opened)
    <3>1. s = nostrSub \/ (s = Local!Opened /\ ~stopped)
      BY EnsuredIs
    <3>2. s \in SubsOf({ChatRelay}) /\ Sound(s, {ChatRelay})
      BY <1>0, <3>1, FreshSub DEF SubsSound
    <3>3. UNCHANGED <<up, stopped, watchVars, steady, deaf>> /\ refreshing' \in BOOLEAN
      BY <1>2 DEF RefreshTail
    <3>4. /\ nostrSub' = s /\ nostrSub' \in Local!Subs
          /\ recent' \in BOOLEAN /\ published' \in BOOLEAN /\ seen' \in BOOLEAN
          /\ streak' \in 0..(EchoMissRestart - 1) /\ silence' \in 0..MaxSilence
          /\ echoes' \subseteq {"now", "late"}
          /\ heard' \in {"throughout", "part", "never"} /\ steady' \in BOOLEAN
          /\ deaf' \in 0..EchoMissRestart
          /\ HeardAgrees' /\ DeafIsMissed' /\ EchoesDue'
      BY <2>2, <3>2, <3>3, LocalMoves
    <3>5. \/ networkSub' = networkSub
          \/ networkSub' = Net!Opened /\ ~stopped /\ NetworkRelays # {}
      <4>1. \/ Ensured(networkSub, Net!Opened) = networkSub
            \/ Ensured(networkSub, Net!Opened) = Net!Opened /\ ~stopped
        BY EnsuredIs
      <4>2. CASE NetworkRelays = {}
        BY <2>2, <4>2
      <4>3. CASE NetworkRelays # {}
        <5>1. networkSub' = Ensured(networkSub, Net!Opened)
          BY <2>2, <4>3
        <5> QED
          BY <4>1, <4>3, <5>1, Zenon
      <4> QED
        BY <4>2, <4>3
    <3>6. TypeOK'
      BY <1>0, <3>3, <3>4, <3>5, FreshSub, SubsAre DEF TypeOK
    <3>7. Sound(networkSub', NetworkRelays)
      BY <3>5, FreshSub DEF SubsSound
    <3>8. networkSub'.held =>
             NetworkRelays # {} /\ networkSub'.closes < Cardinality(NetworkRelays)
      <4>1. CASE networkSub' = networkSub
        BY <4>1 DEF SubsSound
      <4>2. CASE networkSub' = Net!Opened /\ NetworkRelays # {}
        <5>1. Net!Opened.closes = 0
          BY DEF Net!Opened
        <5>2. Cardinality(NetworkRelays) \in Nat /\ Cardinality(NetworkRelays) # 0
          BY <4>2, FirehoseAssumption, FS_CardinalityType, FS_EmptySet DEF FirehoseAssumption
        <5> QED
          BY <4>2, <5>1, <5>2
      <4> QED
        BY <3>5, <4>1, <4>2
    <3>9. SubsSound'
      BY <3>2, <3>4, <3>7, <3>8 DEF SubsSound, Sound, Spent
    <3>10. StoppedStaysClosed'
      BY <3>1, <3>3, <3>4, <3>5 DEF StoppedStaysClosed
    <3> QED
      BY <3>4, <3>6, <3>9, <3>10
  <2> QED
    BY <1>2, <2>1, <2>2 DEF RefreshTail
<1>3. CASE Publish
  <2>1. TypeOK' /\ StoppedStaysClosed' /\ DeafIsMissed'
    BY <1>3 DEF Publish, subVars, histVars, TypeOK, StoppedStaysClosed, DeafIsMissed
  <2>2. SubsSound'
    BY <1>3 DEF Publish, subVars, SubsSound, Sound, Spent
  <2>3. HeardAgrees' /\ EchoesDue'
    BY <1>3 DEF Publish, subVars, histVars, HeardAgrees, EchoesDue, Open, Local!At
  <2> QED
    BY <2>1, <2>2, <2>3
<1>4. CASE HearEcho \/ HearViewer
  <2>1. PICK left \in SUBSET echoes : Hear(left)
    BY <1>4 DEF HearEcho, HearViewer
  <2>2. TypeOK' /\ StoppedStaysClosed' /\ DeafIsMissed'
    BY <2>1, FirehoseAssumption
    DEF Hear, subVars, histVars, TypeOK, StoppedStaysClosed, DeafIsMissed, FirehoseAssumption
  <2>3. SubsSound'
    BY <2>1 DEF Hear, subVars, SubsSound, Sound, Spent
  <2>4. HeardAgrees' /\ EchoesDue'
    BY <2>1 DEF Hear, subVars, histVars, HeardAgrees, EchoesDue, Open, Local!At
  <2> QED
    BY <2>2, <2>3, <2>4
<1>5. CASE CheckHealth
  <2>1. UNCHANGED <<up, networkSub, refreshing, stopped>> /\ ~stopped
    BY <1>5 DEF CheckHealth
  <2>2. SubsSound' <=> Sound(nostrSub, {ChatRelay})'
    BY <2>1 DEF SubsSound, Sound, Spent
  <2>3. StoppedStaysClosed'
    BY <2>1 DEF StoppedStaysClosed
  <2>4. CASE Restart
    <3>1. TypeOK'
      BY <2>1, <2>4, Restarted DEF TypeOK
    <3> QED
      BY <2>2, <2>3, <2>4, <3>1, Restarted
  <2>5. CASE ~EchoLost /\ NextWindow
    <3>1. nostrSub' = nostrSub /\ recent' = recent
      BY <2>5 DEF NextWindow
    <3>2. Sound(nostrSub, {ChatRelay})'
      BY <3>1 DEF SubsSound, Sound, Spent
    <3>3. /\ published' = FALSE /\ seen' = FALSE
          /\ streak' = IF EchoMissing THEN streak + 1 ELSE 0
          /\ silence' = IF silence < MaxSilence THEN silence + 1 ELSE silence
          /\ echoes' = IF echoes = {} THEN {} ELSE {"late"}
          /\ heard' = IF Open(nostrSub) THEN "throughout" ELSE "never"
          /\ steady' = (heard = "throughout")
          /\ deaf' = IF published /\ heard = "never" THEN deaf + 1 ELSE 0
      BY <2>5 DEF NextWindow
    <3>4. streak' \in 0..(EchoMissRestart - 1) /\ silence' \in 0..MaxSilence
      BY <2>5, <3>3, FirehoseAssumption DEF TypeOK, EchoLost, FirehoseAssumption
    <3>5. published /\ heard = "never" => EchoMissing
      BY DEF HeardAgrees, EchoMissing, TypeOK
    <3>6. deaf' <= streak' /\ deaf' \in 0..EchoMissRestart
      BY <3>3, <3>4, <3>5, FirehoseAssumption DEF TypeOK, DeafIsMissed, FirehoseAssumption
    <3>7. TypeOK'
      BY <2>1, <3>1, <3>3, <3>4, <3>6 DEF TypeOK
    <3>8. Open(nostrSub)' = Open(nostrSub)
      BY <3>1 DEF Open, Local!At
    <3>9. HeardAgrees'
      BY <3>3, <3>8 DEF HeardAgrees
    <3>10. EchoesDue'
      <4>1. ASSUME steady', streak' > 0
            PROVE  "late" \in echoes'
        <5>1. heard = "throughout" /\ EchoMissing
          <6>1. steady' = (heard = "throughout") /\ steady'
            BY <3>3, <4>1
          <6>2. heard = "throughout"
            BY <6>1, Zenon
          <6>3. EchoMissing
            BY <3>3, <4>1
          <6> QED
            BY <6>2, <6>3
        <5>2. "now" \in echoes
          BY <5>1 DEF EchoesDue, EchoMissing
        <5> QED
          BY <3>3, <5>2
      <4> QED
        BY <3>3, <4>1 DEF EchoesDue
    <3> QED
      BY <2>2, <2>3, <3>2, <3>6, <3>7, <3>9, <3>10 DEF DeafIsMissed
  <2> QED
    BY <1>5, <2>4, <2>5 DEF CheckHealth
<1>6. CASE FloorElapses
  BY <1>6 DEF FloorElapses, subVars, histVars, TypeOK, SubsSound, Sound, Spent,
              HeardAgrees, DeafIsMissed, EchoesDue, StoppedStaysClosed, Open, Local!At
<1>7. CASE Stop
  <2>1. /\ MoveLocal(Local!Closed) /\ networkSub' = Net!Closed /\ stopped' = TRUE
        /\ UNCHANGED <<up, refreshing, watchVars, steady, deaf>>
    BY <1>7 DEF Stop
  <2>2. /\ nostrSub' = Local!Closed /\ nostrSub' \in Local!Subs
        /\ recent' \in BOOLEAN /\ published' \in BOOLEAN /\ seen' \in BOOLEAN
        /\ streak' \in 0..(EchoMissRestart - 1) /\ silence' \in 0..MaxSilence
        /\ echoes' \subseteq {"now", "late"}
        /\ heard' \in {"throughout", "part", "never"} /\ steady' \in BOOLEAN
        /\ deaf' \in 0..EchoMissRestart
        /\ HeardAgrees' /\ DeafIsMissed' /\ EchoesDue'
    BY <2>1, FreshSub, LocalMoves
  <2>3. TypeOK'
    BY <2>1, <2>2, FreshSub, SubsAre DEF TypeOK
  <2>4. ~nostrSub'.held /\ ~networkSub'.held
    BY <2>1, <2>2 DEF Local!Closed, Net!Closed
  <2>5. SubsSound' /\ StoppedStaysClosed'
    BY <2>4 DEF SubsSound, Sound, StoppedStaysClosed
  <2> QED
    BY <2>2, <2>3, <2>5
<1>8. CASE LocalDialled
  <2> DEFINE s == Local!Dialled(nostrSub, ChatRelay, up)
  <2>1. nostrSub.held /\ nostrSub.link[ChatRelay] = "dialling" /\ up \in BOOLEAN
    BY <1>8 DEF LocalDialled, Local!At, TypeOK
  <2>2. s \in SubsOf({ChatRelay}) /\ Sound(s, {ChatRelay})
    BY <1>0, <2>1, QuietStep DEF SubsSound
  <2> QED
    BY <1>8, <2>1, <2>2, LocalSubMoves DEF LocalDialled
<1>9. CASE LocalLapses
  <2>1. PICK to \in {"open", "mute"} :
           /\ nostrSub.held /\ nostrSub.link[ChatRelay] \in {"open", "mute"}
           /\ MoveLocal(Local!Moved(nostrSub, ChatRelay, to))
    BY <1>9 DEF LocalLapses, Open, Local!At
  <2> DEFINE s == Local!Moved(nostrSub, ChatRelay, to)
  <2>2. s \in SubsOf({ChatRelay}) /\ Sound(s, {ChatRelay})
    BY <1>0, <2>1, QuietStep DEF SubsSound
  <2> QED
    BY <1>9, <2>1, <2>2, LocalSubMoves DEF LocalLapses
<1>10. CASE LocalReopens
  <2> DEFINE s == Local!Reopened(nostrSub, ChatRelay)
  <2>1. nostrSub.held /\ nostrSub.link[ChatRelay] = "cooling"
    BY <1>10 DEF LocalReopens, Local!At
  <2>2. s \in SubsOf({ChatRelay}) /\ Sound(s, {ChatRelay})
    BY <1>0, <2>1, QuietStep DEF SubsSound
  <2> QED
    BY <1>10, <2>1, <2>2, LocalSubMoves DEF LocalReopens
<1>11. CASE LocalEnds
  <2>1. PICK limited \in BOOLEAN :
           /\ nostrSub.held /\ nostrSub.link[ChatRelay] \in {"open", "mute"}
           /\ LET s == Local!Ends(nostrSub, ChatRelay, limited) IN
                 IF Local!Reports(nostrSub, s) /\ ~recent
                 THEN Restart
                 ELSE MoveLocal(s) /\ UNCHANGED <<watchVars, steady, deaf>>
    BY <1>11 DEF LocalEnds, Open, Local!At
  <2> DEFINE s == Local!Ends(nostrSub, ChatRelay, limited)
  <2>2. UNCHANGED <<up, networkSub, refreshing, stopped>>
    BY <1>11 DEF LocalEnds
  <2>3. CASE Restart
    <3>1. TypeOK'
      BY <2>2, <2>3, Restarted DEF TypeOK
    <3>2. SubsSound'
      BY <2>2, <2>3, Restarted DEF SubsSound, Sound, Spent
    <3>3. StoppedStaysClosed'
      BY <2>1, <2>2 DEF StoppedStaysClosed
    <3> QED
      BY <2>3, <3>1, <3>2, <3>3, Restarted
  <2>4. CASE MoveLocal(s) /\ UNCHANGED <<watchVars, steady, deaf>>
    <3>1. s \in SubsOf({ChatRelay}) /\ Sound(s, {ChatRelay})
      BY <1>0, <2>1, EndedStep, FS_Singleton DEF SubsSound
    <3> QED
      BY <2>1, <2>2, <2>4, <3>1, LocalSubMoves
  <2> QED
    BY <2>1, <2>3, <2>4
<1>12. CASE RelayTurns
  BY <1>12 DEF RelayTurns, subVars, watchVars, histVars, TypeOK, SubsSound, Sound, Spent,
               HeardAgrees, DeafIsMissed, EchoesDue, StoppedStaysClosed, Open, Local!At
<1>13. ASSUME NEW r \in NetworkRelays, NetDialled(r) \/ NetLapses(r) \/ NetReopens(r)
       PROVE  FirehoseInv'
  <2>1. networkSub.held /\ networkSub.closes < Cardinality(NetworkRelays)
    BY <1>13 DEF NetDialled, NetLapses, NetReopens, Net!At, SubsSound
  <2>2. CASE NetDialled(r)
    <3>1. PICK connected \in BOOLEAN : NetStep(Net!Dialled(networkSub, r, connected))
      BY <2>2 DEF NetDialled
    <3> DEFINE s == Local!Dialled(networkSub, r, connected)
    <3>2. s \in SubsOf(NetworkRelays) /\ Sound(s, NetworkRelays)
      BY <1>0, <1>13, <2>1, <2>2, QuietStep DEF SubsSound, NetDialled, Net!At
    <3>3. s.closes = networkSub.closes /\ NetStep(s)
      BY <1>0, <1>13, <3>1, StepFields, NetIsLocal
    <3> QED
      BY <2>1, <3>2, <3>3, NetSubMoves
  <2>3. CASE NetLapses(r)
    <3>1. PICK to \in {"open", "mute"} : /\ NetStep(Net!Moved(networkSub, r, to))
                                        /\ networkSub.link[r] \in {"open", "mute"}
      BY <2>3 DEF NetLapses, Net!At
    <3> DEFINE s == Local!Moved(networkSub, r, to)
    <3>2. s \in SubsOf(NetworkRelays) /\ Sound(s, NetworkRelays)
      BY <1>0, <1>13, <2>1, <3>1, QuietStep DEF SubsSound
    <3>3. s.closes = networkSub.closes /\ NetStep(s)
      BY <1>0, <1>13, <3>1, StepFields, NetIsLocal
    <3> QED
      BY <2>1, <3>2, <3>3, NetSubMoves
  <2>4. CASE NetReopens(r)
    <3> DEFINE s == Local!Reopened(networkSub, r)
    <3>1. networkSub.link[r] = "cooling" /\ NetStep(Net!Reopened(networkSub, r))
      BY <2>4 DEF NetReopens, Net!At
    <3>2. s \in SubsOf(NetworkRelays) /\ Sound(s, NetworkRelays)
      BY <1>0, <1>13, <2>1, <3>1, QuietStep DEF SubsSound
    <3>3. s.closes = networkSub.closes /\ NetStep(s)
      BY <1>0, <1>13, <3>1, StepFields, NetIsLocal
    <3> QED
      BY <2>1, <3>2, <3>3, NetSubMoves
  <2> QED
    BY <1>13, <2>2, <2>3, <2>4
<1>14. ASSUME NEW r \in NetworkRelays, NetEnds(r)
       PROVE  FirehoseInv'
  <2>1. PICK limited \in BOOLEAN :
           /\ networkSub.held /\ networkSub.link[r] \in {"open", "mute"}
           /\ LET s == Net!Ends(networkSub, r, limited) IN
                 NetStep(IF Net!Reports(networkSub, s) THEN Net!Opened ELSE s)
    BY <1>14 DEF NetEnds, Net!At
  <2> DEFINE s == Local!Ends(networkSub, r, limited)
  <2>2. s \in SubsOf(NetworkRelays) /\ Sound(s, NetworkRelays)
    BY <1>0, <1>14, <2>1, EndedStep, FirehoseAssumption DEF SubsSound, FirehoseAssumption
  <2>3. NetStep(IF Net!Reports(networkSub, s) THEN Net!Opened ELSE s)
    BY <2>1, NetIsLocal
  <2>4. /\ networkSub.closes < Cardinality(NetworkRelays) /\ NetworkRelays # {}
        /\ Cardinality(NetworkRelays) \in Nat /\ networkSub.closes \in Nat
    BY <1>0, <2>1, FirehoseAssumption, FS_CardinalityType
    DEF SubsSound, SubsOf, FirehoseAssumption
  <2>5. CASE Net!Reports(networkSub, s)
    <3>1. Net!Opened.closes = 0 /\ Net!Opened \in SubsOf(NetworkRelays)
          /\ Sound(Net!Opened, NetworkRelays)
      BY FreshSub DEF Net!Opened
    <3>2. NetStep(Net!Opened)
      BY <2>3, <2>5
    <3> QED
      BY <2>1, <2>4, <3>1, <3>2, NetSubMoves
  <2>6. CASE ~Net!Reports(networkSub, s)
    <3>1. s.closes \in {networkSub.closes, networkSub.closes + 1}
      BY <1>0, <1>14, StepFields
    <3>2. s.closes < Cardinality(NetworkRelays)
      BY <2>4, <2>6, <3>1, SameCount DEF Net!Reports
    <3>3. NetStep(s)
      BY <2>3, <2>6
    <3> QED
      BY <2>1, <2>2, <3>2, <3>3, NetSubMoves
  <2> QED
    BY <2>5, <2>6
<1>15. CASE UNCHANGED vars
  BY <1>15 DEF vars, subVars, watchVars, histVars, TypeOK, SubsSound, Sound, Spent,
               HeardAgrees, DeafIsMissed, EchoesDue, StoppedStaysClosed, Open, Local!At
<1> QED
  BY <1>1, <1>2, <1>3, <1>4, <1>5, <1>6, <1>7, <1>8, <1>9, <1>10, <1>11, <1>12, <1>13,
     <1>14, <1>15 DEF Next, Service, Wire

LEMMA InvariantHolds == Spec => []FirehoseInv
<1>1. Init => FirehoseInv
  BY InitHolds
<1>2. FirehoseInv /\ [Next]_vars => FirehoseInv'
  BY StepHolds
<1> QED
  BY <1>1, <1>2, PTL DEF Spec

-----------------------------------------------------------------------------
(* Theorems *)

\* Both subscriptions, the counters of the watchdog and its limits keep their types; in
\* particular no relay is counted twice by ClientService.subscribe.
THEOREM FirehoseTypeCorrect == Spec => []TypeOK
<1>1. FirehoseInv => TypeOK
  BY DEF FirehoseInv
<1> QED
  BY <1>1, InvariantHolds, PTL

\* chat-bridge.service.ts, stop(): no refresh parked on an await and no close being
\* handled subscribes behind it.
THEOREM StoppedCorrect == Spec => []StoppedStaysClosed
<1>1. FirehoseInv => StoppedStaysClosed
  BY DEF FirehoseInv
<1> QED
  BY <1>1, InvariantHolds, PTL

\* checkSubscriptionHealth: a deaf firehose is replaced by the EchoMissRestart-th check.
THEOREM DeafCorrect == Spec => []DeafIsReplaced
<1>1. FirehoseInv => DeafIsReplaced
  BY FirehoseAssumption DEF FirehoseInv, TypeOK, DeafIsMissed, DeafIsReplaced, FirehoseAssumption
<1> QED
  BY <1>1, InvariantHolds, PTL

\* checkSubscriptionHealth: with a rule that needs more than one window, as in the code,
\* an echo that crosses the edge of a window never costs a working firehose.
THEOREM HeardCorrect ==
  ASSUME EchoMissRestart > 1
  PROVE  Spec => []HeardIsKept
<1>1. FirehoseInv => HeardIsKept
  <2> SUFFICES ASSUME FirehoseInv, steady, heard = "throughout", "late" \notin echoes, EchoLost
               PROVE  FALSE
    BY DEF HeardIsKept
  <2>1. streak > 0
    BY FirehoseAssumption DEF EchoLost, FirehoseInv, TypeOK, FirehoseAssumption
  <2> QED
    BY <2>1 DEF FirehoseInv, EchoesDue, EchoLost, EchoMissing
<1> QED
  BY <1>1, InvariantHolds, PTL

\* ClientService.subscribe and ensureNetworkSub: closes of first REQs alone are counted,
\* and still the watcher never loses its last relay without a report.
THEOREM NetworkLossCorrect == Spec => []NetworkLossSeen
<1>1. FirehoseInv => NetworkLossSeen
  <2> SUFFICES ASSUME FirehoseInv, networkSub.held, networkSub.unreached = {},
                      \A r \in NetworkRelays : networkSub.link[r] = "ended"
               PROVE  FALSE
    BY DEF NetworkLossSeen
  <2>1. Spent(networkSub, NetworkRelays) = NetworkRelays
    BY DEF Spent
  <2>2. /\ networkSub.closes = Cardinality(NetworkRelays)
        /\ networkSub.closes < Cardinality(NetworkRelays)
    BY <2>1 DEF FirehoseInv, SubsSound, Sound
  <2>3. Cardinality(NetworkRelays) \in Nat
    BY FirehoseAssumption, FS_CardinalityType DEF FirehoseAssumption
  <2> QED
    BY <2>2, <2>3
<1> QED
  BY <1>1, InvariantHolds, PTL

=============================================================================

-------------------------- MODULE ChatDelivery_proofs --------------------------
(***************************************************************************)
(* Proofs about ChatDelivery, for any texts, authors, rooms and pool cap:   *)
(* its types, that nothing bridged comes back, that no failure stops a      *)
(* chain, that a room closed in time leaves nobody in the source's chat,    *)
(* that what counts as published is stored, that what one sender says in    *)
(* the open room arrives in order, that all of it implements                *)
(* DeliveryContract, and that no event is delivered a third time while its  *)
(* fingerprints last.                                                       *)
(***************************************************************************)
EXTENDS ChatDelivery, FiniteSetTheorems, SequenceTheorems, TLAPS

-----------------------------------------------------------------------------
(* Connections *)

\* What goes to the source.
Bridged == {i \in Items : i.text \in Events}

Conns == [known : BOOLEAN, queue : Seq(Bridged), step : Steps, sock : Socks,
          held : BOOLEAN, leaving : Nat, strays : Nat]

\* A drain that runs has something to send; a sender with a socket, or on its way to
\* one, is registered.
Works(c) == c.step # "idle" => c.queue # <<>>
Live(c) == c.step \in {"dial", "pace"} \/ c.sock # "none"

\* A step of a connection that neither forgets the sender nor makes it live.
Follows(c, d) == d \in Conns /\ Works(d) /\ d.known = c.known /\ (Live(d) => Live(c))

\* The head of the loop stops at an empty queue, and goes on to send only on a socket.
LEMMA Looped ==
  ASSUME NEW c \in Conns
  PROVE  /\ Loop(c) \in Conns /\ Works(Loop(c)) /\ Loop(c).queue = c.queue
         /\ Loop(c).known = c.known /\ Loop(c).sock = c.sock
         /\ Loop(c).held = c.held /\ Loop(c).leaving = c.leaving
         /\ Loop(c).strays = c.strays
         /\ c.queue # <<>> => Loop(c).step # "idle"
         /\ Live(Loop(c)) => Live(c)
<1> DEFINE n == CASE c.queue # <<>> /\ Ready(c) -> "pace"
                  [] c.queue # <<>> /\ ~Ready(c) -> "register" [] OTHER -> "idle"
<1>1. n \in Steps /\ (n = "idle" <=> c.queue = <<>>) /\ (n = "pace" => c.sock = "open")
      /\ n # "dial"
  <2>1. CASE c.queue = <<>>
    <3>1. n = "idle"
      BY <2>1
    <3> QED
      BY <2>1, <3>1 DEF Steps
  <2>2. CASE c.queue # <<>> /\ Ready(c)
    <3>1. n = "pace"
      BY <2>2
    <3> QED
      BY <2>2, <3>1 DEF Steps, Ready
  <2>3. CASE c.queue # <<>> /\ ~Ready(c)
    <3>1. n = "register"
      BY <2>3
    <3> QED
      BY <2>3, <3>1 DEF Steps
  <2> QED
    BY <2>1, <2>2, <2>3
<1>2. Loop(c) = [c EXCEPT !.step = n]
  BY DEF Loop
<1> HIDE DEF n
<1>3. /\ Loop(c) \in Conns /\ Loop(c).step = n /\ Loop(c).queue = c.queue
      /\ Loop(c).known = c.known /\ Loop(c).sock = c.sock
      /\ Loop(c).held = c.held /\ Loop(c).leaving = c.leaving
      /\ Loop(c).strays = c.strays
  BY <1>1, <1>2 DEF Conns
<1>4. Works(Loop(c)) /\ (c.queue # <<>> => Loop(c).step # "idle")
  BY <1>1, <1>3 DEF Works
<1>5. Live(Loop(c)) => Live(c)
  <2> SUFFICES ASSUME Live(Loop(c)) PROVE Live(c)
    OBVIOUS
  <2>1. CASE Loop(c).step \in {"dial", "pace"}
    <3>1. c.sock = "open"
      BY <1>1, <1>3, <2>1
    <3> QED
      BY <3>1 DEF Live
  <2>2. CASE Loop(c).sock # "none"
    BY <1>3, <2>2 DEF Live
  <2> QED
    BY <2>1, <2>2 DEF Live
<1> QED
  BY <1>3, <1>4, <1>5

\* send: a drain runs, and has the payload.
LEMMA Sent ==
  ASSUME NEW c \in Conns, NEW i \in Bridged
  PROVE  /\ Pushed(c, i) \in Conns /\ Pushed(c, i).step # "idle" /\ Pushed(c, i).queue # <<>>
         /\ Pushed(c, i).known = TRUE /\ (Live(Pushed(c, i)) => Live(c))
<1> DEFINE q == Append(c.queue, i)
           d == [c EXCEPT !.known = TRUE, !.queue = q]
<1>1. q \in Seq(Bridged) /\ q # <<>>
  BY DEF Conns
<1>2. /\ d \in Conns /\ d.queue # <<>> /\ d.step = c.step /\ d.sock = c.sock
      /\ d.known = TRUE
  <2> HIDE DEF q
  <2> QED
    BY <1>1 DEF Conns
<1>3. Pushed(c, i) = IF c.step = "idle" THEN Loop(d) ELSE d
  BY DEF Pushed
<1> HIDE DEF d
<1>4. CASE c.step = "idle"
  BY <1>2, <1>3, <1>4, Looped DEF Live
<1>5. CASE c.step # "idle"
  BY <1>2, <1>3, <1>5 DEF Live
<1> QED
  BY <1>4, <1>5

\* The steps of a connection: each follows, but for a dial.
LEMMA ConnSteps ==
  ASSUME NEW c \in Conns, Works(c)
  PROVE  /\ c.step = "register" => /\ Dials(c) \in Conns /\ Works(Dials(c))
                                   /\ Dials(c).known = c.known
         /\ Follows(c, Fails(c)) /\ Follows(c, DialFails(c))
         /\ c.sock = "dialling" => Follows(c, Opens(c))
         /\ c.step = "pace" => Follows(c, Sends(c))
         /\ c.sock = "open" => Follows(c, Closing(c))
         /\ Follows(c, SockGone(c)) /\ Follows(c, Destroyed(c))
         /\ c.leaving > 0 => Follows(c, LeavingGone(c))
         /\ c.strays > 0 => Follows(c, StrayGone(c))
<1>1. ASSUME c.step = "register"
      PROVE  Dials(c) \in Conns /\ Works(Dials(c)) /\ Dials(c).known = c.known
  <2> DEFINE l == IF c.sock = "closing" THEN c.leaving + 1 ELSE c.leaving
             t == IF c.sock = "open" THEN c.strays + 1 ELSE c.strays
  <2>1. l \in Nat /\ t \in Nat
    BY DEF Conns
  <2>2. Dials(c) = [c EXCEPT !.step = "dial", !.sock = "dialling", !.held = TRUE,
                             !.leaving = l, !.strays = t]
    BY DEF Dials, Conns
  <2> HIDE DEF l, t
  <2> QED
    BY <1>1, <2>1, <2>2 DEF Conns, Works, Steps, Socks
<1>2. Follows(c, Fails(c))
  BY DEF Follows, Fails, Conns, Works, Live, Steps
<1>3. Follows(c, DialFails(c))
  BY DEF Follows, DialFails, Fails, Conns, Works, Live, Steps, Socks
<1>4. ASSUME c.sock = "dialling"
      PROVE  Follows(c, Opens(c))
  BY <1>4 DEF Follows, Opens, Conns, Works, Live, Steps, Socks
<1>5. ASSUME c.step = "pace"
      PROVE  Follows(c, Sends(c))
  <2> DEFINE q == Tail(c.queue)
             d == [c EXCEPT !.queue = q]
  <2>1. q \in Seq(Bridged)
    BY <1>5 DEF Conns, Works
  <2>2. d \in Conns /\ d.known = c.known /\ d.step = c.step /\ d.sock = c.sock
    <3> HIDE DEF q
    <3> QED
      BY <2>1 DEF Conns
  <2>3. Sends(c) = Loop(d)
    BY DEF Sends
  <2> HIDE DEF d
  <2> QED
    BY <1>5, <2>2, <2>3, Looped DEF Follows, Live
<1>6. ASSUME c.sock = "open"
      PROVE  Follows(c, Closing(c))
  BY <1>6 DEF Follows, Closing, Conns, Works, Live, Socks
<1>7. Follows(c, SockGone(c))
  BY DEF Follows, SockGone, Conns, Works, Live, Socks
<1>8. Follows(c, Destroyed(c))
  BY DEF Follows, Destroyed, Conns, Works, Live, Socks
<1>9. ASSUME c.leaving > 0 PROVE Follows(c, LeavingGone(c))
  <2> DEFINE n == c.leaving - 1
  <2>1. n \in Nat
    BY <1>9 DEF Conns
  <2>2. LeavingGone(c) = [c EXCEPT !.leaving = n, !.held = FALSE]
    BY DEF LeavingGone
  <2> HIDE DEF n
  <2> QED
    BY <2>1, <2>2 DEF Follows, Conns, Works, Live
<1>10. ASSUME c.strays > 0 PROVE Follows(c, StrayGone(c))
  <2> DEFINE n == c.strays - 1
  <2>1. n \in Nat
    BY <1>10 DEF Conns
  <2>2. StrayGone(c) = [c EXCEPT !.strays = n, !.held = FALSE]
    BY DEF StrayGone
  <2> HIDE DEF n
  <2> QED
    BY <2>1, <2>2 DEF Follows, Conns, Works, Live
<1> QED
  BY <1>1, <1>2, <1>3, <1>4, <1>5, <1>6, <1>7, <1>8, <1>9, <1>10

-----------------------------------------------------------------------------
(* The invariant *)

Keys == Senders \X (0..MaxRooms)

\* The pool: every room's senders are finitely many and within the cap.
PoolSound ==
    /\ conns \in [Keys -> Conns] /\ tokens \subseteq Senders
    /\ \A h \in 0..MaxRooms : IsFiniteSet(Pooled(h)) /\ Cardinality(Pooled(h)) <= PoolCap
    /\ \A k \in Keys : Works(conns[k]) /\ (Live(conns[k]) => k[1] \in tokens)

\* The chains: only what goes to the source is in them.
LinkTypes ==
    /\ chain \in [Rooms -> Seq(Bridged)] /\ stage \in [Rooms -> Stages]
    /\ via \in [Rooms -> 0..MaxRooms]

\* A chain that is not empty has its head in hand.
HeadInHand == \A g \in Rooms : (stage[g] = "idle") = (chain[g] = <<>>)

\* A delivery that waits on the pool waits on a drain with something to send.
DrainRuns ==
    \A g \in Rooms : stage[g] = "sending" =>
        LET c == conns[<<From(g), via[g]>>] IN c.step # "idle" /\ c.queue # <<>>

\* The publishes: only messages of the source's users.
PubSound ==
    /\ pub \in [Texts -> PubSteps] /\ signers \subseteq Senders /\ relay \subseteq Msgs
    /\ \A x \in Texts : (pub[x] # "unsaid" => x \in Msgs) /\ (pub[x] = "published" => x \in relay)

\* Rooms, and everything else: as many closes as there were rooms, at most.
RoomSound ==
    /\ room \in 0..MaxRooms /\ opened \in 0..MaxRooms /\ gone \in 0..MaxRooms
    /\ gone <= opened /\ (room # 0 => room = opened /\ gone < opened)

RestTypes ==
    /\ fingerprints \in [Rooms -> SUBSET (Texts \X Names)] /\ nameCache \subseteq Senders
    /\ arrived \in 0..MaxArrivals /\ restarts \in 0..MaxRestarts
    /\ sent \subseteq Bridged /\ lapsed \subseteq Rooms \X Texts /\ clean \in BOOLEAN

\* A connection of a room that closed with nothing past its check.
Still(c) == c.step = "idle" /\ ~Present(c)

ClosedStill ==
    room = 0 /\ clean =>
        /\ \A g \in Rooms : stage[g] \notin {"fetching", "sending"}
        /\ \A k \in Keys : Still(conns[k])

DeliveryInv ==
    PoolSound /\ LinkTypes /\ HeadInHand /\ DrainRuns /\ PubSound /\ RoomSound /\ RestTypes
    /\ ClosedStill

\* What the properties ask of it.
LEMMA InvSuffices ==
  ASSUME DeliveryInv
  PROVE  TypeOK /\ NoEcho /\ ChainMoves /\ ClosedQuiet /\ PublishedIsStored
<1> USE DEF DeliveryInv
<1>1. TypeOK
  <2>1. /\ Bridged \subseteq Items /\ relay \subseteq Texts /\ sent \subseteq Items
        /\ chain \in [Rooms -> Seq(Items)]
    <3>1. Bridged \subseteq Items
      BY DEF Bridged
    <3>2. relay \subseteq Texts
      BY DEF Texts, PubSound
    <3>3. sent \subseteq Items
      BY <3>1 DEF RestTypes
    <3>4. Seq(Bridged) \subseteq Seq(Items)
      <4> HIDE DEF Bridged
      <4> QED
        BY <3>1
    <3>5. chain \in [Rooms -> Seq(Items)]
      BY <3>4 DEF LinkTypes
    <3> QED
      BY <3>1, <3>2, <3>3, <3>5
  <2>2. DOMAIN conns = Keys
    BY DEF PoolSound
  <2>3. \A k \in Keys : IsConn(conns[k], Items)
    <3> TAKE k \in Keys
    <3>1. conns[k] \in Conns
      BY DEF PoolSound
    <3> QED
      BY <2>1, <3>1 DEF Conns, IsConn
  <2> QED
    BY <2>1, <2>2, <2>3
    DEF TypeOK, PoolSound, LinkTypes, PubSound, RoomSound, RestTypes, Keys
<1>2. NoEcho
  BY DEF NoEcho, RestTypes, PubSound, Bridged
<1>3. ChainMoves
  BY DEF ChainMoves, HeadInHand, DrainRuns
<1>4. ClosedQuiet
  BY DEF ClosedQuiet, ClosedStill, Still, PoolSound
<1>5. PublishedIsStored
  BY DEF PublishedIsStored, PubSound
<1> QED
  BY <1>1, <1>2, <1>3, <1>4, <1>5

LEMMA InitEstablishes == Init => DeliveryInv
<1> SUFFICES ASSUME Init PROVE DeliveryInv
  OBVIOUS
<1> USE DEF Init
<1>1. PoolSound
  <2>1. New \in Conns /\ Works(New) /\ ~Live(New) /\ New.known = FALSE
    BY DEF New, Conns, Works, Live, Steps, Socks
  <2>2. conns \in [Keys -> Conns] /\ \A k \in Keys : conns[k] = New
    BY <2>1 DEF Blank, Keys
  <2>3. ASSUME NEW h \in 0..MaxRooms
        PROVE  Pooled(h) = {}
    BY <2>1, <2>2 DEF Pooled, Keys
  <2>4. 0 <= PoolCap
    BY DeliveryAssumption
  <2> QED
    BY <2>1, <2>2, <2>3, <2>4, FS_EmptySet DEF PoolSound
<1>2. LinkTypes /\ HeadInHand /\ DrainRuns
  BY DeliveryAssumption DEF LinkTypes, HeadInHand, DrainRuns, Stages
<1>3. PubSound
  BY DEF PubSound, PubSteps, Ended
<1>4. RoomSound /\ RestTypes
  BY DeliveryAssumption DEF RoomSound, RestTypes, Names
<1>5. ClosedStill
  BY DEF ClosedStill, Still, Present, Blank, Keys, New
<1> QED
  BY <1>1, <1>2, <1>3, <1>4, <1>5 DEF DeliveryInv

-----------------------------------------------------------------------------
(* The chains *)

\* What is left of a sequence is empty when there was only one.
LEMMA TailEmpties ==
  ASSUME NEW S, NEW q \in Seq(S), q # <<>>
  PROVE  Tail(q) # <<>> <=> Len(q) > 1
<1>1. Len(q) \in Nat \ {0}
  OBVIOUS
<1>2. Len(Tail(q)) = Len(q) - 1 /\ Tail(q) \in Seq(S)
  OBVIOUS
<1>3. Tail(q) = <<>> <=> Len(Tail(q)) = 0
  BY <1>2, EmptySeq
<1>4. Tail(q) = <<>> <=> Len(q) - 1 = 0
  BY <1>2, <1>3
<1>5. Len(q) - 1 = 0 <=> ~(Len(q) > 1)
  <2>1. \A n \in Nat \ {0} : n - 1 = 0 <=> ~(n > 1)
    OBVIOUS
  <2> QED
    BY <1>1, <2>1
<1> QED
  BY <1>4, <1>5, Zenon

\* Deliveries that are over leave; the next ones start with a name.
LEMMA Linked ==
  ASSUME LinkTypes, HeadInHand, NEW G \in SUBSET Rooms, \A g \in G : stage[g] # "idle",
         NextLink(G)
  PROVE  /\ chain' \in [Rooms -> Seq(Bridged)] /\ stage' \in [Rooms -> Stages] /\ HeadInHand'
         /\ \A g \in Rooms : stage'[g] \in {"fetching", "sending"} =>
               g \notin G /\ stage'[g] = stage[g] /\ chain'[g] = chain[g]
<1>1. ASSUME NEW g \in Rooms, g \notin G
      PROVE  chain'[g] = chain[g] /\ stage'[g] = stage[g]
  BY <1>1 DEF NextLink, LinkTypes
<1>2. ASSUME NEW g \in G
      PROVE  /\ chain'[g] \in Seq(Bridged) /\ stage'[g] \in {"naming", "idle"}
             /\ (stage'[g] = "idle") = (chain'[g] = <<>>)
  <2>1. chain[g] \in Seq(Bridged) /\ chain[g] # <<>>
    BY DEF LinkTypes, HeadInHand
  <2>2. chain'[g] = Tail(chain[g]) /\ chain'[g] \in Seq(Bridged)
    BY <2>1 DEF NextLink
  <2>3. CASE Len(chain[g]) > 1
    <3>1. stage'[g] = "naming"
      BY <2>3 DEF NextLink
    <3>2. chain'[g] # <<>>
      BY <2>1, <2>2, <2>3, TailEmpties
    <3> QED
      BY <2>2, <3>1, <3>2
  <2>4. CASE ~(Len(chain[g]) > 1)
    <3>1. stage'[g] = "idle"
      BY <2>4 DEF NextLink
    <3>2. chain'[g] = <<>>
      BY <2>1, <2>2, <2>4, TailEmpties
    <3> QED
      BY <2>2, <3>1, <3>2
  <2> QED
    BY <2>3, <2>4
<1>3. chain' \in [Rooms -> Seq(Bridged)]
  <2>1. chain' = [g \in Rooms |-> chain'[g]]
    BY DEF NextLink
  <2> QED
    BY <1>1, <1>2, <2>1 DEF LinkTypes
<1>4. stage' \in [Rooms -> Stages]
  <2>1. stage' = [g \in Rooms |-> stage'[g]]
    BY DEF NextLink
  <2> QED
    BY <1>1, <1>2, <2>1 DEF LinkTypes, Stages
<1>5. HeadInHand'
  BY <1>1, <1>2 DEF HeadInHand
<1> QED
  BY <1>1, <1>2, <1>3, <1>4, <1>5

\* The sender of a delivery in hand.
LEMMA InHand ==
  ASSUME LinkTypes, HeadInHand, NEW g \in Rooms, stage[g] # "idle"
  PROVE  Hand(g) \in Bridged /\ From(g) \in Senders
<1>1. chain[g] \in Seq(Bridged) /\ chain[g] # <<>>
  BY DEF LinkTypes, HeadInHand
<1>2. Hand(g) \in Bridged
  BY <1>1 DEF Hand
<1> QED
  BY <1>2 DEF From, Senders, Bridged, Items

-----------------------------------------------------------------------------
(* Steps *)

\* A pool that changes at no sender's known flag keeps within its cap.
LEMMA PoolKept ==
  ASSUME PoolSound, conns' \in [Keys -> Conns], tokens' \subseteq Senders,
         \A k \in Keys : /\ conns'[k].known = conns[k].known
                         /\ Works(conns'[k]) /\ (Live(conns'[k]) => k[1] \in tokens')
  PROVE  PoolSound'
<1>1. ASSUME NEW h \in 0..MaxRooms
      PROVE  Pooled(h)' = Pooled(h)
  BY <1>1 DEF Pooled, Keys
<1> QED
  BY <1>1 DEF PoolSound

\* A step of one connection, with the deliveries that waited on it.
LEMMA ConnStep ==
  ASSUME DeliveryInv, NEW k \in Keys, NEW c \in Conns, Works(c), c.known = conns[k].known,
         Live(c) => k[1] \in tokens', tokens \subseteq tokens', tokens' \subseteq Senders,
         room = 0 /\ clean => Still(c), Conn(k, c), UNCHANGED <<room, clean, via>>
  PROVE  PoolSound' /\ LinkTypes' /\ HeadInHand' /\ DrainRuns' /\ ClosedStill'
<1> USE DEF DeliveryInv
<1>1. conns \in [Keys -> Conns] /\ conns' = [conns EXCEPT ![k] = c]
  BY DEF PoolSound, Conn
<1>2. /\ conns' \in [Keys -> Conns] /\ conns'[k] = c
      /\ \A j \in Keys : j # k => conns'[j] = conns[j]
  BY <1>1
<1>3. PoolSound'
  <2>1. ASSUME NEW j \in Keys
        PROVE  /\ conns'[j].known = conns[j].known
               /\ Works(conns'[j]) /\ (Live(conns'[j]) => j[1] \in tokens')
    BY <1>2 DEF PoolSound
  <2> QED
    BY <1>2, <2>1, PoolKept
<1>4. /\ Freed(k, c) \in SUBSET Rooms /\ \A g \in Freed(k, c) : stage[g] # "idle"
      /\ NextLink(Freed(k, c))
  BY DEF Freed, Conn
<1> DEFINE G == Freed(k, c)
<1>5. /\ chain' \in [Rooms -> Seq(Bridged)] /\ stage' \in [Rooms -> Stages] /\ HeadInHand'
      /\ \A g \in Rooms : stage'[g] \in {"fetching", "sending"} =>
               g \notin G /\ stage'[g] = stage[g] /\ chain'[g] = chain[g]
  <2> HIDE DEF G
  <2>1. G \in SUBSET Rooms /\ (\A g \in G : stage[g] # "idle") /\ NextLink(G)
    BY <1>4 DEF G
  <2> QED
    BY <2>1, Linked
<1>6. LinkTypes'
  BY <1>5 DEF LinkTypes
<1>7. DrainRuns'
  <2>1. SUFFICES ASSUME NEW g \in Rooms, stage'[g] = "sending"
                 PROVE  LET d == conns'[<<From(g)', via'[g]>>] IN d.step # "idle" /\ d.queue # <<>>
    BY DEF DrainRuns
  <2>2. g \notin G /\ stage[g] = "sending" /\ chain'[g] = chain[g] /\ via' = via
    BY <1>5, <2>1
  <2> DEFINE j == <<From(g), via[g]>>
  <2>3. From(g)' = From(g) /\ j \in Keys
    <3>1. From(g) \in Senders
      BY <2>2, InHand
    <3>2. From(g)' = From(g)
      BY <2>2 DEF From, Hand
    <3> QED
      BY <3>1, <3>2 DEF Keys, LinkTypes
  <2>4. conns[j].step # "idle" /\ conns[j].queue # <<>>
    BY <2>2 DEF DrainRuns
  <2>5. CASE j # k
    <3>1. conns'[j] = conns[j]
      BY <1>2, <2>3, <2>5
    <3> QED
      BY <2>2, <2>3, <2>4, <3>1
  <2>6. CASE j = k
    <3>1. c.step # "idle"
      BY <2>2, <2>6 DEF Freed
    <3>2. c.queue # <<>>
      BY <3>1 DEF Works
    <3> QED
      BY <1>2, <2>2, <2>3, <2>6, <3>1, <3>2
  <2> QED
    BY <2>5, <2>6
<1>8. ClosedStill'
  BY <1>2, <1>5 DEF ClosedStill
<1> QED
  BY <1>3, <1>5, <1>6, <1>7, <1>8

\* A connection follows, and nothing else of the pool changes.
LEMMA FollowStep ==
  ASSUME DeliveryInv, NEW k \in Keys, NEW c, Follows(conns[k], c), Conn(k, c),
         room = 0 /\ clean => Still(c), UNCHANGED <<room, clean, via, tokens>>
  PROVE  PoolSound' /\ LinkTypes' /\ HeadInHand' /\ DrainRuns' /\ ClosedStill'
<1>1. /\ c \in Conns /\ Works(c) /\ c.known = conns[k].known
      /\ Live(c) => k[1] \in tokens'
      /\ tokens \subseteq tokens' /\ tokens' \subseteq Senders
  BY DEF Follows, DeliveryInv, PoolSound
<1>2. UNCHANGED <<room, clean, via>>
  OBVIOUS
<1> QED
  BY <1>1, <1>2, ConnStep

LEMMA RestKept ==
  ASSUME PubSound, RoomSound, RestTypes, UNCHANGED connFrame
  PROVE  PubSound' /\ RoomSound' /\ RestTypes'
BY DEF PubSound, RoomSound, RestTypes, connFrame, roomVars, pubVars, histVars

\* Every step of the pool keeps the invariant.
LEMMA PoolKeeps ==
  ASSUME DeliveryInv, NEW k \in Keys,
         \/ Registers(k) \/ SocketOpens(k) \/ SocketFails(k) \/ Paced(k)
         \/ SocketDrops(k) \/ SocketGone(k) \/ EarlierGone(k)
  PROVE  DeliveryInv'
<1> USE DEF DeliveryInv
<1> DEFINE c == conns[k]
<1>1. c \in Conns /\ Works(c) /\ (Live(c) => k[1] \in tokens) /\ k[1] \in Senders
  BY DEF PoolSound, Keys
<1>2. room = 0 /\ clean => Still(c)
  BY DEF ClosedStill
<1>3. DOMAIN conns = Keys
  BY DEF PoolSound
<1>4. CASE Registers(k)
  <2>1. c.step = "register" /\ UNCHANGED connFrame /\ UNCHANGED <<room, clean, via>>
    BY <1>4 DEF Registers, connFrame, roomVars, histVars
  <2>2. ~(room = 0 /\ clean)
    BY <1>2, <2>1 DEF Still
  <2>3. CASE tokens' = tokens \cup {k[1]} /\ Conn(k, Dials(c))
    <3>1. /\ Dials(c) \in Conns /\ Works(Dials(c)) /\ Dials(c).known = c.known
      BY <1>1, <2>1, ConnSteps
    <3>2. tokens \subseteq tokens' /\ tokens' \subseteq Senders /\ k[1] \in tokens'
      BY <1>1, <2>3 DEF PoolSound
    <3>3. PoolSound' /\ LinkTypes' /\ HeadInHand' /\ DrainRuns' /\ ClosedStill'
      <4> HIDE DEF DeliveryInv
      <4> QED
        BY <2>1, <2>2, <2>3, <3>1, <3>2, ConnStep
    <3> QED
      BY <2>1, <3>3, RestKept
  <2>4. CASE Conn(k, Fails(c)) /\ UNCHANGED tokens
    <3>1. Follows(c, Fails(c))
      BY <1>1, ConnSteps
    <3>2. PoolSound' /\ LinkTypes' /\ HeadInHand' /\ DrainRuns' /\ ClosedStill'
      <4> HIDE DEF DeliveryInv
      <4> QED
        BY <2>1, <2>2, <2>4, <3>1, FollowStep
    <3> QED
      BY <2>1, <3>2, RestKept
  <2> QED
    BY <1>4, <2>3, <2>4 DEF Registers
<1>5. ASSUME NEW d, Follows(c, d), Conn(k, d), room = 0 /\ clean => Still(d),
             UNCHANGED <<connFrame, tokens>>
      PROVE  DeliveryInv'
  <2>1. UNCHANGED <<room, clean, via, tokens>> /\ UNCHANGED connFrame
    BY <1>5 DEF connFrame, roomVars, histVars
  <2>2. PoolSound' /\ LinkTypes' /\ HeadInHand' /\ DrainRuns' /\ ClosedStill'
    <3> HIDE DEF DeliveryInv
    <3> QED
      BY <1>5, <2>1, FollowStep
  <2> QED
    BY <2>1, <2>2, RestKept
<1>6. CASE SocketOpens(k)
  <2>1. c.sock = "dialling" /\ Conn(k, Opens(c)) /\ UNCHANGED <<connFrame, tokens>>
    BY <1>6 DEF SocketOpens
  <2>2. Follows(c, Opens(c)) /\ ~(room = 0 /\ clean)
    BY <1>1, <1>2, <2>1, ConnSteps DEF Still, Present
  <2> QED
    BY <1>5, <2>1, <2>2
<1>7. CASE SocketFails(k)
  <2>1. Conn(k, DialFails(c)) /\ UNCHANGED <<connFrame, tokens>>
    BY <1>7 DEF SocketFails
  <2>2. Follows(c, DialFails(c)) /\ (Still(c) => Still(DialFails(c)))
    BY <1>1, ConnSteps DEF Still, Present, DialFails, Fails, Conns
  <2> QED
    BY <1>2, <1>5, <2>1, <2>2
<1>8. CASE Paced(k)
  <2>1. /\ c.step = "pace" /\ Conn(k, Sends(c))
        /\ UNCHANGED <<room, clean, via, tokens>>
    BY <1>8 DEF Paced, roomVars
  <2>2. Follows(c, Sends(c)) /\ ~(room = 0 /\ clean)
    BY <1>1, <1>2, <2>1, ConnSteps DEF Still
  <2>3. PoolSound' /\ LinkTypes' /\ HeadInHand' /\ DrainRuns' /\ ClosedStill'
    <3> HIDE DEF DeliveryInv
    <3> QED
      BY <2>1, <2>2, FollowStep
  <2>4. ~PassesOn(k[1])
    BY <1>1, <2>1 DEF Live, PassesOn, PoolsOwn
  <2>5. pub' = pub
    BY <1>8, <2>4 DEF Paced
  <2>6. Head(c.queue) \in Bridged
    BY <1>1, <2>1 DEF Conns, Works
  <2>7. sent' \subseteq Bridged
    BY <1>8, <2>6 DEF Paced, RestTypes
  <2>8. UNCHANGED <<roomVars, fingerprints, nameCache, arrived, gone, signers, relay, restarts, lapsed, clean>>
    BY <1>8 DEF Paced
  <2>9. PubSound' /\ RoomSound' /\ RestTypes'
    BY <2>5, <2>7, <2>8 DEF PubSound, RoomSound, RestTypes, roomVars
  <2> QED
    BY <2>3, <2>9
<1>9. CASE SocketDrops(k)
  <2>1. c.sock = "open" /\ Conn(k, Closing(c)) /\ UNCHANGED <<connFrame, tokens>>
    BY <1>9 DEF SocketDrops
  <2>2. Follows(c, Closing(c)) /\ ~(room = 0 /\ clean)
    BY <1>1, <1>2, <2>1, ConnSteps DEF Still, Present
  <2> QED
    BY <1>5, <2>1, <2>2
<1>10. CASE SocketGone(k)
  <2>1. Conn(k, SockGone(c)) /\ UNCHANGED <<connFrame, tokens>>
    BY <1>10 DEF SocketGone
  <2>2. Follows(c, SockGone(c)) /\ (Still(c) => Still(SockGone(c)))
    BY <1>1, ConnSteps DEF Still, Present, SockGone, Conns
  <2> QED
    BY <1>2, <1>5, <2>1, <2>2
<1>11. CASE EarlierGone(k)
  <2>1. CASE c.leaving > 0 /\ Conn(k, LeavingGone(c)) /\ UNCHANGED <<connFrame, tokens>>
    <3>1. Follows(c, LeavingGone(c)) /\ (Still(c) => Still(LeavingGone(c)))
      BY <1>1, <2>1, ConnSteps DEF Still, Present, LeavingGone, Conns
    <3> QED
      BY <1>2, <1>5, <2>1, <3>1
  <2>2. CASE c.strays > 0 /\ Conn(k, StrayGone(c)) /\ UNCHANGED <<connFrame, tokens>>
    <3>1. Follows(c, StrayGone(c)) /\ ~Still(c)
      BY <1>1, <2>2, ConnSteps DEF Still, Present
    <3> QED
      BY <1>2, <1>5, <2>2, <3>1
  <2> QED
    BY <1>11, <2>1, <2>2 DEF EarlierGone
<1> QED
  BY <1>4, <1>6, <1>7, <1>8, <1>9, <1>10, <1>11

\* A publish goes on: the source's own users' messages only.
LEMMA PubKeeps ==
  ASSUME DeliveryInv, NEW x \in Texts,
         \/ Asks(x) \/ Challenged(x) \/ Stores(x) \/ Accepted(x) \/ Refused(x)
         \/ AuthAnswered(x) \/ PublishEnds(x)
  PROVE  DeliveryInv'
<1> USE DEF DeliveryInv
<1>1. UNCHANGED pubFrame
  BY DEF Asks, Challenged, Stores, Accepted, Refused, AuthAnswered, PublishEnds
<1>2. /\ PoolSound' /\ LinkTypes' /\ HeadInHand' /\ DrainRuns' /\ RoomSound' /\ RestTypes'
      /\ ClosedStill'
  <2> SUFFICES ASSUME UNCHANGED <<room, opened, chain, stage, fingerprints, nameCache, arrived,
                                  via, conns, gone, tokens, restarts, sent, lapsed, clean>>
               PROVE  /\ PoolSound' /\ LinkTypes' /\ HeadInHand' /\ DrainRuns' /\ RoomSound'
                      /\ RestTypes' /\ ClosedStill'
    BY <1>1 DEF pubFrame, roomVars, chainVars, poolVars, histVars
  <2>1. PoolSound' /\ LinkTypes' /\ HeadInHand'
    BY DEF PoolSound, LinkTypes, HeadInHand, Pooled
  <2>2. DrainRuns' /\ RoomSound' /\ RestTypes' /\ ClosedStill'
    BY DEF DrainRuns, From, Hand, RoomSound, RestTypes, ClosedStill
  <2> QED
    BY <2>1, <2>2
<1>3. x \in Msgs /\ x \in Texts /\ signers' = signers
  BY DEF PubSound, Asks, Challenged, Stores, Accepted, Refused, AuthAnswered, PublishEnds,
         Going, Ended
<1>4. ASSUME NEW s \in PubSteps, pub' = [pub EXCEPT ![x] = s], relay' = relay,
             s = "published" => x \in relay
      PROVE  PubSound'
  BY <1>3, <1>4 DEF PubSound
<1>5. pub \in [Texts -> PubSteps] /\ {"asked", "called", "owed", "authing", "resent"} \subseteq PubSteps
      /\ {"published", "failed"} \subseteq PubSteps
  BY DEF PubSound, PubSteps, Ended
<1>6. CASE Asks(x)
  BY <1>2, <1>4, <1>5, <1>6 DEF Asks
<1>7. CASE Challenged(x)
  BY <1>2, <1>4, <1>5, <1>7 DEF Challenged
<1>8. CASE Stores(x)
  <2>1. pub' = pub /\ relay' = relay \cup {x}
    BY <1>8 DEF Stores
  <2>2. PubSound'
    BY <1>3, <2>1 DEF PubSound
  <2> QED
    BY <1>2, <2>2
<1>9. CASE Accepted(x)
  BY <1>2, <1>4, <1>5, <1>9 DEF Accepted
<1>10. CASE Refused(x)
  <2>1. relay' = relay /\ \E s \in {"owed", "authing", "failed"} : pub' = [pub EXCEPT ![x] = s]
    <3>1. PICK auth \in BOOLEAN :
            pub' = [pub EXCEPT ![x] = CASE auth /\ pub[x] = "asked" -> "owed"
                                        [] auth /\ pub[x] = "called" -> "authing"
                                        [] OTHER -> "failed"]
      BY <1>5, <1>10 DEF Refused
    <3>2. CASE auth /\ pub[x] = "asked"
      BY <1>10, <3>1, <3>2 DEF Refused
    <3>3. CASE auth /\ pub[x] = "called"
      BY <1>10, <3>1, <3>3 DEF Refused
    <3>4. CASE ~(auth /\ pub[x] = "asked") /\ ~(auth /\ pub[x] = "called")
      BY <1>10, <3>1, <3>4 DEF Refused
    <3> QED
      BY <3>2, <3>3, <3>4
  <2> QED
    BY <1>2, <1>4, <1>5, <2>1
<1>11. CASE AuthAnswered(x)
  BY <1>2, <1>4, <1>5, <1>11 DEF AuthAnswered
<1>12. CASE PublishEnds(x)
  BY <1>2, <1>4, <1>5, <1>12 DEF PublishEnds
<1> QED
  BY <1>6, <1>7, <1>8, <1>9, <1>10, <1>11, <1>12

LEMMA SayKeeps ==
  ASSUME DeliveryInv, NEW x \in Texts, Say(x)
  PROVE  DeliveryInv'
<1> USE DEF DeliveryInv, Say
<1>1. UNCHANGED <<room, opened, chain, stage, nameCache, arrived, via, conns, gone, tokens, relay,
                  restarts, sent, lapsed, clean>>
  BY DEF roomVars, poolVars, histVars
<1>2. PoolSound' /\ LinkTypes' /\ HeadInHand' /\ DrainRuns'
  BY <1>1 DEF PoolSound, LinkTypes, HeadInHand, Pooled, DrainRuns, From, Hand
<1>3. RoomSound' /\ ClosedStill'
  BY <1>1 DEF RoomSound, ClosedStill
<1>4. RestTypes'
  <2>1. room \in Rooms /\ <<x, "name">> \in Texts \X Names
    BY DEF RoomSound, PassesOn, Rooms, Names
  <2>2. fingerprints' = [fingerprints EXCEPT ![room] = @ \cup {<<x, "name">>}]
    BY DEF Add
  <2>3. fingerprints' \in [Rooms -> SUBSET (Texts \X Names)]
    BY <2>1, <2>2 DEF RestTypes
  <2> QED
    BY <1>1, <2>3 DEF RestTypes
<1>5. PubSound'
  <2>1. x \in Msgs /\ Author[x] \in Senders
    BY DEF Senders
  <2>2. pub' = [pub EXCEPT ![x] = "dialling"] /\ "dialling" \in PubSteps /\ relay' = relay
    BY <1>1 DEF Publish, PubSteps
  <2> QED
    BY <2>1, <2>2 DEF PubSound
<1> QED
  BY <1>2, <1>3, <1>4, <1>5

LEMMA RoomKeeps ==
  ASSUME DeliveryInv, OpenRoom \/ CloseRoom
  PROVE  DeliveryInv'
<1> USE DEF DeliveryInv
<1>1. CASE OpenRoom
  <2>1. UNCHANGED <<chain, stage, fingerprints, nameCache, arrived, via, conns, gone, tokens, pub,
                    signers, relay, restarts, sent, lapsed, clean>>
    BY <1>1 DEF OpenRoom, chainVars, poolVars, pubVars, histVars
  <2>2. PoolSound' /\ LinkTypes' /\ HeadInHand' /\ DrainRuns'
    BY <2>1 DEF PoolSound, LinkTypes, HeadInHand, Pooled, DrainRuns, From, Hand
  <2>3. PubSound' /\ RestTypes'
    BY <2>1 DEF PubSound, RestTypes
  <2>4. RoomSound' /\ room' # 0
    BY <1>1, <2>1, DeliveryAssumption DEF OpenRoom, RoomSound
  <2> QED
    BY <2>2, <2>3, <2>4 DEF ClosedStill
<1>2. CASE CloseRoom
  <2>1. UNCHANGED <<opened, chain, stage, fingerprints, nameCache, arrived, via, tokens, pub,
                    signers, relay, restarts, sent, lapsed>>
    BY <1>2 DEF CloseRoom, chainVars, pubVars
  <2>2. conns \in [Keys -> Conns] /\ DOMAIN conns = Keys
    BY DEF PoolSound
  <2>3. \A k \in Keys : conns'[k] = IF k[2] = gone THEN Destroyed(conns[k]) ELSE conns[k]
    BY <1>2, <2>2 DEF CloseRoom
  <2>4. \A k \in Keys : Follows(conns[k], conns'[k]) /\ conns'[k].step = conns[k].step
                        /\ conns'[k].queue = conns[k].queue
    <3> TAKE k \in Keys
    <3>1. conns[k] \in Conns /\ Works(conns[k])
      BY DEF PoolSound
    <3>2. /\ Follows(conns[k], Destroyed(conns[k])) /\ Destroyed(conns[k]).step = conns[k].step
          /\ Destroyed(conns[k]).queue = conns[k].queue
      BY <3>1, ConnSteps DEF Destroyed, Conns
    <3>3. Follows(conns[k], conns[k])
      BY <3>1 DEF Follows
    <3> QED
      BY <2>3, <3>2, <3>3
  <2>5. conns' \in [Keys -> Conns]
    <3>1. conns' = [k \in Keys |-> conns'[k]]
      BY <1>2, <2>2 DEF CloseRoom
    <3> QED
      BY <2>4, <3>1 DEF Follows
  <2>6. PoolSound'
    <3>1. ASSUME NEW k \in Keys
          PROVE  /\ conns'[k].known = conns[k].known
                 /\ Works(conns'[k]) /\ (Live(conns'[k]) => k[1] \in tokens')
      BY <2>1, <2>4 DEF PoolSound, Follows
    <3>2. tokens' \subseteq Senders
      BY <2>1 DEF PoolSound
    <3> QED
      BY <2>5, <3>1, <3>2, PoolKept
  <2>7. LinkTypes' /\ HeadInHand'
    BY <2>1 DEF LinkTypes, HeadInHand
  <2>8. DrainRuns'
    <3> SUFFICES ASSUME NEW g \in Rooms, stage[g] = "sending"
                 PROVE  LET d == conns'[<<From(g), via[g]>>] IN d.step # "idle" /\ d.queue # <<>>
      BY <2>1 DEF DrainRuns, From, Hand
    <3>1. <<From(g), via[g]>> \in Keys
      BY InHand DEF Keys, LinkTypes
    <3> QED
      BY <2>4, <3>1 DEF DrainRuns
  <2>9. PubSound'
    BY <2>1 DEF PubSound
  <2>10. RoomSound' /\ RestTypes'
    <3>1. clean' \in BOOLEAN
      BY <1>2 DEF CloseRoom, Quiet
    <3>2. RestTypes'
      BY <2>1, <3>1 DEF RestTypes
    <3>3. RoomSound'
      BY <1>2, <2>1, DeliveryAssumption DEF CloseRoom, RoomSound
    <3> QED
      BY <3>2, <3>3
  <2>11. ClosedStill'
    <3> SUFFICES ASSUME clean'
                 PROVE  /\ \A g \in Rooms : stage'[g] \notin {"fetching", "sending"}
                        /\ \A k \in Keys : Still(conns'[k])
      BY DEF ClosedStill
    <3>1. Quiet
      BY <1>2 DEF CloseRoom
    <3>2. ASSUME NEW k \in Keys
          PROVE  Still(conns'[k])
      <4>1. conns[k].step = "idle" /\ ~Stray(conns[k]) /\ (k[2] # gone => ~Present(conns[k]))
        BY <2>2, <3>1 DEF Quiet
      <4>2. CASE k[2] # gone
        BY <2>3, <4>1, <4>2 DEF Still
      <4>3. CASE k[2] = gone
        <5>1. conns[k] \in Conns
          BY <2>2
        <5>2. ~Present(Destroyed(conns[k]))
          BY <4>1, <5>1 DEF Present, Destroyed, Stray, Conns
        <5> QED
          BY <2>3, <2>4, <4>1, <4>3, <5>2 DEF Still
      <4> QED
        BY <4>2, <4>3
    <3> QED
      BY <2>1, <3>1, <3>2 DEF Quiet
  <2> QED
    BY <2>6, <2>7, <2>8, <2>9, <2>10, <2>11
<1> QED
  BY <1>1, <1>2

\* What is not ours is an event of a Nostr viewer.
LEMMA ArriveKeeps ==
  ASSUME DeliveryInv, NEW x \in Texts, Arrive(x)
  PROVE  DeliveryInv'
<1> USE DEF DeliveryInv, Arrive
<1>1. UNCHANGED <<room, opened, fingerprints, nameCache, via, conns, gone, tokens, pub, signers,
                  relay, restarts, sent, lapsed, clean>>
  BY DEF roomVars, poolVars, pubVars, histVars
<1> DEFINE i == [text |-> x, no |-> arrived', room |-> room]
<1>2. room \in Rooms /\ arrived' \in 1..MaxArrivals
  BY DeliveryAssumption DEF RoomSound, Rooms, RestTypes
<1>3. i \in Bridged
  <2>1. x \in Events
    BY DEF PubSound, Ours
  <2> QED
    BY <1>2, <2>1 DEF Bridged, Items
<1> HIDE DEF i
<1>4. /\ chain' = [chain EXCEPT ![room] = Append(@, i)]
      /\ stage' = [stage EXCEPT ![room] = IF @ = "idle" THEN "naming" ELSE @]
  BY DEF i
<1>5. /\ chain'[room] = Append(chain[room], i) /\ chain[room] \in Seq(Bridged)
      /\ stage'[room] = IF stage[room] = "idle" THEN "naming" ELSE stage[room]
      /\ \A g \in Rooms : g # room => chain'[g] = chain[g] /\ stage'[g] = stage[g]
  BY <1>2, <1>4 DEF LinkTypes
<1>6. chain'[room] \in Seq(Bridged) /\ chain'[room] # <<>>
      /\ (chain[room] # <<>> => Head(chain'[room]) = Head(chain[room]))
  BY <1>3, <1>5
<1>7. LinkTypes'
  <2>1. chain' \in [Rooms -> Seq(Bridged)]
    BY <1>2, <1>4, <1>5, <1>6 DEF LinkTypes
  <2>2. stage' \in [Rooms -> Stages]
    BY <1>2, <1>4 DEF LinkTypes, Stages
  <2> QED
    BY <1>1, <2>1, <2>2 DEF LinkTypes
<1>8. HeadInHand'
  <2> SUFFICES ASSUME NEW g \in Rooms
               PROVE  (stage'[g] = "idle") = (chain'[g] = <<>>)
    BY DEF HeadInHand
  <2>1. CASE g = room
    BY <1>5, <1>6, <2>1
  <2>2. CASE g # room
    BY <1>5, <2>2 DEF HeadInHand
  <2> QED
    BY <2>1, <2>2
<1>9. DrainRuns'
  <2>1. SUFFICES ASSUME NEW g \in Rooms, stage'[g] = "sending"
                 PROVE  LET d == conns'[<<From(g)', via'[g]>>] IN d.step # "idle" /\ d.queue # <<>>
    BY DEF DrainRuns
  <2>2. stage[g] = "sending"
    BY <1>5, <2>1
  <2>3. Head(chain'[g]) = Head(chain[g])
    BY <1>5, <1>6, <2>2 DEF HeadInHand
  <2>4. From(g)' = From(g)
    BY <2>3 DEF From, Hand
  <2> QED
    BY <1>1, <2>2, <2>4 DEF DrainRuns
<1>10. PoolSound' /\ PubSound' /\ RoomSound'
  BY <1>1 DEF PoolSound, PubSound, RoomSound, Pooled
<1>11. RestTypes'
  BY <1>1, <1>2 DEF RestTypes
<1>12. ClosedStill'
  BY <1>1 DEF ClosedStill
<1> QED
  BY <1>7, <1>8, <1>9, <1>10, <1>11, <1>12

\* The delivery in hand is over, and the pool is left alone.
LEMMA HandOver ==
  ASSUME DeliveryInv, NEW g \in Rooms, stage[g] # "idle", NextLink({g}),
         UNCHANGED <<room, via, conns, gone, tokens, clean>>
  PROVE  PoolSound' /\ LinkTypes' /\ HeadInHand' /\ DrainRuns' /\ ClosedStill'
<1> USE DEF DeliveryInv
<1>1. /\ chain' \in [Rooms -> Seq(Bridged)] /\ stage' \in [Rooms -> Stages] /\ HeadInHand'
      /\ \A h \in Rooms : stage'[h] \in {"fetching", "sending"} =>
               h \notin {g} /\ stage'[h] = stage[h] /\ chain'[h] = chain[h]
  <2>1. {g} \in SUBSET Rooms /\ \A h \in {g} : stage[h] # "idle"
    OBVIOUS
  <2> QED
    BY <2>1, Linked
<1>2. PoolSound' /\ LinkTypes'
  BY <1>1 DEF PoolSound, LinkTypes, Pooled
<1>3. DrainRuns'
  BY <1>1 DEF DrainRuns, From, Hand
<1>4. ClosedStill'
  BY <1>1 DEF ClosedStill
<1> QED
  BY <1>1, <1>2, <1>3, <1>4

\* The delivery in hand goes on to a stage that does not wait on the pool.
LEMMA StageMoves ==
  ASSUME DeliveryInv, NEW g \in Rooms, stage[g] # "idle",
         NEW s \in {"rendering", "fetching"}, stage' = [stage EXCEPT ![g] = s],
         s = "fetching" => room # 0, UNCHANGED <<chain, room, via, conns, gone, tokens, clean>>
  PROVE  PoolSound' /\ LinkTypes' /\ HeadInHand' /\ DrainRuns' /\ ClosedStill'
<1> USE DEF DeliveryInv
<1>1. /\ stage' \in [Rooms -> Stages] /\ stage'[g] = s
      /\ \A h \in Rooms : h # g => stage'[h] = stage[h]
  BY DEF LinkTypes, Stages
<1>2. PoolSound' /\ LinkTypes'
  BY <1>1 DEF PoolSound, LinkTypes, Pooled
<1>3. HeadInHand'
  BY <1>1 DEF HeadInHand
<1>4. DrainRuns'
  BY <1>1 DEF DrainRuns, From, Hand
<1>5. ClosedStill'
  BY <1>1 DEF ClosedStill
<1> QED
  BY <1>2, <1>3, <1>4, <1>5

\* The pool takes or refuses the delivery in hand of the open room.
LEMMA PoolTakes ==
  ASSUME DeliveryInv, NEW g \in Rooms, stage[g] # "idle", PoolSend(g), ~(room = 0 /\ clean),
         UNCHANGED <<room, gone, tokens, clean>>
  PROVE  PoolSound' /\ LinkTypes' /\ HeadInHand' /\ DrainRuns' /\ ClosedStill'
<1> USE DEF DeliveryInv
<1> DEFINE s == From(g)
           k == <<s, gone>>
<1>1. Hand(g) \in Bridged /\ s \in Senders
  BY InHand
<1>2. gone \in 0..MaxRooms /\ k \in Keys /\ k[1] = s /\ k[2] = gone
  BY <1>1 DEF RoomSound, Keys
<1>3. CASE s \notin Pooled(gone) /\ Cardinality(Pooled(gone)) >= PoolCap
  <2>1. NextLink({g}) /\ UNCHANGED <<room, via, conns, gone, tokens, clean>>
    BY <1>3 DEF PoolSend
  <2> QED
    BY <2>1, HandOver
<1>4. CASE ~(s \notin Pooled(gone) /\ Cardinality(Pooled(gone)) >= PoolCap)
  <2>1. /\ conns' = [conns EXCEPT ![k] = Pushed(@, Hand(g))] /\ chain' = chain
        /\ stage' = [stage EXCEPT ![g] = "sending"] /\ via' = [via EXCEPT ![g] = gone]
    BY <1>4 DEF PoolSend, Queued
  <2> DEFINE d == Pushed(conns[k], Hand(g))
  <2>2. conns \in [Keys -> Conns] /\ conns[k] \in Conns
    BY <1>2 DEF PoolSound
  <2>3. d \in Conns /\ d.step # "idle" /\ d.queue # <<>> /\ d.known = TRUE /\ (Live(d) => Live(conns[k]))
    BY <1>1, <2>2, Sent
  <2> HIDE DEF d
  <2>4. /\ conns' \in [Keys -> Conns] /\ conns'[k] = d
        /\ \A j \in Keys : j # k => conns'[j] = conns[j]
    BY <1>2, <2>1, <2>2, <2>3 DEF d
  <2>5. ASSUME NEW h \in 0..MaxRooms
        PROVE  IsFiniteSet(Pooled(h)') /\ Cardinality(Pooled(h)') <= PoolCap
    <3>1. IsFiniteSet(Pooled(h)) /\ Cardinality(Pooled(h)) <= PoolCap
      BY DEF PoolSound
    <3>2. CASE h # gone
      <4>1. Pooled(h)' = Pooled(h)
        BY <2>4, <3>2 DEF Pooled, Keys
      <4> QED
        BY <3>1, <4>1
    <3>3. CASE h = gone
      <4>1. Pooled(h)' = Pooled(h) \cup {s}
        <5>1. ASSUME NEW t \in Senders
              PROVE  t \in Pooled(h)' <=> t \in Pooled(h) \cup {s}
          <6>1. CASE t = s
            BY <1>1, <2>3, <2>4, <3>3, <6>1 DEF Pooled
          <6>2. CASE t # s
            BY <2>4, <3>3, <6>2 DEF Pooled, Keys
          <6> QED
            BY <6>1, <6>2
        <5> QED
          BY <1>1, <5>1 DEF Pooled
      <4>2. CASE s \in Pooled(h)
        BY <3>1, <4>1, <4>2, FS_AddElement
      <4>3. CASE s \notin Pooled(h)
        <5>1. Cardinality(Pooled(h)) \in Nat /\ PoolCap \in Nat /\ Cardinality(Pooled(h)) < PoolCap
          BY <1>4, <3>1, <3>3, <4>3, FS_CardinalityType, DeliveryAssumption
        <5>2. IsFiniteSet(Pooled(h) \cup {s})
              /\ Cardinality(Pooled(h) \cup {s}) = Cardinality(Pooled(h)) + 1
          BY <3>1, <4>3, FS_AddElement
        <5> QED
          BY <4>1, <5>1, <5>2
      <4> QED
        BY <4>2, <4>3
    <3> QED
      BY <3>2, <3>3
  <2>6. ASSUME NEW j \in Keys
        PROVE  Works(conns'[j]) /\ (Live(conns'[j]) => j[1] \in tokens')
    BY <1>2, <2>3, <2>4 DEF PoolSound, Works
  <2>7. PoolSound'
    BY <2>4, <2>5, <2>6 DEF PoolSound
  <2>8. LinkTypes' /\ HeadInHand'
    BY <1>2, <2>1 DEF LinkTypes, Stages, HeadInHand
  <2>9. DrainRuns'
    <3> SUFFICES ASSUME NEW h \in Rooms, stage'[h] = "sending"
                 PROVE  LET e == conns'[<<From(h), via'[h]>>] IN e.step # "idle" /\ e.queue # <<>>
      BY <2>1 DEF DrainRuns, From, Hand
    <3>1. CASE h = g
      <4>1. via'[h] = gone
        BY <1>2, <2>1, <3>1 DEF LinkTypes
      <4> QED
        BY <2>3, <2>4, <3>1, <4>1
    <3>2. CASE h # g
      <4>1. stage[h] = "sending" /\ via'[h] = via[h]
        BY <2>1, <3>2 DEF LinkTypes
      <4>2. <<From(h), via[h]>> \in Keys
        BY <4>1, InHand DEF Keys, LinkTypes
      <4>3. conns[<<From(h), via[h]>>].step # "idle" /\ conns[<<From(h), via[h]>>].queue # <<>>
        BY <4>1 DEF DrainRuns
      <4> QED
        BY <2>3, <2>4, <4>1, <4>2, <4>3
    <3> QED
      BY <3>1, <3>2
  <2>10. ClosedStill'
    BY DEF ClosedStill
  <2> QED
    BY <2>7, <2>8, <2>9, <2>10
<1> QED
  BY <1>3, <1>4

\* What a delivery leaves alone.
LEMMA ChainRest ==
  ASSUME PubSound, RoomSound, RestTypes,
         UNCHANGED <<roomVars, fingerprints, arrived, gone, pubVars, restarts, histVars>>,
         nameCache' \subseteq Senders
  PROVE  PubSound' /\ RoomSound' /\ RestTypes'
BY DEF PubSound, RoomSound, RestTypes, roomVars, pubVars, histVars

\* The steps of the delivery in hand.
LEMMA DeliveryKeeps ==
  ASSUME DeliveryInv, NEW g \in Rooms,
         (\E n \in Names : Named(g, n)) \/ (\E emoji \in BOOLEAN : Rendered(g, emoji)) \/ Fetched(g)
  PROVE  DeliveryInv'
<1>1. PubSound /\ RoomSound /\ RestTypes /\ nameCache \subseteq Senders
  BY DEF DeliveryInv, RestTypes
<1>2. ASSUME NEW n \in Names, Named(g, n)
      PROVE  DeliveryInv'
  <2>1. stage[g] = "naming"
    BY <1>2 DEF Named
  <2>2. Hand(g) \in Bridged /\ From(g) \in Senders
    BY <2>1, InHand DEF DeliveryInv
  <2>3. UNCHANGED <<room, opened, via, conns, gone, tokens, arrived, pub, signers, relay, restarts,
                    sent, clean>>
    BY <1>2 DEF Named, roomVars, poolVars, pubVars, histVars
  <2>4. nameCache' \subseteq Senders
    BY <1>1, <1>2, <2>2 DEF Named
  <2>5. fingerprints' \in [Rooms -> SUBSET (Texts \X Names)]
    <3>1. <<Hand(g).text, n>> \in Texts \X Names
      BY <2>2 DEF Bridged, Items
    <3>2. fingerprints' = [fingerprints EXCEPT ![g] = @ \cup {<<Hand(g).text, n>>}]
      BY <1>2 DEF Named, Add
    <3> QED
      BY <1>1, <3>1, <3>2 DEF RestTypes
  <2>9. lapsed' \subseteq Rooms \X Texts
    <3>1. Hand(g).text \in Texts /\ lapsed \subseteq Rooms \X Texts
      BY <1>1, <2>2 DEF Bridged, Items, RestTypes
    <3>2. lapsed' = lapsed \/ lapsed' = lapsed \cup {<<g, Hand(g).text>>}
      BY <1>2 DEF Named, Lapses
    <3> QED
      BY <3>1, <3>2
  <2>6. PubSound' /\ RoomSound' /\ RestTypes'
    BY <1>1, <2>3, <2>4, <2>5, <2>9 DEF PubSound, RoomSound, RestTypes
  <2>7. CASE NextLink({g})
    BY <2>1, <2>3, <2>6, <2>7, HandOver DEF DeliveryInv
  <2>8. CASE stage' = [stage EXCEPT ![g] = "rendering"] /\ UNCHANGED chain
    BY <2>1, <2>3, <2>6, <2>8, StageMoves DEF DeliveryInv
  <2> QED
    BY <1>2, <2>7, <2>8 DEF Named
<1>3. ASSUME NEW emoji \in BOOLEAN, Rendered(g, emoji)
      PROVE  DeliveryInv'
  <2>1. /\ stage[g] = "rendering"
        /\ UNCHANGED <<roomVars, fingerprints, nameCache, arrived, gone, tokens, pubVars, restarts,
                       histVars>>
    BY <1>3 DEF Rendered
  <2>2. PubSound' /\ RoomSound' /\ RestTypes'
    BY <1>1, <2>1, ChainRest
  <2>3. UNCHANGED <<room, gone, tokens, clean>>
    BY <2>1 DEF roomVars, histVars
  <2>4. CASE ~Current(g)
    <3>1. NextLink({g}) /\ UNCHANGED <<conns, via>>
      BY <1>3, <2>4 DEF Rendered
    <3> QED
      BY <2>1, <2>2, <2>3, <3>1, HandOver DEF DeliveryInv
  <2>5. CASE Current(g)
    <3>1. room # 0
      BY <2>5 DEF Current, Rooms
    <3>2. CASE emoji
      <4>1. stage' = [stage EXCEPT ![g] = "fetching"] /\ UNCHANGED <<chain, conns, via>>
        BY <1>3, <2>5, <3>2 DEF Rendered
      <4> QED
        BY <2>1, <2>2, <2>3, <3>1, <4>1, StageMoves DEF DeliveryInv
    <3>3. CASE ~emoji
      <4>1. PoolSend(g)
        BY <1>3, <2>5, <3>3 DEF Rendered
      <4> QED
        BY <2>1, <2>2, <2>3, <3>1, <4>1, PoolTakes DEF DeliveryInv
    <3> QED
      BY <3>2, <3>3
  <2> QED
    BY <2>4, <2>5
<1>4. ASSUME Fetched(g)
      PROVE  DeliveryInv'
  <2>1. /\ stage[g] = "fetching" /\ PoolSend(g)
        /\ UNCHANGED <<roomVars, fingerprints, nameCache, arrived, gone, tokens, pubVars, restarts,
                       histVars>>
    BY <1>4 DEF Fetched
  <2>2. PubSound' /\ RoomSound' /\ RestTypes'
    BY <1>1, <2>1, ChainRest
  <2>3. UNCHANGED <<room, gone, tokens, clean>>
    BY <2>1 DEF roomVars, histVars
  <2>4. ~(room = 0 /\ clean)
    BY <2>1 DEF DeliveryInv, ClosedStill
  <2> QED
    BY <2>1, <2>2, <2>3, <2>4, PoolTakes DEF DeliveryInv
<1> QED
  BY <1>2, <1>3, <1>4

\* The process dies: the relays and what the source was sent are left.
LEMMA RestartKeeps ==
  ASSUME DeliveryInv, Restart
  PROVE  DeliveryInv'
<1> USE DEF DeliveryInv
<1>1. PoolSound'
  <2>1. New \in Conns /\ Works(New) /\ ~Live(New) /\ New.known = FALSE
    BY DEF New, Conns, Works, Live, Steps, Socks
  <2>2. conns' \in [Keys -> Conns] /\ (\A k \in Keys : conns'[k] = New) /\ tokens' = {}
    BY <2>1 DEF Restart, Blank, Keys
  <2>3. ASSUME NEW h \in 0..MaxRooms
        PROVE  Pooled(h)' = {}
    BY <2>1, <2>2 DEF Pooled, Keys
  <2>4. 0 <= PoolCap
    BY DeliveryAssumption
  <2> QED
    BY <2>1, <2>2, <2>3, <2>4, FS_EmptySet DEF PoolSound
<1>2. LinkTypes' /\ HeadInHand' /\ DrainRuns'
  BY DeliveryAssumption DEF Restart, LinkTypes, HeadInHand, DrainRuns, Stages
<1>3. PubSound'
  <2>1. pub' = [x \in Texts |-> IF Going(x) THEN "failed" ELSE pub[x]] /\ relay' = relay
        /\ signers' = {}
    BY DEF Restart
  <2>2. pub' \in [Texts -> PubSteps]
    BY <2>1 DEF PubSound, PubSteps, Ended
  <2> QED
    BY <2>1, <2>2 DEF PubSound, Going, Ended
<1>4. RoomSound' /\ RestTypes'
  BY DeliveryAssumption DEF Restart, RoomSound, RestTypes, Names
<1>5. ClosedStill'
  BY DEF Restart, ClosedStill, Still, Present, Blank, Keys, New
<1> QED
  BY <1>1, <1>2, <1>3, <1>4, <1>5

LEMMA StutterKeeps ==
  ASSUME DeliveryInv, UNCHANGED vars
  PROVE  DeliveryInv'
<1> USE DEF DeliveryInv
<1>1. UNCHANGED <<room, opened, chain, stage, fingerprints, nameCache, arrived, via, conns, gone,
                  tokens, pub, signers, relay, restarts, sent, lapsed, clean>>
  BY DEF vars, roomVars, chainVars, poolVars, pubVars, histVars
<1>2. PoolSound' /\ LinkTypes' /\ HeadInHand' /\ DrainRuns'
  BY <1>1 DEF PoolSound, LinkTypes, HeadInHand, Pooled, DrainRuns, From, Hand
<1>3. PubSound' /\ RoomSound' /\ RestTypes' /\ ClosedStill'
  BY <1>1 DEF PubSound, RoomSound, RestTypes, ClosedStill
<1> QED
  BY <1>2, <1>3

LEMMA DeliveryInductive == Spec => []DeliveryInv
<1>1. Init => DeliveryInv
  BY InitEstablishes
<1>2. DeliveryInv /\ [Next]_vars => DeliveryInv'
  <2> SUFFICES ASSUME DeliveryInv, [Next]_vars PROVE DeliveryInv'
    OBVIOUS
  <2>1. CASE OpenRoom \/ CloseRoom
    BY <2>1, RoomKeeps
  <2>2. ASSUME NEW x \in Texts,
               \/ Arrive(x) \/ Say(x) \/ Asks(x) \/ Challenged(x) \/ Stores(x) \/ Accepted(x)
               \/ Refused(x) \/ AuthAnswered(x) \/ PublishEnds(x)
        PROVE  DeliveryInv'
    BY <2>2, ArriveKeeps, SayKeeps, PubKeeps
  <2>3. ASSUME NEW g \in Rooms,
               \/ \E n \in Names : Named(g, n)
               \/ \E emoji \in BOOLEAN : Rendered(g, emoji)
               \/ Fetched(g)
        PROVE  DeliveryInv'
    BY <2>3, DeliveryKeeps
  <2>4. ASSUME NEW k \in DOMAIN conns,
               \/ Registers(k) \/ SocketOpens(k) \/ SocketFails(k) \/ Paced(k)
               \/ SocketDrops(k) \/ SocketGone(k) \/ EarlierGone(k)
        PROVE  DeliveryInv'
    <3>1. k \in Keys
      BY DEF DeliveryInv, PoolSound
    <3> QED
      BY <2>4, <3>1, PoolKeeps
  <2>5. CASE Restart
    BY <2>5, RestartKeeps
  <2>6. CASE UNCHANGED vars
    BY <2>6, StutterKeeps
  <2> QED
    BY <2>1, <2>2, <2>3, <2>4, <2>5, <2>6 DEF Next
<1> QED
  BY <1>1, <1>2, PTL DEF Spec

-----------------------------------------------------------------------------
(* Order *)

\* Inductive form of SenderOrder: the items of a room stand in its chain and, those of
\* the open room, in every queue in the order of their arrival; the queues and what was
\* sent of the open room are before what its chain still has, but for the delivery that
\* waits on the pool; and the open room has items in no earlier connection.
InOrder(q, g) == \A m, n \in DOMAIN q :
    m < n /\ q[m].room = g /\ q[n].room = g => q[m].no < q[n].no

Before(p, links, st) == \A n \in DOMAIN links :
    p.no < links[n].no \/ (n = 1 /\ st = "sending" /\ p.no <= links[n].no)

ChainSound == \A g \in Rooms :
    /\ g > opened => chain[g] = <<>>
    /\ \A n \in DOMAIN chain[g] : chain[g][n].room = g /\ chain[g][n].no <= arrived
    /\ InOrder(chain[g], g)

\* An item somebody said through connection k.
QueueItem(i, k) ==
    /\ i.room <= opened /\ i.no <= arrived /\ Author[i.text] = k[1]
    /\ i.room = room => k[2] = gone /\ Before(i, chain[room], stage[room])
QueueSound == \A k \in Keys :
    /\ \A n \in DOMAIN conns[k].queue : QueueItem(conns[k].queue[n], k)
    /\ room # 0 => InOrder(conns[k].queue, room)

\* An item that was sent: of the open room, it is before what its sender has queued.
SentItem(p) ==
    /\ p.room <= opened /\ p.no <= arrived
    /\ p.room = room =>
          /\ Before(p, chain[room], stage[room])
          /\ \A k \in Keys : \A n \in DOMAIN conns[k].queue :
                LET i == conns[k].queue[n] IN
                i.room = room /\ Author[p.text] = k[1] => p.no < i.no
SentSound == \A p \in sent : SentItem(p)
OrderInv == ChainSound /\ QueueSound /\ SentSound

\* The items of a chain or of a queue are what goes to the source.
LEMMA ItemTypes ==
  ASSUME DeliveryInv
  PROVE  /\ \A g \in Rooms : chain[g] \in Seq(Bridged)
         /\ \A k \in Keys : conns[k] \in Conns /\ conns[k].queue \in Seq(Bridged)
         /\ \A i \in Bridged : i.no \in Nat /\ i.room \in Nat \ {0}
         /\ arrived \in Nat /\ opened \in Nat /\ Rooms \subseteq Nat \ {0}
<1>1. \A k \in Keys : conns[k] \in Conns /\ conns[k].queue \in Seq(Bridged)
  BY DEF DeliveryInv, PoolSound, Conns
<1>2. Rooms \subseteq Nat \ {0} /\ 1..MaxArrivals \subseteq Nat
  BY DeliveryAssumption DEF Rooms
<1>3. \A i \in Bridged : i.no \in Nat /\ i.room \in Nat \ {0}
  BY <1>2 DEF Bridged, Items
<1>4. \A g \in Rooms : chain[g] \in Seq(Bridged)
  BY DEF DeliveryInv, LinkTypes
<1>5. arrived \in Nat /\ opened \in Nat
  BY DeliveryAssumption DEF DeliveryInv, RoomSound, RestTypes
<1> QED
  BY <1>1, <1>2, <1>3, <1>4, <1>5

\* The operators of the pool leave the queue alone, but for send and drain.
LEMMA QueueSteps ==
  ASSUME NEW c \in Conns
  PROVE  /\ Dials(c).queue = c.queue /\ Fails(c).queue = c.queue /\ DialFails(c).queue = c.queue
         /\ Opens(c).queue = c.queue /\ Closing(c).queue = c.queue /\ SockGone(c).queue = c.queue
         /\ LeavingGone(c).queue = c.queue /\ StrayGone(c).queue = c.queue
         /\ Destroyed(c).queue = c.queue
         /\ c.queue # <<>> => Sends(c).queue = Tail(c.queue)
         /\ \A i \in Bridged : Pushed(c, i).queue = Append(c.queue, i)
<1>1. /\ Dials(c).queue = c.queue /\ Fails(c).queue = c.queue /\ DialFails(c).queue = c.queue
      /\ Opens(c).queue = c.queue /\ Closing(c).queue = c.queue /\ SockGone(c).queue = c.queue
      /\ LeavingGone(c).queue = c.queue /\ StrayGone(c).queue = c.queue
      /\ Destroyed(c).queue = c.queue
  BY DEF Dials, Fails, DialFails, Opens, Closing, SockGone, LeavingGone, StrayGone, Destroyed,
     Conns
<1>2. ASSUME c.queue # <<>> PROVE Sends(c).queue = Tail(c.queue)
  <2> DEFINE q == Tail(c.queue)
             d == [c EXCEPT !.queue = q]
  <2>1. q \in Seq(Bridged)
    BY <1>2 DEF Conns
  <2>2. d \in Conns /\ d.queue = q
    <3> HIDE DEF q
    <3> QED
      BY <2>1 DEF Conns
  <2>3. Sends(c) = Loop(d)
    BY DEF Sends
  <2> HIDE DEF d
  <2> QED
    BY <2>2, <2>3, Looped
<1>3. ASSUME NEW i \in Bridged PROVE Pushed(c, i).queue = Append(c.queue, i)
  <2> DEFINE q == Append(c.queue, i)
             d == [c EXCEPT !.known = TRUE, !.queue = q]
  <2>1. q \in Seq(Bridged)
    BY DEF Conns
  <2>2. d \in Conns /\ d.queue = q
    <3> HIDE DEF q
    <3> QED
      BY <2>1 DEF Conns
  <2>3. Pushed(c, i) = IF c.step = "idle" THEN Loop(d) ELSE d
    BY DEF Pushed
  <2> HIDE DEF d
  <2> QED
    BY <2>2, <2>3, Looped
<1> QED
  BY <1>1, <1>2, <1>3

\* What is taken from a sequence and what is added to it, by position.
LEMMA Positions ==
  ASSUME NEW S, NEW q \in Seq(S)
  PROVE  /\ q # <<>> => /\ Head(q) = q[1] /\ 1 \in DOMAIN q
                        /\ \A n \in DOMAIN Tail(q) : n \in Nat \ {0} /\ n + 1 \in DOMAIN q
                                                    /\ Tail(q)[n] = q[n + 1]
         /\ \A e \in S : \A n \in DOMAIN Append(q, e) :
               \/ n \in DOMAIN q /\ Append(q, e)[n] = q[n]
               \/ n = Len(q) + 1 /\ Append(q, e)[n] = e
         /\ \A n \in DOMAIN q : n \in Nat \ {0} /\ n <= Len(q) /\ q[n] \in S
         /\ Len(q) \in Nat
  OBVIOUS

\* What is left of an ordered sequence is ordered, and after its head.
LEMMA TailInOrder ==
  ASSUME NEW S, NEW q \in Seq(S), q # <<>>, NEW g, InOrder(q, g)
  PROVE  /\ InOrder(Tail(q), g)
         /\ q[1].room = g =>
               \A n \in DOMAIN Tail(q) : Tail(q)[n].room = g => q[1].no < Tail(q)[n].no
<1> DEFINE t == Tail(q)
<1>1. /\ 1 \in DOMAIN q
      /\ \A n \in DOMAIN t : n \in Nat \ {0} /\ n + 1 \in DOMAIN q /\ t[n] = q[n + 1]
  BY Positions
<1> HIDE DEF t
<1>2. InOrder(t, g)
  <2> SUFFICES ASSUME NEW m \in DOMAIN t, NEW n \in DOMAIN t, m < n, t[m].room = g, t[n].room = g
               PROVE  t[m].no < t[n].no
    BY DEF InOrder
  <2>1. /\ m \in Nat /\ m + 1 \in DOMAIN q /\ t[m] = q[m + 1]
        /\ n \in Nat /\ n + 1 \in DOMAIN q /\ t[n] = q[n + 1]
    BY <1>1
  <2>2. m + 1 < n + 1
    BY <2>1
  <2> QED
    BY <2>1, <2>2 DEF InOrder
<1>3. ASSUME q[1].room = g, NEW n \in DOMAIN t, t[n].room = g PROVE q[1].no < t[n].no
  <2>1. n \in Nat \ {0} /\ n + 1 \in DOMAIN q /\ t[n] = q[n + 1]
    BY <1>1
  <2>2. 1 < n + 1
    BY <2>1
  <2> QED
    BY <1>1, <1>3, <2>1, <2>2 DEF InOrder
<1> QED
  BY <1>2, <1>3 DEF t

\* What a step does to a chain: nothing, a wait on the pool going on, or its head leaves.
ChainStep == \A g \in Rooms :
    \/ chain'[g] = chain[g] /\ (stage[g] = "sending" => stage'[g] = "sending")
    \/ chain[g] # <<>> /\ chain'[g] = Tail(chain[g])

LEMMA LinkStep ==
  ASSUME NEW G \in SUBSET Rooms, \A g \in G : chain[g] # <<>>, NextLink(G)
  PROVE  ChainStep
BY DEF ChainStep, NextLink

\* Such steps keep the order of the chains, and what is before them stays so.
LEMMA ChainStepKeeps ==
  ASSUME DeliveryInv, ChainSound, ChainStep, UNCHANGED <<opened, arrived>>
  PROVE  /\ ChainSound'
         /\ \A p \in Bridged, g \in Rooms :
               Before(p, chain[g], stage[g]) => Before(p, chain'[g], stage'[g])
<1>1. ASSUME NEW g \in Rooms
      PROVE  /\ g > opened => chain'[g] = <<>>
             /\ \A n \in DOMAIN chain'[g] : chain'[g][n].room = g /\ chain'[g][n].no <= arrived
             /\ InOrder(chain'[g], g)
             /\ \A p \in Bridged :
                   Before(p, chain[g], stage[g]) => Before(p, chain'[g], stage'[g])
  <2>0. /\ chain[g] \in Seq(Bridged) /\ (g > opened => chain[g] = <<>>)
        /\ \A n \in DOMAIN chain[g] : chain[g][n].room = g /\ chain[g][n].no <= arrived
        /\ InOrder(chain[g], g)
    BY ItemTypes DEF ChainSound
  <2>1. CASE chain'[g] = chain[g] /\ (stage[g] = "sending" => stage'[g] = "sending")
    BY <2>0, <2>1 DEF Before
  <2>2. CASE chain[g] # <<>> /\ chain'[g] = Tail(chain[g])
    <3>1. \A n \in DOMAIN chain'[g] : n \in Nat \ {0} /\ n + 1 \in DOMAIN chain[g]
                                     /\ chain'[g][n] = chain[g][n + 1]
      BY <2>0, <2>2, Positions
    <3>2. \A n \in DOMAIN chain'[g] : chain'[g][n].room = g /\ chain'[g][n].no <= arrived
      BY <2>0, <3>1
    <3>3. InOrder(chain'[g], g)
      BY <2>0, <2>2, TailInOrder
    <3>4. ASSUME NEW p \in Bridged, Before(p, chain[g], stage[g])
          PROVE  Before(p, chain'[g], stage'[g])
      <4>1. \A n \in DOMAIN chain'[g] : p.no < chain'[g][n].no
        BY <3>1, <3>4 DEF Before
      <4> QED
        BY <4>1 DEF Before
    <3>5. ~(g > opened)
      BY <2>0, <2>2
    <3> QED
      BY <3>2, <3>3, <3>4, <3>5
  <2> QED
    BY <2>1, <2>2 DEF ChainStep
<1> QED
  BY <1>1 DEF ChainSound

\* A step of the chains that leaves the queues and what was sent alone.
LEMMA QueuesAlone ==
  ASSUME DeliveryInv, OrderInv, ChainStep, UNCHANGED <<room, opened, arrived, gone, sent>>,
         \A k \in Keys : conns'[k].queue = conns[k].queue
  PROVE  OrderInv'
<1> USE DEF OrderInv
<1>1. /\ ChainSound'
      /\ \A p \in Bridged, g \in Rooms :
            Before(p, chain[g], stage[g]) => Before(p, chain'[g], stage'[g])
  BY ChainStepKeeps
<1>2. room # 0 => room \in Rooms
  BY DEF DeliveryInv, RoomSound, Rooms
<1>3. sent \subseteq Bridged /\ \A i \in Bridged : i.room # 0
  BY ItemTypes DEF DeliveryInv, RestTypes
<1>4. \A k \in Keys : \A n \in DOMAIN conns[k].queue : conns[k].queue[n] \in Bridged
  BY ItemTypes, Positions
<1>5. QueueSound'
  BY <1>1, <1>2, <1>3, <1>4 DEF QueueSound, QueueItem
<1>6. SentSound'
  BY <1>1, <1>2, <1>3 DEF SentSound, SentItem
<1> QED
  BY <1>1, <1>5, <1>6

\* A drain takes the head of a queue, and sends it or not.
LEMMA QueueShifts ==
  ASSUME DeliveryInv, OrderInv, ChainStep, UNCHANGED <<room, opened, arrived, gone>>,
         NEW k \in Keys, conns[k].queue # <<>>, conns'[k].queue = Tail(conns[k].queue),
         \A j \in Keys : j # k => conns'[j].queue = conns[j].queue,
         sent' \subseteq sent \cup {Head(conns[k].queue)}
  PROVE  OrderInv'
<1> USE DEF OrderInv
<1>1. /\ ChainSound'
      /\ \A p \in Bridged, g \in Rooms :
            Before(p, chain[g], stage[g]) => Before(p, chain'[g], stage'[g])
  BY ChainStepKeeps
<1>2. /\ room # 0 => room \in Rooms
      /\ sent \subseteq Bridged /\ \A i \in Bridged : i.room # 0
  BY ItemTypes DEF DeliveryInv, RoomSound, RestTypes, Rooms
<1>3. PICK h \in Bridged :
      /\ h = Head(conns[k].queue) /\ h = conns[k].queue[1] /\ 1 \in DOMAIN conns[k].queue
      /\ \A n \in DOMAIN conns'[k].queue : /\ n \in Nat \ {0} /\ n + 1 \in DOMAIN conns[k].queue
                                           /\ conns'[k].queue[n] = conns[k].queue[n + 1]
  BY ItemTypes, Positions
<1>4. \A j \in Keys : \A n \in DOMAIN conns[j].queue : conns[j].queue[n] \in Bridged
  BY ItemTypes, Positions
\* What is queued afterwards was queued before.
<1>5. ASSUME NEW j \in Keys, NEW n \in DOMAIN conns'[j].queue
      PROVE  \E m \in DOMAIN conns[j].queue : conns'[j].queue[n] = conns[j].queue[m]
  BY <1>3
<1>6. QueueSound'
  <2>1. ASSUME NEW j \in Keys, NEW n \in DOMAIN conns'[j].queue
        PROVE  QueueItem(conns[j].queue[n], j)'
    <3>1. PICK m \in DOMAIN conns[j].queue : conns'[j].queue[n] = conns[j].queue[m]
      BY <1>5
    <3>2. QueueItem(conns[j].queue[m], j)
      BY DEF QueueSound
    <3> QED
      BY <1>1, <1>2, <1>4, <3>1, <3>2 DEF QueueItem
  <2>2. ASSUME NEW j \in Keys, room # 0 PROVE InOrder(conns'[j].queue, room)
    <3>1. InOrder(conns[j].queue, room)
      BY <2>2 DEF QueueSound
    <3>2. CASE j = k
      <4>1. conns[k].queue \in Seq(Bridged)
        BY ItemTypes
      <4>2. InOrder(Tail(conns[k].queue), room)
        BY <3>1, <3>2, <4>1, TailInOrder
      <4> QED
        BY <3>2, <4>2
    <3>3. CASE j # k
      BY <3>1, <3>3
    <3> QED
      BY <3>2, <3>3
  <2> QED
    BY <2>1, <2>2 DEF QueueSound
<1>7. ASSUME NEW p \in sent PROVE SentItem(p)'
  <2>1. SentItem(p) /\ p \in Bridged
    BY <1>2 DEF SentSound
  <2>2. ASSUME NEW j \in Keys, NEW n \in DOMAIN conns'[j].queue, p.room = room,
               conns'[j].queue[n].room = room, Author[p.text] = j[1]
        PROVE  p.no < conns'[j].queue[n].no
    BY <1>5, <2>1, <2>2 DEF SentItem
  <2> QED
    BY <1>1, <1>2, <2>1, <2>2 DEF SentItem
\* The head is before the rest of its queue, and in no other queue of its sender.
<1>8. SentItem(h)'
  <2>1. QueueItem(h, k)
    BY <1>3 DEF QueueSound
  <2>2. ASSUME NEW j \in Keys, NEW n \in DOMAIN conns'[j].queue, h.room = room,
               conns'[j].queue[n].room = room, Author[h.text] = j[1]
        PROVE  h.no < conns'[j].queue[n].no
    <3>1. PICK m \in DOMAIN conns[j].queue : conns'[j].queue[n] = conns[j].queue[m]
      BY <1>5
    <3>2. j[2] = gone /\ k[2] = gone /\ j[1] = k[1]
      BY <2>1, <2>2, <3>1 DEF QueueSound, QueueItem
    <3>3. j = k
      BY <3>2 DEF Keys
    <3>4. InOrder(conns[k].queue, room)
      BY <1>2, <1>3, <2>2 DEF QueueSound
    <3>5. conns[k].queue \in Seq(Bridged) /\ conns'[j].queue = Tail(conns[k].queue)
      BY <3>3, ItemTypes
    <3>6. n \in DOMAIN Tail(conns[k].queue) /\ conns'[j].queue[n] = Tail(conns[k].queue)[n]
      BY <3>5
    <3> QED
      BY <1>3, <2>2, <3>4, <3>5, <3>6, TailInOrder
  <2> QED
    BY <1>1, <1>2, <1>3, <2>1, <2>2 DEF SentItem, QueueItem
<1>9. SentSound'
  BY <1>3, <1>7, <1>8 DEF SentSound
<1> QED
  BY <1>1, <1>6, <1>9

\* The head of the chain is queued: it comes after all that was said in the room.
LEMMA QueueGrows ==
  ASSUME DeliveryInv, OrderInv, NEW g \in Rooms, stage[g] \notin {"idle", "sending"}, Queued(g),
         UNCHANGED <<room, opened, arrived, gone, sent>>
  PROVE  OrderInv'
<1> USE DEF OrderInv
<1> DEFINE i == Hand(g)
           k == <<From(g), gone>>
<1>1. /\ i \in Bridged /\ k \in Keys /\ k[1] = Author[i.text] /\ k[2] = gone
      /\ i = chain[g][1] /\ 1 \in DOMAIN chain[g]
  <2>1. i \in Bridged /\ From(g) \in Senders
    BY InHand DEF DeliveryInv
  <2>2. chain[g] \in Seq(Bridged) /\ chain[g] # <<>>
    BY ItemTypes DEF DeliveryInv, HeadInHand
  <2> QED
    BY <2>1, <2>2, Positions DEF Keys, DeliveryInv, RoomSound, Hand, From
<1>2. /\ conns' = [conns EXCEPT ![k] = Pushed(@, i)] /\ chain' = chain
      /\ stage' = [stage EXCEPT ![g] = "sending"]
  BY DEF Queued
<1> HIDE DEF i, k
<1>3. ChainStep
  BY <1>2 DEF ChainStep, DeliveryInv, LinkTypes
<1>4. /\ ChainSound'
      /\ \A p \in Bridged, f \in Rooms :
            Before(p, chain[f], stage[f]) => Before(p, chain'[f], stage'[f])
  BY <1>3, ChainStepKeeps
<1>5. conns \in [Keys -> Conns] /\ conns[k] \in Conns /\ conns[k].queue \in Seq(Bridged)
  BY <1>1, ItemTypes DEF DeliveryInv, PoolSound
<1>6. /\ conns'[k].queue = Append(conns[k].queue, i)
      /\ \A j \in Keys : j # k => conns'[j].queue = conns[j].queue
  BY <1>1, <1>2, <1>5, QueueSteps
<1>7. /\ room # 0 => room \in Rooms
      /\ sent \subseteq Bridged /\ \A j \in Bridged : j.room # 0 /\ j.no \in Nat
  BY ItemTypes DEF DeliveryInv, RoomSound, RestTypes, Rooms
<1>8. \A j \in Keys : \A n \in DOMAIN conns[j].queue : conns[j].queue[n] \in Bridged
  BY ItemTypes, Positions
<1>9. \A n \in DOMAIN conns'[k].queue :
        \/ n \in DOMAIN conns[k].queue /\ conns'[k].queue[n] = conns[k].queue[n]
        \/ n = Len(conns[k].queue) + 1 /\ conns'[k].queue[n] = i
  BY <1>1, <1>5, <1>6, Positions
<1>10. \A n \in DOMAIN conns[k].queue : n \in Nat /\ n <= Len(conns[k].queue)
  BY <1>5, Positions
<1>11. i.room = g /\ g <= opened /\ i.no <= arrived
  <2>1. chain[g] # <<>>
    BY DEF DeliveryInv, HeadInHand
  <2> QED
    BY <1>1, <2>1, ItemTypes DEF ChainSound
\* What is before the chain is before its head, which has not gone to the pool yet.
<1>12. ASSUME NEW p \in Bridged, Before(p, chain[g], stage[g]) PROVE p.no < i.no
  BY <1>1, <1>12 DEF Before
<1>13. Before(i, chain'[g], stage'[g])
  <2>1. stage'[g] = "sending"
    BY <1>2 DEF DeliveryInv, LinkTypes
  <2>2. \A n \in DOMAIN chain[g] : n # 1 => i.no < chain[g][n].no
    <3>1. InOrder(chain[g], g) /\ chain[g] \in Seq(Bridged)
          /\ \A n \in DOMAIN chain[g] : chain[g][n].room = g
      BY ItemTypes DEF ChainSound
    <3>2. \A n \in DOMAIN chain[g] : n \in Nat \ {0}
      BY <3>1, Positions
    <3> QED
      BY <1>1, <3>1, <3>2 DEF InOrder
  <2> QED
    BY <1>1, <1>2, <1>7, <2>1, <2>2 DEF Before
<1>14. QueueSound'
  <2>1. ASSUME NEW j \in Keys, NEW n \in DOMAIN conns'[j].queue
        PROVE  QueueItem(conns[j].queue[n], j)'
    <3>1. CASE n \in DOMAIN conns[j].queue /\ conns'[j].queue[n] = conns[j].queue[n]
      <4>1. QueueItem(conns[j].queue[n], j)
        BY <3>1 DEF QueueSound
      <4> QED
        BY <1>4, <1>7, <1>8, <3>1, <4>1 DEF QueueItem
    <3>2. CASE j = k /\ conns'[j].queue[n] = i
      BY <1>1, <1>11, <1>13, <3>2 DEF QueueItem
    <3> QED
      BY <1>6, <1>9, <3>1, <3>2
  <2>2. ASSUME NEW j \in Keys, room # 0 PROVE InOrder(conns'[j].queue, room)
    <3>1. InOrder(conns[j].queue, room)
      BY <2>2 DEF QueueSound
    <3>2. CASE j # k
      BY <1>6, <3>1, <3>2
    <3>3. CASE j = k
      <4> SUFFICES ASSUME NEW m \in DOMAIN conns'[k].queue, NEW n \in DOMAIN conns'[k].queue,
                          m < n, conns'[k].queue[m].room = room, conns'[k].queue[n].room = room
                   PROVE  conns'[k].queue[m].no < conns'[k].queue[n].no
        BY <3>3 DEF InOrder
      <4>1. m \in DOMAIN conns[k].queue /\ conns'[k].queue[m] = conns[k].queue[m]
        <5>1. m \in Nat /\ n \in Nat /\ n <= Len(conns[k].queue) + 1 /\ Len(conns[k].queue) \in Nat
          BY <1>5, <1>9, <1>10
        <5> QED
          BY <1>9, <5>1
      <4>2. CASE n \in DOMAIN conns[k].queue /\ conns'[k].queue[n] = conns[k].queue[n]
        BY <3>1, <3>3, <4>1, <4>2 DEF InOrder
      <4>3. CASE conns'[k].queue[n] = i
        <5>1. g = room
          BY <1>11, <4>3
        <5>2. QueueItem(conns[k].queue[m], k) /\ conns[k].queue[m] \in Bridged
          BY <1>1, <1>8, <4>1 DEF QueueSound
        <5> QED
          BY <1>12, <4>1, <4>3, <5>1, <5>2 DEF QueueItem
      <4> QED
        BY <1>9, <4>2, <4>3
    <3> QED
      BY <3>2, <3>3
  <2> QED
    BY <2>1, <2>2 DEF QueueSound
<1>15. SentSound'
  <2>1. ASSUME NEW p \in sent PROVE SentItem(p)'
    <3>1. SentItem(p) /\ p \in Bridged
      BY <1>7 DEF SentSound
    <3>2. ASSUME NEW j \in Keys, NEW n \in DOMAIN conns'[j].queue, p.room = room,
                 conns'[j].queue[n].room = room, Author[p.text] = j[1]
          PROVE  p.no < conns'[j].queue[n].no
      <4>1. CASE n \in DOMAIN conns[j].queue /\ conns'[j].queue[n] = conns[j].queue[n]
        BY <3>1, <3>2, <4>1 DEF SentItem
      <4>2. CASE j = k /\ conns'[j].queue[n] = i
        <5>1. g = room
          BY <1>11, <3>2, <4>2
        <5> QED
          BY <1>12, <3>1, <3>2, <4>2, <5>1 DEF SentItem
      <4> QED
        BY <1>6, <1>9, <4>1, <4>2
    <3> QED
      BY <1>4, <1>7, <3>1, <3>2 DEF SentItem
  <2> QED
    BY <2>1 DEF SentSound
<1> QED
  BY <1>4, <1>14, <1>15

\* An event joins the open room's chain, after all that reached a chain before.
LEMMA ArriveOrders ==
  ASSUME DeliveryInv, OrderInv, NEW x \in Texts, Arrive(x), DeliveryInv'
  PROVE  OrderInv'
<1> USE DEF OrderInv
<1>1. UNCHANGED <<room, opened, conns, gone, sent>> /\ room # 0
  BY DEF Arrive, roomVars, poolVars, histVars
<1> DEFINE i == [text |-> x, no |-> arrived', room |-> room]
<1>2. room \in Rooms /\ arrived' = arrived + 1 /\ arrived \in Nat /\ opened \in Nat
      /\ room <= opened /\ Rooms \subseteq Nat \ {0}
  BY <1>1, ItemTypes DEF DeliveryInv, RoomSound, Rooms, Arrive
<1>3. i.no = arrived' /\ i.room = room
  OBVIOUS
<1>4. chain' = [chain EXCEPT ![room] = Append(@, i)]
      /\ stage' = [stage EXCEPT ![room] = IF @ = "idle" THEN "naming" ELSE @]
  BY DEF Arrive
<1> HIDE DEF i
<1>5. /\ chain[room] \in Seq(Bridged) /\ chain'[room] = Append(chain[room], i)
      /\ chain'[room] \in Seq(Bridged)
      /\ \A g \in Rooms : g # room => chain'[g] = chain[g] /\ stage'[g] = stage[g]
      /\ stage[room] = "sending" => stage'[room] = "sending"
  BY <1>1, <1>2, <1>4 DEF DeliveryInv, LinkTypes
<1>6. \A n \in DOMAIN chain'[room] :
        \/ n \in DOMAIN chain[room] /\ chain'[room][n] = chain[room][n]
        \/ n = Len(chain[room]) + 1 /\ chain'[room][n] = i
  <2> DEFINE q == chain[room]
  <2>1. q \in Seq(Bridged) /\ chain'[room] = Append(q, i)
    BY <1>5
  <2> HIDE DEF q
  <2>2. Append(q, i) \in Seq(Bridged \cup {i}) /\ q \in Seq(Bridged \cup {i})
    BY <2>1
  <2>3. \A n \in DOMAIN Append(q, i) : \/ n \in DOMAIN q /\ Append(q, i)[n] = q[n]
                                       \/ n = Len(q) + 1 /\ Append(q, i)[n] = i
    BY <2>2, Positions
  <2> QED
    BY <2>1, <2>3 DEF q
<1>7. \A n \in DOMAIN chain[room] : /\ n \in Nat \ {0} /\ n <= Len(chain[room])
                                    /\ Len(chain[room]) \in Nat /\ chain[room][n] \in Bridged
  BY <1>5, Positions
<1>8. \A j \in Bridged : j.no \in Nat /\ j.room \in Nat \ {0}
  BY ItemTypes
<1>9. ChainSound'
  <2>1. ASSUME NEW g \in Rooms
        PROVE  /\ g > opened => chain'[g] = <<>>
               /\ \A n \in DOMAIN chain'[g] : chain'[g][n].room = g /\ chain'[g][n].no <= arrived'
               /\ InOrder(chain'[g], g)
    <3>1. /\ g > opened => chain[g] = <<>>
          /\ \A n \in DOMAIN chain[g] : chain[g][n].room = g /\ chain[g][n].no <= arrived
          /\ InOrder(chain[g], g) /\ chain[g] \in Seq(Bridged)
      BY ItemTypes DEF ChainSound
    <3>2. CASE g # room
      <4>1. \A n \in DOMAIN chain[g] : chain[g][n].no \in Nat
        BY <1>8, <3>1, Positions
      <4> QED
        BY <1>2, <1>5, <3>1, <3>2, <4>1
    <3>3. CASE g = room
      <4>1. ~(g > opened)
        BY <1>2, <3>3
      <4>2. \A n \in DOMAIN chain'[g] : chain'[g][n].room = g /\ chain'[g][n].no <= arrived'
        BY <1>2, <1>3, <1>6, <1>7, <1>8, <3>1, <3>3
      <4>3. InOrder(chain'[g], g)
        BY <1>2, <1>3, <1>6, <1>7, <1>8, <3>1, <3>3 DEF InOrder
      <4> QED
        BY <4>1, <4>2, <4>3
    <3> QED
      BY <3>2, <3>3
  <2> QED
    BY <1>1, <2>1 DEF ChainSound
<1>10. ASSUME NEW p \in Bridged, p.no <= arrived, Before(p, chain[room], stage[room])
       PROVE  Before(p, chain'[room], stage'[room])
  BY <1>2, <1>3, <1>5, <1>6, <1>8, <1>10 DEF Before
<1>11. QueueSound'
  <2>1. ASSUME NEW k \in Keys, NEW n \in DOMAIN conns[k].queue
        PROVE  QueueItem(conns[k].queue[n], k)'
    <3>1. QueueItem(conns[k].queue[n], k) /\ conns[k].queue[n] \in Bridged
      BY ItemTypes, Positions DEF QueueSound
    <3> QED
      BY <1>1, <1>2, <1>8, <1>10, <3>1 DEF QueueItem
  <2> QED
    BY <1>1, <2>1 DEF QueueSound
<1>12. SentSound'
  <2>1. ASSUME NEW p \in sent PROVE SentItem(p)'
    <3>1. SentItem(p) /\ p \in Bridged
      BY DEF SentSound, DeliveryInv, RestTypes
    <3> QED
      BY <1>1, <1>2, <1>8, <1>10, <3>1 DEF SentItem
  <2> QED
    BY <1>1, <2>1 DEF SentSound
<1> QED
  BY <1>9, <1>11, <1>12

\* A room that opens has nothing anywhere; of a room that is not open nothing is asked.
LEMMA RoomOrders ==
  ASSUME DeliveryInv, OrderInv, OpenRoom \/ CloseRoom \/ Restart
  PROVE  OrderInv'
<1> USE DEF OrderInv
<1>1. /\ sent' = sent /\ arrived' = arrived /\ opened \in Nat /\ sent \subseteq Bridged
      /\ \A i \in Bridged : i.no \in Nat /\ i.room \in Nat \ {0}
  BY ItemTypes DEF DeliveryInv, RestTypes, OpenRoom, CloseRoom, Restart, histVars, chainVars
<1>2. \A k \in Keys : \A n \in DOMAIN conns[k].queue : conns[k].queue[n] \in Bridged
  BY ItemTypes, Positions
<1>3. CASE OpenRoom
  <2>1. /\ opened' = opened + 1 /\ room' = opened + 1
        /\ UNCHANGED <<chain, stage, conns, gone>>
    BY <1>3 DEF OpenRoom, chainVars, poolVars
  <2>2. ChainSound'
    BY <1>1, <2>1, ItemTypes DEF ChainSound
  <2>3. QueueSound'
    <3>1. ASSUME NEW k \in Keys, NEW n \in DOMAIN conns[k].queue
          PROVE  QueueItem(conns[k].queue[n], k)' /\ conns[k].queue[n].room # room'
      <4>1. QueueItem(conns[k].queue[n], k) /\ conns[k].queue[n] \in Bridged
        BY <1>2 DEF QueueSound
      <4> QED
        BY <1>1, <2>1, <4>1 DEF QueueItem
    <3> QED
      BY <2>1, <3>1 DEF QueueSound, InOrder
  <2>4. SentSound'
    BY <1>1, <2>1 DEF SentSound, SentItem
  <2> QED
    BY <2>2, <2>3, <2>4
<1>4. CASE CloseRoom
  <2>1. room' = 0 /\ UNCHANGED <<opened, chain, stage>>
    BY <1>4 DEF CloseRoom, chainVars
  <2>2. \A k \in Keys : conns'[k].queue = conns[k].queue
    <3>1. conns' = [k \in Keys |-> IF k[2] = gone THEN Destroyed(conns[k]) ELSE conns[k]]
      BY <1>4 DEF CloseRoom, DeliveryInv, PoolSound
    <3> QED
      BY <3>1, ItemTypes, QueueSteps
  <2>3. ChainSound' /\ SentSound'
    BY <1>1, <2>1 DEF ChainSound, SentSound, SentItem
  <2>4. QueueSound'
    BY <1>1, <1>2, <2>1, <2>2 DEF QueueSound, QueueItem
  <2> QED
    BY <2>3, <2>4
<1>5. CASE Restart
  <2>1. room' = 0 /\ opened' = opened /\ \A g \in Rooms : chain'[g] = <<>>
    BY <1>5 DEF Restart
  <2>2. \A k \in Keys : conns'[k].queue = <<>>
    BY <1>5 DEF Restart, Blank, Keys, New
  <2>3. ChainSound'
    BY <2>1 DEF ChainSound, InOrder
  <2>4. SentSound'
    BY <1>1, <2>1 DEF SentSound, SentItem
  <2>5. QueueSound'
    BY <2>1, <2>2 DEF QueueSound
  <2> QED
    BY <2>3, <2>4, <2>5
<1> QED
  BY <1>3, <1>4, <1>5

\* A step of the pool: the queues stay, or a drain has taken the head of one.
LEMMA PoolOrders ==
  ASSUME DeliveryInv, OrderInv, NEW k \in Keys,
         \/ Registers(k) \/ SocketOpens(k) \/ SocketFails(k) \/ Paced(k)
         \/ SocketDrops(k) \/ SocketGone(k) \/ EarlierGone(k)
  PROVE  OrderInv'
<1> DEFINE c == conns[k]
<1>1. c \in Conns /\ conns \in [Keys -> Conns] /\ Works(c)
  BY DEF DeliveryInv, PoolSound
<1>2. PICK d : Conn(k, d) /\ d \in {Dials(c), Fails(c), Opens(c), DialFails(c), Sends(c), Closing(c),
                                    SockGone(c), LeavingGone(c), StrayGone(c)}
               /\ \/ d = Sends(c) /\ c.step = "pace" /\ sent' \subseteq sent \cup {Head(c.queue)}
                  \/ d.queue = c.queue /\ sent' = sent
  BY <1>1, QueueSteps DEF Registers, SocketOpens, SocketFails, Paced, SocketDrops, SocketGone,
     EarlierGone, connFrame, histVars
<1>3. UNCHANGED <<room, opened, arrived, gone>>
  BY DEF Registers, SocketOpens, SocketFails, Paced, SocketDrops, SocketGone, EarlierGone,
     connFrame, roomVars
<1>4. ChainStep
  <2>1. /\ Freed(k, d) \in SUBSET Rooms /\ NextLink(Freed(k, d))
        /\ \A g \in Freed(k, d) : chain[g] # <<>>
    BY <1>2 DEF Conn, Freed, DeliveryInv, HeadInHand
  <2> QED
    BY <2>1, LinkStep
<1>5. conns'[k] = d /\ \A j \in Keys : j # k => conns'[j] = conns[j]
  BY <1>1, <1>2 DEF Conn
<1>6. CASE d.queue = c.queue /\ sent' = sent
  BY <1>3, <1>4, <1>5, <1>6, QueuesAlone
<1>7. CASE d = Sends(c) /\ c.step = "pace" /\ sent' \subseteq sent \cup {Head(c.queue)}
  <2>1. c.queue # <<>>
    BY <1>1, <1>7 DEF Works
  <2>2. d.queue = Tail(c.queue)
    BY <1>1, <1>7, <2>1, QueueSteps
  <2> QED
    BY <1>3, <1>4, <1>5, <1>7, <2>1, <2>2, QueueShifts
<1> QED
  BY <1>2, <1>6, <1>7

\* The steps of the delivery in hand.
LEMMA DeliveryOrders ==
  ASSUME DeliveryInv, OrderInv, NEW g \in Rooms,
         (\E n \in Names : Named(g, n)) \/ (\E emoji \in BOOLEAN : Rendered(g, emoji)) \/ Fetched(g)
  PROVE  OrderInv'
<1>1. UNCHANGED <<room, opened, arrived, gone, sent>> /\ stage[g] \notin {"idle", "sending"}
  BY DEF Named, Rendered, Fetched, roomVars, poolVars, histVars
<1>2. CASE NextLink({g}) /\ UNCHANGED conns
  <2>1. chain[g] # <<>>
    BY <1>1 DEF DeliveryInv, HeadInHand
  <2>2. ChainStep
    <3>1. {g} \in SUBSET Rooms /\ \A h \in {g} : chain[h] # <<>>
      BY <2>1
    <3> QED
      BY <1>2, <3>1, LinkStep
  <2> QED
    BY <1>1, <1>2, <2>2, QueuesAlone
<1>3. CASE (\E s \in {"rendering", "fetching"} : stage' = [stage EXCEPT ![g] = s])
           /\ UNCHANGED <<chain, conns>>
  <2>1. ChainStep
    BY <1>1, <1>3 DEF ChainStep, DeliveryInv, LinkTypes
  <2> QED
    BY <1>1, <1>3, <2>1, QueuesAlone
<1>4. CASE Queued(g)
  BY <1>1, <1>4, QueueGrows
<1>5. \/ NextLink({g}) /\ UNCHANGED conns
      \/ (\E s \in {"rendering", "fetching"} : stage' = [stage EXCEPT ![g] = s])
         /\ UNCHANGED <<chain, conns>>
      \/ Queued(g)
  BY DEF Named, Rendered, Fetched, PoolSend, poolVars
<1> QED
  BY <1>2, <1>3, <1>4, <1>5

\* Steps that touch neither chains nor queues.
LEMMA OrderAlone ==
  ASSUME DeliveryInv, OrderInv,
         UNCHANGED <<room, opened, arrived, gone, sent, chain, stage, conns>>
  PROVE  OrderInv'
<1>1. ChainStep
  BY DEF ChainStep
<1> QED
  BY <1>1, QueuesAlone

LEMMA OrderInductive == Spec => [](DeliveryInv /\ OrderInv)
<1>1. Init => OrderInv
  <2> SUFFICES ASSUME Init PROVE OrderInv
    OBVIOUS
  <2>1. \A k \in Keys : conns[k].queue = <<>>
    BY DEF Init, Blank, Keys, New
  <2>2. sent = {} /\ room = 0 /\ \A g \in Rooms : chain[g] = <<>>
    BY DEF Init
  <2> QED
    BY <2>1, <2>2 DEF OrderInv, ChainSound, QueueSound, SentSound, InOrder
<1>2. DeliveryInv /\ DeliveryInv' /\ OrderInv /\ [Next]_vars => OrderInv'
  <2> SUFFICES ASSUME DeliveryInv, DeliveryInv', OrderInv, [Next]_vars PROVE OrderInv'
    OBVIOUS
  <2>1. CASE OpenRoom \/ CloseRoom \/ Restart
    BY <2>1, RoomOrders
  <2>2. ASSUME NEW x \in Texts, Arrive(x) PROVE OrderInv'
    BY <2>2, ArriveOrders
  <2>3. ASSUME NEW x \in Texts,
               \/ Say(x) \/ Asks(x) \/ Challenged(x) \/ Stores(x) \/ Accepted(x)
               \/ Refused(x) \/ AuthAnswered(x) \/ PublishEnds(x)
        PROVE  OrderInv'
    <3>1. UNCHANGED <<room, opened, arrived, gone, sent, chain, stage, conns>>
      BY <2>3 DEF Say, Asks, Challenged, Stores, Accepted, Refused, AuthAnswered, PublishEnds,
         pubFrame, roomVars, chainVars, poolVars, histVars
    <3> QED
      BY <3>1, OrderAlone
  <2>4. ASSUME NEW g \in Rooms,
               \/ \E n \in Names : Named(g, n)
               \/ \E emoji \in BOOLEAN : Rendered(g, emoji)
               \/ Fetched(g)
        PROVE  OrderInv'
    BY <2>4, DeliveryOrders
  <2>5. ASSUME NEW k \in DOMAIN conns,
               \/ Registers(k) \/ SocketOpens(k) \/ SocketFails(k) \/ Paced(k)
               \/ SocketDrops(k) \/ SocketGone(k) \/ EarlierGone(k)
        PROVE  OrderInv'
    <3>1. k \in Keys
      BY DEF DeliveryInv, PoolSound
    <3> QED
      BY <2>5, <3>1, PoolOrders
  <2>6. CASE UNCHANGED vars
    <3>1. UNCHANGED <<room, opened, arrived, gone, sent, chain, stage, conns>>
      BY <2>6 DEF vars, roomVars, chainVars, poolVars, histVars
    <3> QED
      BY <3>1, OrderAlone
  <2> QED
    BY <2>1, <2>2, <2>3, <2>4, <2>5, <2>6 DEF Next
<1> QED
  BY <1>1, <1>2, DeliveryInductive, PTL DEF Spec

-----------------------------------------------------------------------------
(* The contract *)

\* Nothing is on its way twice, and nothing that was sent is on its way.
Apart ==
    /\ \A g \in Rooms : Waiting(g) \cap sent = {} /\ \A k \in Keys : Waiting(g) \cap Queue(k) = {}
    /\ \A k \in Keys : /\ Queue(k) \cap sent = {} /\ IsInjective(conns[k].queue)
                       /\ \A j \in Keys : j # k => Queue(j) \cap Queue(k) = {}

\* A sequence without duplicates that loses its head, and one that gets a new last.
LEMMA RangeShift ==
  ASSUME NEW S, NEW q \in Seq(S), q # <<>>, IsInjective(q)
  PROVE  /\ Head(q) \in Range(q) /\ Range(Tail(q)) = Range(q) \ {Head(q)}
         /\ IsInjective(Tail(q))
<1> DEFINE t == Tail(q)
<1>1. /\ Head(q) = q[1] /\ 1 \in DOMAIN q
      /\ \A n \in DOMAIN t : n \in Nat \ {0} /\ n + 1 \in DOMAIN q /\ t[n] = q[n + 1]
  BY Positions
<1>2. \A n \in DOMAIN q : n # 1 => n - 1 \in DOMAIN t /\ t[n - 1] = q[n]
  <2>1. DOMAIN q = 1..Len(q) /\ DOMAIN t = 1..(Len(q) - 1) /\ Len(q) \in Nat
    OBVIOUS
  <2>2. ASSUME NEW n \in DOMAIN q, n # 1 PROVE n - 1 \in DOMAIN t /\ (n - 1) + 1 = n
    BY <2>1, <2>2
  <2> QED
    BY <1>1, <2>2
<1> HIDE DEF t
<1>3. Range(t) = Range(q) \ {q[1]}
  <2>1. ASSUME NEW n \in DOMAIN t PROVE t[n] \in Range(q) /\ t[n] # q[1]
    <3>1. n \in Nat \ {0} /\ n + 1 \in DOMAIN q /\ n + 1 # 1 /\ t[n] = q[n + 1]
      BY <1>1
    <3> QED
      BY <1>1, <3>1 DEF Range, IsInjective
  <2>2. ASSUME NEW n \in DOMAIN q, q[n] # q[1] PROVE q[n] \in Range(t)
    BY <1>2, <2>2 DEF Range
  <2>3. \A e \in Range(t) : e \in Range(q) /\ e # q[1]
    BY <2>1 DEF Range
  <2>4. \A e \in Range(q) : e # q[1] => e \in Range(t)
    <3> TAKE e \in Range(q)
    <3>1. PICK n \in DOMAIN q : e = q[n]
      BY DEF Range
    <3> QED
      BY <2>2, <3>1
  <2> QED
    BY <2>3, <2>4
<1>4. IsInjective(t)
  <2> SUFFICES ASSUME NEW m \in DOMAIN t, NEW n \in DOMAIN t, t[m] = t[n] PROVE m = n
    BY DEF IsInjective
  <2>1. /\ m \in Nat /\ m + 1 \in DOMAIN q /\ t[m] = q[m + 1]
        /\ n \in Nat /\ n + 1 \in DOMAIN q /\ t[n] = q[n + 1]
    BY <1>1
  <2>2. m + 1 = n + 1
    BY <2>1 DEF IsInjective
  <2> QED
    BY <2>1, <2>2
<1>5. Head(q) \in Range(q)
  BY <1>1 DEF Range
<1> QED
  BY <1>1, <1>3, <1>4, <1>5 DEF t

LEMMA TailOfAppend ==
  ASSUME NEW S, NEW q \in Seq(S), NEW e \in S, q # <<>>
  PROVE  Tail(Append(q, e)) = Append(Tail(q), e) /\ Tail(q) \in Seq(S)
OBVIOUS

LEMMA RangeGrows ==
  ASSUME NEW S, NEW q \in Seq(S), NEW e \in S
  PROVE  /\ Range(Append(q, e)) = Range(q) \cup {e}
         /\ IsInjective(q) /\ e \notin Range(q) => IsInjective(Append(q, e))
<1> DEFINE a == Append(q, e)
           l == Len(q) + 1
<1>1. /\ \A n \in DOMAIN a : (n \in DOMAIN q /\ a[n] = q[n]) \/ (n = l /\ a[n] = e)
      /\ \A n \in DOMAIN q : n \in DOMAIN a /\ a[n] = q[n]
      /\ l \in DOMAIN a /\ a[l] = e
  <2>1. DOMAIN q = 1..Len(q) /\ DOMAIN a = 1..l /\ Len(q) \in Nat
    OBVIOUS
  <2>2. \A n \in DOMAIN q : a[n] = q[n]
    OBVIOUS
  <2>3. a[l] = e
    OBVIOUS
  <2>4. \A n \in DOMAIN a : n \in DOMAIN q \/ n = l
    BY <2>1
  <2>5. (\A n \in DOMAIN q : n \in DOMAIN a) /\ l \in DOMAIN a
    BY <2>1
  <2> QED
    BY <2>2, <2>3, <2>4, <2>5
<1> HIDE DEF a, l
<1>2. Range(a) = Range(q) \cup {e}
  <2>1. \A x \in Range(a) : x \in Range(q) \cup {e}
    BY <1>1 DEF Range
  <2>2. \A x \in Range(q) : x \in Range(a)
    <3> TAKE x \in Range(q)
    <3>1. PICK n \in DOMAIN q : x = q[n]
      BY DEF Range
    <3> QED
      BY <1>1, <3>1 DEF Range
  <2>3. e \in Range(a)
    BY <1>1 DEF Range
  <2> QED
    BY <2>1, <2>2, <2>3
<1>3. ASSUME IsInjective(q), e \notin Range(q) PROVE IsInjective(a)
  <2> SUFFICES ASSUME NEW m \in DOMAIN a, NEW n \in DOMAIN a, a[m] = a[n] PROVE m = n
    BY DEF IsInjective
  <2>1. \A i \in DOMAIN q : q[i] # e
    BY <1>3 DEF Range
  <2> QED
    BY <1>1, <1>3, <2>1 DEF IsInjective
<1> QED
  BY <1>2, <1>3 DEF a

\* The items of a chain are different, and are its room's.
LEMMA ChainDiffers ==
  ASSUME DeliveryInv, OrderInv, NEW g \in Rooms
  PROVE  /\ chain[g] \in Seq(Bridged) /\ IsInjective(chain[g])
         /\ \A i \in Waiting(g) : i \in Bridged /\ i.room = g /\ i.no <= arrived /\ g <= opened
         /\ stage[g] \notin {"idle", "sending"} => Hand(g) \in Waiting(g)
         /\ \A i \in Waiting(g) : \E n \in DOMAIN chain[g] :
               i = chain[g][n] /\ (n = 1 => stage[g] # "sending")
<1>1. /\ chain[g] \in Seq(Bridged) /\ (chain[g] # <<>> => g <= opened)
      /\ \A n \in DOMAIN chain[g] : chain[g][n].room = g /\ chain[g][n].no <= arrived
      /\ InOrder(chain[g], g)
  BY ItemTypes DEF OrderInv, ChainSound
<1>2. \A n \in DOMAIN chain[g] : n \in Nat /\ chain[g][n].no \in Nat /\ chain[g][n] \in Bridged
  BY <1>1, ItemTypes, Positions
<1>3. IsInjective(chain[g])
  <2> SUFFICES ASSUME NEW m \in DOMAIN chain[g], NEW n \in DOMAIN chain[g], m # n
               PROVE  chain[g][m] # chain[g][n]
    BY DEF IsInjective
  <2>1. CASE m < n
    BY <1>1, <1>2, <2>1 DEF InOrder
  <2>2. CASE n < m
    BY <1>1, <1>2, <2>2 DEF InOrder
  <2> QED
    BY <1>2, <2>1, <2>2
<1>4. \A i \in Waiting(g) : \E n \in DOMAIN chain[g] :
         i = chain[g][n] /\ (n = 1 => stage[g] # "sending")
  <2> TAKE i \in Waiting(g)
  <2>1. CASE stage[g] # "sending"
    BY <2>1 DEF Waiting, Range
  <2>2. CASE stage[g] = "sending"
    <3>1. chain[g] # <<>>
      BY <2>2 DEF DeliveryInv, HeadInHand
    <3>2. PICK n \in DOMAIN Tail(chain[g]) : i = Tail(chain[g])[n]
      BY <2>2 DEF Waiting, Range
    <3>3. n \in Nat \ {0} /\ n + 1 \in DOMAIN chain[g] /\ i = chain[g][n + 1]
      BY <1>1, <3>1, <3>2, Positions
    <3>4. n + 1 # 1
      BY <3>3
    <3> QED
      BY <3>3, <3>4
  <2> QED
    BY <2>1, <2>2
<1>5. ASSUME stage[g] \notin {"idle", "sending"} PROVE Hand(g) \in Waiting(g)
  <2>1. chain[g] # <<>>
    BY <1>5 DEF DeliveryInv, HeadInHand
  <2> QED
    BY <1>1, <1>3, <1>5, <2>1, RangeShift DEF Waiting, Hand
<1>6. ASSUME NEW i \in Waiting(g)
      PROVE  i \in Bridged /\ i.room = g /\ i.no <= arrived /\ g <= opened
  <2>1. PICK n \in DOMAIN chain[g] : i = chain[g][n]
    BY <1>4
  <2> QED
    BY <1>1, <1>2, <2>1
<1> QED
  BY <1>1, <1>3, <1>4, <1>5, <1>6

\* A delivery that is over leaves what waits as it was, unless it waited itself.
LEMMA LinkWaits ==
  ASSUME DeliveryInv, OrderInv, NEW G \in SUBSET Rooms, NextLink(G),
         \A g \in G : stage[g] # "idle"
  PROVE  \A g \in Rooms : Waiting(g)' = IF g \in G /\ stage[g] # "sending"
                                        THEN Waiting(g) \ {Hand(g)} ELSE Waiting(g)
<1> TAKE g \in Rooms
<1>1. chain[g] \in Seq(Bridged) /\ IsInjective(chain[g])
  BY ChainDiffers
<1>2. CASE g \notin G
  <2>1. chain'[g] = chain[g] /\ stage'[g] = stage[g]
    BY <1>2 DEF NextLink
  <2> QED
    BY <1>2, <2>1 DEF Waiting
<1>3. CASE g \in G
  <2>1. chain[g] # <<>>
    BY <1>3 DEF DeliveryInv, HeadInHand
  <2>2. chain'[g] = Tail(chain[g]) /\ stage'[g] # "sending"
    BY <1>3 DEF NextLink
  <2>3. Waiting(g)' = Range(Tail(chain[g]))
    BY <2>2 DEF Waiting
  <2>4. CASE stage[g] = "sending"
    BY <2>3, <2>4 DEF Waiting
  <2>5. CASE stage[g] # "sending"
    <3>1. Range(Tail(chain[g])) = Range(chain[g]) \ {Head(chain[g])}
      BY <1>1, <2>1, RangeShift
    <3> QED
      BY <1>3, <2>3, <2>5, <3>1 DEF Waiting, Hand
  <2> QED
    BY <2>4, <2>5
<1> QED
  BY <1>2, <1>3

Tracked == DeliveryInv /\ OrderInv /\ Apart

\* A step of the contract, or none that it sees.
Promised == [Contract!Next]_(Contract!contractVars)

\* The arrivals on their way, connection by connection.
LEMMA PendingIs ==
  ASSUME DeliveryInv, DeliveryInv'
  PROVE  \A i : /\ i \in Pending <=> \/ \E g \in Rooms : i \in Waiting(g)
                                     \/ \E k \in Keys : i \in Queue(k)
                /\ i \in Pending' <=> \/ \E g \in Rooms : i \in Waiting(g)'
                                      \/ \E k \in Keys : i \in Queue(k)'
<1>1. DOMAIN conns = Keys /\ DOMAIN conns' = Keys
  BY DEF DeliveryInv, PoolSound
<1> QED
  BY <1>1 DEF Pending

\* What is in a queue.
LEMMA Queues ==
  ASSUME DeliveryInv, OrderInv, NEW k \in Keys
  PROVE  /\ conns[k].queue \in Seq(Bridged)
         /\ \A i \in Queue(k) : /\ i \in Bridged /\ QueueItem(i, k)
                                /\ \E n \in DOMAIN conns[k].queue : i = conns[k].queue[n]
<1>1. conns[k].queue \in Seq(Bridged)
  BY ItemTypes
<1>2. \A n \in DOMAIN conns[k].queue : /\ conns[k].queue[n] \in Bridged
                                       /\ QueueItem(conns[k].queue[n], k)
  BY <1>1, Positions DEF OrderInv, QueueSound
<1> QED
  BY <1>1, <1>2 DEF Queue, Range

\* Nothing starts on its way, and what was sent leaves it.
LEMMA ApartShrinks ==
  ASSUME Apart, \A g \in Rooms : Waiting(g)' \subseteq Waiting(g),
         \A k \in Keys : Queue(k)' \subseteq Queue(k) /\ IsInjective(conns'[k].queue),
         \A i \in sent' : \/ i \in sent
                          \/ /\ \A g \in Rooms : i \notin Waiting(g)'
                             /\ \A k \in Keys : i \notin Queue(k)'
  PROVE  Apart'
<1>1. ASSUME NEW g \in Rooms
      PROVE  Waiting(g)' \cap sent' = {} /\ \A k \in Keys : Waiting(g)' \cap Queue(k)' = {}
  BY <1>1 DEF Apart
<1>2. ASSUME NEW k \in Keys
      PROVE  /\ Queue(k)' \cap sent' = {} /\ IsInjective(conns'[k].queue)
             /\ \A j \in Keys : j # k => Queue(j)' \cap Queue(k)' = {}
  BY <1>2 DEF Apart
<1> QED
  BY <1>1, <1>2 DEF Apart

\* The head of a queue is the first of its sender's on their way in the open room.
LEMMA HeadIsFirst ==
  ASSUME Tracked, NEW k \in Keys, conns[k].queue # <<>>, NEW h, h = Head(conns[k].queue),
         NEW j, \/ \E g \in Rooms : j \in Waiting(g)
                \/ \E l \in Keys : j \in Queue(l),
         j.room = room, h.room = room, Author[j.text] = Author[h.text]
  PROVE  h.no <= j.no
<1> USE DEF Tracked
<1>1. /\ h = conns[k].queue[1] /\ 1 \in DOMAIN conns[k].queue /\ h \in Bridged /\ h.no \in Nat
      /\ QueueItem(h, k)
  <2>1. conns[k].queue \in Seq(Bridged)
    BY ItemTypes
  <2>2. h = conns[k].queue[1] /\ 1 \in DOMAIN conns[k].queue /\ h \in Bridged
    BY <2>1, Positions
  <2> QED
    BY <2>2, ItemTypes DEF OrderInv, QueueSound
<1>2. ASSUME NEW g \in Rooms, j \in Waiting(g) PROVE h.no <= j.no
  <2>1. j.room = g /\ j \in Bridged /\ j.no \in Nat
    BY <1>2, ChainDiffers, ItemTypes
  <2>2. PICK n \in DOMAIN chain[g] : j = chain[g][n] /\ (n = 1 => stage[g] # "sending")
    BY <1>2, ChainDiffers
  <2>3. Before(h, chain[g], stage[g])
    BY <1>1, <2>1 DEF QueueItem
  <2> QED
    BY <1>1, <2>1, <2>2, <2>3 DEF Before
<1>3. ASSUME NEW l \in Keys, j \in Queue(l) PROVE h.no <= j.no
  <2>1. j \in Bridged /\ j.no \in Nat /\ QueueItem(j, l)
    BY <1>3, Queues, ItemTypes
  <2>2. l = k
    <3>1. l[1] = k[1] /\ l[2] = k[2]
      BY <1>1, <2>1 DEF QueueItem
    <3> QED
      BY <3>1 DEF Keys
  <2>3. PICK n \in DOMAIN conns[k].queue : j = conns[k].queue[n]
    BY <1>3, <2>2, Queues
  <2>4. n \in Nat \ {0} /\ InOrder(conns[k].queue, room)
    <3>1. room # 0
      BY <2>1, ItemTypes
    <3> QED
      BY <3>1, ItemTypes, Positions DEF OrderInv, QueueSound
  <2>5. CASE n = 1
    BY <1>1, <2>3, <2>5
  <2>6. CASE 1 < n
    BY <1>1, <2>1, <2>3, <2>4, <2>6 DEF InOrder
  <2> QED
    BY <2>4, <2>5, <2>6
<1> QED
  BY <1>2, <1>3

\* A step of the pool: a head is delivered or given up, or nobody sees anything.
LEMMA PoolPromised ==
  ASSUME Tracked, DeliveryInv', NEW k \in Keys,
         \/ Registers(k) \/ SocketOpens(k) \/ SocketFails(k) \/ Paced(k)
         \/ SocketDrops(k) \/ SocketGone(k) \/ EarlierGone(k)
  PROVE  Apart' /\ Promised
<1> USE DEF Tracked
<1> DEFINE c == conns[k]
<1>1. c \in Conns /\ conns \in [Keys -> Conns] /\ Works(c) /\ c.queue \in Seq(Bridged)
  BY ItemTypes DEF DeliveryInv, PoolSound
<1>2. PICK d : Conn(k, d) /\ \/ /\ d = Sends(c) /\ c.step = "pace"
                                /\ sent' \in {sent, sent \cup {Head(c.queue)}}
                             \/ d.queue = c.queue /\ sent' = sent
  BY <1>1, QueueSteps DEF Registers, SocketOpens, SocketFails, Paced, SocketDrops, SocketGone,
     EarlierGone, connFrame, histVars
<1>3. room' = room
  BY DEF Registers, SocketOpens, SocketFails, Paced, SocketDrops, SocketGone, EarlierGone,
     connFrame, roomVars
<1>4. \A g \in Rooms : Waiting(g)' = Waiting(g)
  <2> DEFINE G == Freed(k, d)
  <2>1. G \in SUBSET Rooms /\ NextLink(G) /\ \A g \in G : stage[g] = "sending"
    BY <1>2 DEF Conn, Freed
  <2> HIDE DEF G
  <2>2. \A g \in G : stage[g] # "idle"
    BY <2>1
  <2> QED
    BY <2>1, <2>2, LinkWaits
<1>5. conns'[k] = d /\ \A j \in Keys : j # k => conns'[j] = conns[j]
  BY <1>1, <1>2 DEF Conn
<1>6. CASE d.queue = c.queue /\ sent' = sent
  <2>1. \A j \in Keys : conns'[j].queue = conns[j].queue
    BY <1>5, <1>6
  <2>2. \A j \in Keys : Queue(j)' = Queue(j)
    BY <2>1 DEF Queue
  <2>3. Apart'
    BY <1>4, <1>6, <2>1, <2>2, ApartShrinks DEF Apart
  <2>4. Pending' = Pending
    BY <1>4, <2>2, PendingIs
  <2> QED
    BY <1>3, <1>6, <2>3, <2>4 DEF Promised, Contract!contractVars
<1>7. CASE /\ d = Sends(c) /\ c.step = "pace"
           /\ sent' \in {sent, sent \cup {Head(c.queue)}}
  <2>1. c.queue # <<>> /\ d.queue = Tail(c.queue)
    BY <1>1, <1>7, QueueSteps DEF Works
  <2>2. PICK h : h = Head(c.queue)
    OBVIOUS
  <2>3. h \in Queue(k) /\ Range(Tail(c.queue)) = Queue(k) \ {h} /\ IsInjective(Tail(c.queue))
    BY <1>1, <2>1, <2>2, RangeShift DEF Apart, Queue
  <2>4. /\ Queue(k)' = Queue(k) \ {h} /\ IsInjective(conns'[k].queue)
        /\ \A j \in Keys : j # k => Queue(j)' = Queue(j) /\ conns'[j].queue = conns[j].queue
    BY <1>5, <2>1, <2>3 DEF Queue
  <2>5. /\ \A g \in Rooms : h \notin Waiting(g)
        /\ \A j \in Keys : j # k => h \notin Queue(j)
    BY <2>3 DEF Apart
  <2>6. Apart'
    <3>1. \A j \in Keys : Queue(j)' \subseteq Queue(j) /\ IsInjective(conns'[j].queue)
      BY <2>4 DEF Apart
    <3>2. \A i \in sent' : i \in sent \/ i = h
      BY <1>7, <2>2
    <3>3. (\A g \in Rooms : h \notin Waiting(g)') /\ \A j \in Keys : h \notin Queue(j)'
      BY <1>4, <2>4, <2>5
    <3> QED
      BY <1>4, <3>1, <3>2, <3>3, ApartShrinks
  <2>7. Pending' = Pending \ {h} /\ h \in Pending
    BY <1>4, <2>3, <2>4, <2>5, PendingIs
  <2>8. h \in Items
    BY <2>3, Queues DEF Bridged
  <2>9. CASE sent' = sent
    BY <1>3, <2>6, <2>7, <2>8, <2>9 DEF Promised, Contract!Next, Contract!GiveUp
  <2>10. CASE sent' = sent \cup {h}
    <3>1. \A j \in Pending :
            j.room = room /\ h.room = room /\ Author[j.text] = Author[h.text] => h.no <= j.no
      BY <2>1, <2>2, PendingIs, HeadIsFirst
    <3> QED
      BY <1>3, <2>6, <2>7, <2>8, <2>10, <3>1
      DEF Promised, Contract!Next, Contract!Deliver, Contract!First
  <2> QED
    BY <1>7, <2>2, <2>6, <2>9, <2>10
<1> QED
  BY <1>2, <1>6, <1>7

\* Where what waits and what is queued stay where they are, nothing is on its way that was
\* not.
LEMMA StillApart ==
  ASSUME Tracked, DeliveryInv', UNCHANGED sent,
         \A g \in Rooms : Waiting(g)' = Waiting(g),
         \A k \in Keys : conns'[k].queue = conns[k].queue
  PROVE  Apart' /\ Pending' = Pending
<1> USE DEF Tracked
<1>1. \A k \in Keys : Queue(k)' = Queue(k)
  BY DEF Queue
<1>2. Apart'
  <2>1. \A k \in Keys : Queue(k)' \subseteq Queue(k) /\ IsInjective(conns'[k].queue)
    BY <1>1 DEF Apart
  <2> QED
    BY <2>1, ApartShrinks
<1>3. Pending' = Pending
  BY <1>1, PendingIs
<1> QED
  BY <1>2, <1>3

LEMMA Unseen ==
  ASSUME Tracked, DeliveryInv', UNCHANGED <<room, sent>>,
         \A g \in Rooms : Waiting(g)' = Waiting(g),
         \A k \in Keys : conns'[k].queue = conns[k].queue
  PROVE  Apart' /\ Promised
<1>1. UNCHANGED sent
  OBVIOUS
<1> QED
  BY <1>1, StillApart DEF Promised, Contract!contractVars

\* The head in hand goes from its chain to a queue.
LEMMA QueuedPromised ==
  ASSUME Tracked, DeliveryInv', NEW g \in Rooms, stage[g] \notin {"idle", "sending"}, Queued(g),
         UNCHANGED <<room, sent>>
  PROVE  Apart' /\ Promised
<1> USE DEF Tracked
<1>1. PICK i : i = Hand(g)
  OBVIOUS
<1>2. PICK k : k = <<From(g), gone>>
  OBVIOUS
<1>3. i \in Bridged /\ k \in Keys /\ chain[g] \in Seq(Bridged) /\ chain[g] # <<>> /\ i \in Waiting(g)
  <2>1. i \in Bridged /\ From(g) \in Senders
    BY <1>1, InHand DEF DeliveryInv
  <2>2. chain[g] \in Seq(Bridged) /\ chain[g] # <<>> /\ i \in Waiting(g)
    BY <1>1, ChainDiffers DEF DeliveryInv, HeadInHand
  <2> QED
    BY <1>2, <2>1, <2>2 DEF Keys, DeliveryInv, RoomSound
<1>4. /\ conns' = [conns EXCEPT ![k] = Pushed(@, i)] /\ chain' = chain
      /\ stage' = [stage EXCEPT ![g] = "sending"]
  BY <1>1, <1>2 DEF Queued
<1>5. conns \in [Keys -> Conns] /\ conns[k] \in Conns /\ conns[k].queue \in Seq(Bridged)
  BY <1>3, ItemTypes DEF DeliveryInv, PoolSound
<1>6. /\ conns'[k].queue = Append(conns[k].queue, i)
      /\ \A j \in Keys : j # k => conns'[j].queue = conns[j].queue
  BY <1>3, <1>4, <1>5, QueueSteps
<1>7. i \notin sent /\ \A j \in Keys : i \notin Queue(j)
  BY <1>3 DEF Apart
<1>8. /\ Queue(k)' = Queue(k) \cup {i} /\ IsInjective(conns'[k].queue)
      /\ \A j \in Keys : j # k => Queue(j)' = Queue(j)
  <2>1. IsInjective(conns[k].queue) /\ i \notin Range(conns[k].queue)
    BY <1>3, <1>7 DEF Apart, Queue
  <2> QED
    BY <1>3, <1>5, <1>6, <2>1, RangeGrows DEF Queue
<1>9. Waiting(g)' = Waiting(g) \ {i} /\ \A h \in Rooms : h # g => Waiting(h)' = Waiting(h)
  <2>1. stage'[g] = "sending" /\ \A h \in Rooms : h # g => stage'[h] = stage[h]
    BY <1>4 DEF DeliveryInv, LinkTypes
  <2>2. Range(Tail(chain[g])) = Range(chain[g]) \ {Head(chain[g])}
    BY <1>3, ChainDiffers, RangeShift
  <2> QED
    BY <1>1, <1>4, <2>1, <2>2 DEF Waiting, Hand
<1>10. \A h \in Rooms : i \notin Waiting(h)'
  <2>1. \A h \in Rooms : h # g => i \notin Waiting(h)
    BY <1>3, ChainDiffers
  <2> QED
    BY <1>9, <2>1
<1>11. Apart'
  <2>1. ASSUME NEW h \in Rooms
        PROVE  Waiting(h)' \cap sent' = {} /\ \A j \in Keys : Waiting(h)' \cap Queue(j)' = {}
    <3>1. Waiting(h)' \subseteq Waiting(h) /\ i \notin Waiting(h)'
      BY <1>9, <1>10
    <3>2. \A j \in Keys : Queue(j)' \subseteq Queue(j) \cup {i}
      BY <1>8
    <3> QED
      BY <3>1, <3>2 DEF Apart
  <2>2. ASSUME NEW l \in Keys
        PROVE  /\ Queue(l)' \cap sent' = {} /\ IsInjective(conns'[l].queue)
               /\ \A j \in Keys : j # l => Queue(j)' \cap Queue(l)' = {}
    <3>1. /\ Queue(l) \cap sent = {} /\ IsInjective(conns[l].queue)
          /\ \A j \in Keys : j # l => Queue(j) \cap Queue(l) = {}
      BY DEF Apart
    <3>2. IsInjective(conns'[l].queue)
      BY <1>6, <1>8, <3>1
    <3> QED
      BY <1>7, <1>8, <3>1, <3>2
  <2> QED
    BY <2>1, <2>2 DEF Apart
<1>12. Pending' = Pending
  <2>1. \A j : (\E h \in Rooms : j \in Waiting(h)') <=> (\E h \in Rooms : j \in Waiting(h)) /\ j # i
    BY <1>9, <1>10
  <2>2. \A j : (\E l \in Keys : j \in Queue(l)') <=> (\E l \in Keys : j \in Queue(l)) \/ j = i
    BY <1>3, <1>8
  <2>3. \E h \in Rooms : i \in Waiting(h)
    BY <1>3
  <2> QED
    BY <2>1, <2>2, <2>3, PendingIs
<1> QED
  BY <1>11, <1>12 DEF Promised, Contract!contractVars

\* The steps of the delivery in hand: it is given up, or nobody sees anything.
LEMMA DeliveryPromised ==
  ASSUME Tracked, DeliveryInv', NEW g \in Rooms,
         (\E n \in Names : Named(g, n)) \/ (\E emoji \in BOOLEAN : Rendered(g, emoji)) \/ Fetched(g)
  PROVE  Apart' /\ Promised
<1> USE DEF Tracked
<1>1. UNCHANGED <<room, sent>> /\ stage[g] \notin {"idle", "sending"}
  BY DEF Named, Rendered, Fetched, roomVars, histVars
<1>2. CASE NextLink({g}) /\ UNCHANGED conns
  <2>1. PICK i : i = Hand(g)
    OBVIOUS
  <2>2. i \in Bridged /\ i \in Waiting(g)
    BY <1>1, <2>1, ChainDiffers
  <2>3. Waiting(g)' = Waiting(g) \ {i} /\ \A h \in Rooms : h # g => Waiting(h)' = Waiting(h)
    <3>1. {g} \in SUBSET Rooms /\ \A h \in {g} : stage[h] # "idle"
      BY <1>1
    <3> QED
      BY <1>1, <1>2, <2>1, <3>1, LinkWaits
  <2>4. \A k \in Keys : Queue(k)' = Queue(k) /\ IsInjective(conns'[k].queue) /\ i \notin Queue(k)
    BY <1>2, <2>2 DEF Queue, Apart
  <2>5. \A h \in Rooms : h # g => i \notin Waiting(h)
    BY <2>2, ChainDiffers
  <2>6. Apart'
    <3>1. \A h \in Rooms : Waiting(h)' \subseteq Waiting(h)
      BY <2>3
    <3> QED
      BY <1>1, <2>4, <3>1, ApartShrinks
  <2>7. Pending' = Pending \ {i} /\ i \in Pending
    BY <2>2, <2>3, <2>4, <2>5, PendingIs
  <2>8. i \in Items
    BY <2>2 DEF Bridged
  <2> QED
    BY <1>1, <2>6, <2>7, <2>8 DEF Promised, Contract!Next, Contract!GiveUp
<1>3. CASE (\E s \in {"rendering", "fetching"} : stage' = [stage EXCEPT ![g] = s])
           /\ UNCHANGED <<chain, conns>>
  <2>1. stage'[g] # "sending" /\ \A h \in Rooms : h # g => stage'[h] = stage[h]
    BY <1>3 DEF DeliveryInv, LinkTypes
  <2>2. \A h \in Rooms : Waiting(h)' = Waiting(h)
    BY <1>1, <1>3, <2>1 DEF Waiting
  <2> QED
    BY <1>1, <1>3, <2>2, Unseen
<1>4. CASE Queued(g)
  BY <1>1, <1>4, QueuedPromised
<1>5. \/ NextLink({g}) /\ UNCHANGED conns
      \/ (\E s \in {"rendering", "fetching"} : stage' = [stage EXCEPT ![g] = s])
         /\ UNCHANGED <<chain, conns>>
      \/ Queued(g)
  BY DEF Named, Rendered, Fetched, PoolSend, poolVars
<1> QED
  BY <1>2, <1>3, <1>4, <1>5

LEMMA ArrivePromised ==
  ASSUME Tracked, DeliveryInv', NEW x \in Texts, Arrive(x)
  PROVE  Apart' /\ Promised
<1> USE DEF Tracked
<1>1. UNCHANGED <<room, conns, sent>> /\ room # 0 /\ room \in Rooms /\ arrived' = arrived + 1
  BY DEF Arrive, roomVars, poolVars, histVars, DeliveryInv, RoomSound, Rooms
<1>2. PICK i : i = [text |-> x, no |-> arrived', room |-> room]
  OBVIOUS
<1>3. i.no = arrived + 1 /\ i.room = room /\ arrived \in Nat
  BY <1>1, <1>2, ItemTypes
<1>4. chain' = [chain EXCEPT ![room] = Append(@, i)]
      /\ stage' = [stage EXCEPT ![room] = IF @ = "idle" THEN "naming" ELSE @]
  BY <1>2 DEF Arrive
<1>5. /\ chain[room] \in Seq(Bridged) /\ stage[room] \in Stages /\ stage \in [Rooms -> Stages]
      /\ chain'[room] = Append(chain[room], i)
      /\ \A g \in Rooms : g # room => chain'[g] = chain[g] /\ stage'[g] = stage[g]
      /\ stage'[room] = "sending" <=> stage[room] = "sending"
  BY <1>1, <1>4 DEF DeliveryInv, LinkTypes
<1>6. i \in Bridged
  <2>1. chain'[room] \in Seq(Bridged)
    BY <1>1 DEF DeliveryInv, LinkTypes
  <2>2. Len(chain[room]) + 1 \in DOMAIN Append(chain[room], i)
        /\ Append(chain[room], i)[Len(chain[room]) + 1] = i
    BY <1>5
  <2> QED
    BY <1>5, <2>1, <2>2, Positions
<1>r. PICK r \in Rooms : r = room
  BY <1>1
<1>7. Waiting(r)' = Waiting(r) \cup {i}
  <2>1. CASE stage[r] # "sending"
    <3>1. Waiting(r)' = Range(Append(chain[r], i)) /\ Waiting(r) = Range(chain[r])
      BY <1>r, <1>5, <2>1 DEF Waiting
    <3> QED
      BY <1>r, <1>5, <1>6, <3>1, RangeGrows
  <2>2. CASE stage[r] = "sending"
    <3>1. chain[r] # <<>>
      BY <1>r, <2>2 DEF DeliveryInv, HeadInHand
    <3>2. Tail(Append(chain[r], i)) = Append(Tail(chain[r]), i)
          /\ Tail(chain[r]) \in Seq(Bridged)
      BY <1>r, <1>5, <1>6, <3>1, TailOfAppend
    <3>3. PICK t : t = Tail(chain[r])
      OBVIOUS
    <3>4. Waiting(r)' = Range(Append(t, i)) /\ Waiting(r) = Range(t)
      BY <1>r, <1>5, <2>2, <3>2, <3>3 DEF Waiting
    <3>5. t \in Seq(Bridged)
      BY <3>2, <3>3
    <3> QED
      BY <1>6, <3>4, <3>5, RangeGrows
  <2> QED
    BY <2>1, <2>2
<1>8. \A g \in Rooms : g # r => Waiting(g)' = Waiting(g)
  BY <1>r, <1>5 DEF Waiting
<1>9. \A k \in Keys : Queue(k)' = Queue(k) /\ conns'[k].queue = conns[k].queue
  BY <1>1 DEF Queue
\* Its number is new.
<1>10. /\ \A j \in sent : j.no < i.no
       /\ \A g \in Rooms : \A j \in Waiting(g) : j.no < i.no
       /\ \A k \in Keys : \A j \in Queue(k) : j.no < i.no
  <2>1. \A j \in Bridged : j.no <= arrived => j.no < i.no
    BY <1>3, ItemTypes
  <2>2. \A j \in sent : j \in Bridged /\ j.no <= arrived
    BY DEF OrderInv, SentSound, SentItem, DeliveryInv, RestTypes
  <2>3. \A g \in Rooms : \A j \in Waiting(g) : j \in Bridged /\ j.no <= arrived
    BY ChainDiffers
  <2>4. \A k \in Keys : \A j \in Queue(k) : j \in Bridged /\ j.no <= arrived
    BY Queues DEF QueueItem
  <2> QED
    BY <2>1, <2>2, <2>3, <2>4
<1>11. i \notin sent /\ \A k \in Keys : i \notin Queue(k)
  <2>1. ~(i.no < i.no)
    BY <1>3
  <2> QED
    BY <1>10, <2>1
<1>12. Apart'
  <2>1. ASSUME NEW g \in Rooms
        PROVE  Waiting(g)' \cap sent' = {} /\ \A k \in Keys : Waiting(g)' \cap Queue(k)' = {}
    <3>1. Waiting(g)' \subseteq Waiting(g) \cup {i}
      BY <1>7, <1>8
    <3> QED
      BY <1>1, <1>9, <1>11, <3>1 DEF Apart
  <2>2. ASSUME NEW k \in Keys
        PROVE  /\ Queue(k)' \cap sent' = {} /\ IsInjective(conns'[k].queue)
               /\ \A j \in Keys : j # k => Queue(j)' \cap Queue(k)' = {}
    BY <1>1, <1>9 DEF Apart
  <2> QED
    BY <2>1, <2>2 DEF Apart
<1>13. Pending' = Pending \cup {i}
  BY <1>1, <1>7, <1>8, <1>9, PendingIs
<1>14. \A j \in Pending \cup sent : j.no < i.no
  BY <1>10, PendingIs
<1>15. i \in Items
  BY <1>6 DEF Bridged
<1> QED
  BY <1>1, <1>3, <1>12, <1>13, <1>14, <1>15
  DEF Promised, Contract!Next, Contract!Arrive, Contract!Known

\* Rooms open, close, and die with the process.
LEMMA RoomPromised ==
  ASSUME Tracked, DeliveryInv', OpenRoom \/ CloseRoom \/ Restart
  PROVE  Apart' /\ Promised
<1> USE DEF Tracked
<1>1. CASE OpenRoom
  <2>1. /\ room = 0 /\ room' = opened + 1 /\ opened \in Nat
        /\ UNCHANGED <<chain, stage, conns, sent>>
    BY <1>1, ItemTypes DEF OpenRoom, chainVars, poolVars, histVars
  <2>2. \A g \in Rooms : Waiting(g)' = Waiting(g)
    BY <2>1 DEF Waiting
  <2>3. Apart' /\ Pending' = Pending
    <3>1. \A k \in Keys : conns'[k].queue = conns[k].queue
      BY <2>1
    <3> QED
      BY <2>1, <2>2, <3>1, StillApart
  <2>4. \A j \in Pending \cup sent : j \in Bridged /\ j.room <= opened
    <3>1. \A j \in sent : j \in Bridged /\ j.room <= opened
      BY DEF OrderInv, SentSound, SentItem, DeliveryInv, RestTypes
    <3>2. \A g \in Rooms : \A j \in Waiting(g) : j \in Bridged /\ j.room <= opened
      BY ChainDiffers
    <3>3. \A k \in Keys : \A j \in Queue(k) : j \in Bridged /\ j.room <= opened
      BY Queues DEF QueueItem
    <3> QED
      BY <3>1, <3>2, <3>3, PendingIs
  <2>5. \A j \in Pending \cup sent : j.room < room'
    BY <2>1, <2>4, ItemTypes
  <2>6. room' \in Nat \ {0}
    BY <2>1
  <2> QED
    BY <2>1, <2>3, <2>5, <2>6 DEF Promised, Contract!Next, Contract!Open, Contract!Known
<1>2. CASE CloseRoom
  <2>1. room # 0 /\ room' = 0 /\ UNCHANGED <<chain, stage, sent>>
    BY <1>2 DEF CloseRoom, chainVars
  <2>2. \A k \in Keys : conns'[k].queue = conns[k].queue
    <3>1. conns' = [k \in Keys |-> IF k[2] = gone THEN Destroyed(conns[k]) ELSE conns[k]]
      BY <1>2 DEF CloseRoom, DeliveryInv, PoolSound
    <3> QED
      BY <3>1, ItemTypes, QueueSteps
  <2>3. \A g \in Rooms : Waiting(g)' = Waiting(g)
    BY <2>1 DEF Waiting
  <2>4. Apart' /\ Pending' = Pending
    BY <2>1, <2>2, <2>3, StillApart
  <2> QED
    BY <2>1, <2>4 DEF Promised, Contract!Next, Contract!Close
<1>3. CASE Restart
  <2>1. /\ room' = 0 /\ sent' = sent
        /\ \A g \in Rooms : chain'[g] = <<>> /\ stage'[g] # "sending"
    BY <1>3 DEF Restart
  <2>2. \A k \in Keys : conns'[k].queue = <<>>
    BY <1>3 DEF Restart, Blank, Keys, New
  <2>3. Range(<<>>) = {} /\ IsInjective(<<>>)
    BY DEF Range, IsInjective
  <2>4. (\A g \in Rooms : Waiting(g)' = {}) /\ \A k \in Keys : Queue(k)' = {}
    BY <2>1, <2>2, <2>3 DEF Waiting, Queue
  <2>5. Apart'
    BY <2>2, <2>3, <2>4 DEF Apart
  <2>6. Pending' = {}
    BY <2>4, PendingIs
  <2> QED
    BY <2>1, <2>5, <2>6 DEF Promised, Contract!Next, Contract!Crash
<1> QED
  BY <1>1, <1>2, <1>3

\* Steps that touch neither chains nor queues.
LEMMA AlonePromised ==
  ASSUME Tracked, DeliveryInv', UNCHANGED <<room, sent, chain, stage, conns>>
  PROVE  Apart' /\ Promised
<1>1. \A g \in Rooms : Waiting(g)' = Waiting(g)
  BY DEF Waiting
<1>2. \A k \in Keys : conns'[k].queue = conns[k].queue
  OBVIOUS
<1>3. UNCHANGED <<room, sent>>
  OBVIOUS
<1> QED
  BY <1>1, <1>2, <1>3, Unseen

LEMMA NextPromised ==
  ASSUME Tracked, DeliveryInv', [Next]_vars
  PROVE  Apart' /\ Promised
<1>1. CASE OpenRoom \/ CloseRoom \/ Restart
  BY <1>1, RoomPromised
<1>2. ASSUME NEW x \in Texts, Arrive(x) PROVE Apart' /\ Promised
  BY <1>2, ArrivePromised
<1>3. ASSUME NEW x \in Texts,
             \/ Say(x) \/ Asks(x) \/ Challenged(x) \/ Stores(x) \/ Accepted(x)
             \/ Refused(x) \/ AuthAnswered(x) \/ PublishEnds(x)
      PROVE  Apart' /\ Promised
  <2>1. UNCHANGED <<room, sent, chain, stage, conns>>
    BY <1>3 DEF Say, Asks, Challenged, Stores, Accepted, Refused, AuthAnswered, PublishEnds,
       pubFrame, roomVars, chainVars, poolVars, histVars
  <2> QED
    BY <2>1, AlonePromised
<1>4. ASSUME NEW g \in Rooms,
             \/ \E n \in Names : Named(g, n)
             \/ \E emoji \in BOOLEAN : Rendered(g, emoji)
             \/ Fetched(g)
      PROVE  Apart' /\ Promised
  BY <1>4, DeliveryPromised
<1>5. ASSUME NEW k \in DOMAIN conns,
             \/ Registers(k) \/ SocketOpens(k) \/ SocketFails(k) \/ Paced(k)
             \/ SocketDrops(k) \/ SocketGone(k) \/ EarlierGone(k)
      PROVE  Apart' /\ Promised
  <2>1. k \in Keys
    BY DEF Tracked, DeliveryInv, PoolSound
  <2> QED
    BY <1>5, <2>1, PoolPromised
<1>6. CASE UNCHANGED vars
  <2>1. UNCHANGED <<room, sent, chain, stage, conns>>
    BY <1>6 DEF vars, roomVars, chainVars, poolVars, histVars
  <2> QED
    BY <2>1, AlonePromised
<1> QED
  BY <1>1, <1>2, <1>3, <1>4, <1>5, <1>6 DEF Next

\* No arrival is in two places.
LEMMA ApartInductive == Spec => []Tracked
<1>1. Init => Apart
  <2> SUFFICES ASSUME Init PROVE Apart
    OBVIOUS
  <2>1. /\ \A k \in Keys : conns[k].queue = <<>>
        /\ \A g \in Rooms : chain[g] = <<>> /\ stage[g] # "sending"
    BY DEF Init, Blank, Keys, New
  <2>2. Range(<<>>) = {} /\ IsInjective(<<>>)
    BY DEF Range, IsInjective
  <2>3. (\A g \in Rooms : Waiting(g) = {}) /\ \A k \in Keys : Queue(k) = {}
    BY <2>1, <2>2 DEF Waiting, Queue
  <2> QED
    BY <2>1, <2>2, <2>3 DEF Apart
<1>2. DeliveryInv /\ DeliveryInv' /\ OrderInv /\ Apart /\ [Next]_vars => Apart'
  BY NextPromised DEF Tracked
<1> QED
  BY <1>1, <1>2, OrderInductive, PTL DEF Spec, Tracked

-----------------------------------------------------------------------------
(* Copies *)

\* Inductive form of TwiceAtMost. An item is past the fingerprints when it is rendered, on its
\* way, or was sent. In a room where something may still come to the fingerprints, each such
\* item is in them under some name, and two with the same text are there under both. Nothing is said
\* of a text of which the room has forgotten a fingerprint.
Past == {"rendering", "fetching"}
Passed(i) == \/ i \in sent
             \/ \E k \in Keys : i \in Queue(k)
             \/ \E g \in Rooms : stage[g] \in Past /\ i = Hand(g)
InUse(g) == g = room \/ chain[g] # <<>>
Marked(i, n) == <<i.text, n>> \in fingerprints[i.room]
Fresh(i) == <<i.room, i.text>> \notin lapsed
Twin(i, j) == i # j /\ i.text = j.text /\ i.room = j.room

MarkInv == \A i : Passed(i) /\ Fresh(i) =>
    /\ InUse(i.room) => \E n \in Names : Marked(i, n)
    /\ \A j : Passed(j) /\ Twin(i, j) =>
          /\ InUse(i.room) => \A n \in Names : Marked(i, n)
          /\ \A k : Passed(k) /\ Twin(i, k) => j = k

\* What is past the fingerprints was said in a room that was opened.
LEMMA PassedTypes ==
  ASSUME Tracked, NEW i, Passed(i)
  PROVE  i \in Bridged /\ i.room \in Rooms /\ i.room <= opened
<1> USE DEF Tracked
<1>1. CASE i \in sent
  BY <1>1 DEF OrderInv, SentSound, SentItem, DeliveryInv, RestTypes, Bridged, Items
<1>2. ASSUME NEW k \in Keys, i \in Queue(k) PROVE i \in Bridged /\ i.room <= opened
  BY <1>2, Queues DEF QueueItem
<1>3. ASSUME NEW g \in Rooms, stage[g] \in Past, i = Hand(g)
      PROVE  i \in Bridged /\ i.room <= opened
  <2>1. i \in Waiting(g)
    BY <1>3, ChainDiffers DEF Past
  <2> QED
    BY <2>1, ChainDiffers
<1>4. i \in Bridged => i.room \in Rooms
  BY DEF Bridged, Items
<1> QED
  BY <1>1, <1>2, <1>3, <1>4 DEF Passed

\* Nothing new passes, and where something still may the fingerprints only grow.
LEMMA StillMarked ==
  ASSUME MarkInv, lapsed \subseteq lapsed',
         \A i : Passed(i)' /\ Fresh(i)' =>
             /\ Passed(i)
             /\ InUse(i.room)' => /\ InUse(i.room)
                                  /\ \A n \in Names : Marked(i, n) => Marked(i, n)'
  PROVE  MarkInv'
<1> SUFFICES ASSUME NEW i, Passed(i)', Fresh(i)'
             PROVE  /\ InUse(i.room)' => \E n \in Names : Marked(i, n)'
                    /\ \A j : Passed(j)' /\ Twin(i, j) =>
                          /\ InUse(i.room)' => \A n \in Names : Marked(i, n)'
                          /\ \A k : Passed(k)' /\ Twin(i, k) => j = k
  BY DEF MarkInv, Twin
<1>1. Passed(i) /\ Fresh(i) /\ \A j : Passed(j)' /\ Twin(i, j) => Passed(j)
  BY DEF Fresh, Twin
<1>2. /\ InUse(i.room) => \E n \in Names : Marked(i, n)
      /\ \A j : Passed(j) /\ Twin(i, j) =>
            /\ InUse(i.room) => \A n \in Names : Marked(i, n)
            /\ \A k : Passed(k) /\ Twin(i, k) => j = k
  BY <1>1 DEF MarkInv
<1> HIDE DEF MarkInv, Passed, InUse, Marked, Twin, Fresh
<1> QED
  BY <1>1, <1>2

LEMMA PassesOnlyHands ==
  ASSUME \A i \in sent' : Passed(i), \A k \in Keys : \A i \in Queue(k)' : Passed(i),
         \A g \in Rooms : stage'[g] \in Past => stage[g] \in Past /\ chain'[g] = chain[g]
  PROVE  \A i : Passed(i)' => Passed(i)
<1> TAKE i
<1>1. CASE i \in sent'
  BY <1>1
<1>2. ASSUME NEW k \in Keys, i \in Queue(k)' PROVE Passed(i)
  BY <1>2
<1>3. ASSUME NEW g \in Rooms, stage'[g] \in Past, i = Hand(g)' PROVE Passed(i)
  <2>1. stage[g] \in Past /\ Hand(g)' = Hand(g)
    BY <1>3 DEF Hand
  <2> QED
    BY <1>3, <2>1 DEF Passed
<1> QED
  BY <1>1, <1>2, <1>3 DEF Passed

LEMMA MarksKept ==
  ASSUME Tracked, MarkInv, \A i : Passed(i)' => Passed(i), room' \in {0, room}, lapsed' = lapsed,
         \A g \in Rooms : /\ fingerprints[g] \subseteq fingerprints'[g]
                          /\ chain'[g] # <<>> => g = room \/ chain[g] # <<>>
  PROVE  MarkInv'
<1>1. ASSUME NEW i, Passed(i)', InUse(i.room)'
      PROVE  InUse(i.room) /\ \A n \in Names : Marked(i, n) => Marked(i, n)'
  <2>1. i.room \in Rooms /\ i.room # 0
    BY <1>1, PassedTypes DEF Rooms
  <2> QED
    BY <1>1, <2>1 DEF InUse, Marked
<1> QED
  BY <1>1, StillMarked

\* deliverToSource's look at the fingerprints: the one item that passes it has a name that no
\* copy of it had.
LEMMA NamedMarked ==
  ASSUME Tracked, MarkInv, NEW g \in Rooms, NEW n \in Names, Named(g, n)
  PROVE  MarkInv'
<1> USE DEF Tracked
<1>h. PICK h : h = Hand(g)
  OBVIOUS
<1>1. /\ stage[g] = "naming" /\ chain[g] # <<>> /\ h \in Waiting(g) /\ h.room = g
      /\ UNCHANGED <<room, sent, conns>>
  <2>1. stage[g] = "naming" /\ UNCHANGED <<room, sent, conns>>
    BY DEF Named, roomVars, poolVars, histVars
  <2> QED
    BY <1>h, <2>1, ChainDiffers DEF DeliveryInv, HeadInHand
<1>2. /\ fingerprints'[g] = fingerprints[g] \cup {<<h.text, n>>}
      /\ \A f \in Rooms : fingerprints[f] \subseteq fingerprints'[f]
  BY <1>h DEF Named, Add, DeliveryInv, LinkTypes, RestTypes
<1>3. \A k \in Keys : Queue(k)' = Queue(k)
  BY <1>1 DEF Queue
<1>4. (\A i \in sent : Passed(i)) /\ \A k \in Keys : \A i \in Queue(k) : Passed(i)
  BY DEF Passed
<1>5. CASE NextLink({g}) /\ UNCHANGED lapsed
  <2>1. \A f \in Rooms : /\ stage'[f] \in Past => stage[f] \in Past /\ chain'[f] = chain[f]
                         /\ chain'[f] # <<>> => chain[f] # <<>>
    BY <1>1, <1>5 DEF NextLink, Past
  <2>2. \A i : Passed(i)' => Passed(i)
    BY <1>1, <1>3, <1>4, <2>1, PassesOnlyHands
  <2> QED
    BY <1>1, <1>2, <1>5, <2>1, <2>2, MarksKept
<1>7. ASSUME stage' = [stage EXCEPT ![g] = "rendering"], chain' = chain
      PROVE  \A i : Passed(i)' => Passed(i) \/ i = h
  <2>1. \A f \in Rooms : f # g => stage'[f] = stage[f]
    BY <1>7 DEF DeliveryInv, LinkTypes
  <2>2. \A f \in Rooms : Hand(f)' = Hand(f)
    BY <1>7 DEF Hand
  <2> QED
    BY <1>h, <1>1, <1>3, <2>1, <2>2 DEF Passed
\* A fingerprint has lapsed: nothing more is said of h and its copies.
<1>8. CASE Lapses(g, <<h.text, n>>) /\ stage' = [stage EXCEPT ![g] = "rendering"] /\ chain' = chain
  <2>1. lapsed' = lapsed \cup {<<g, h.text>>}
    BY <1>8 DEF Lapses
  <2>2. \A i : Passed(i)' /\ Fresh(i)' => Passed(i)
    BY <1>1, <1>7, <1>8, <2>1 DEF Fresh
  <2>3. \A f : InUse(f)' => InUse(f)
    BY <1>1, <1>8 DEF InUse
  <2>4. \A i : Passed(i) => \A m : Marked(i, m) => Marked(i, m)'
    BY <1>2, PassedTypes DEF Marked
  <2> QED
    BY <2>1, <2>2, <2>3, <2>4, StillMarked
<1>6. CASE /\ ~Seen(g, <<h.text, n>>) /\ UNCHANGED lapsed
           /\ stage' = [stage EXCEPT ![g] = "rendering"] /\ chain' = chain
  <2>1. stage' = [stage EXCEPT ![g] = "rendering"] /\ chain' = chain
        /\ \A i : Fresh(i)' <=> Fresh(i)
    BY <1>6 DEF Fresh
  <2>2. \A i : Passed(i)' => Passed(i) \/ i = h
    BY <1>7, <2>1
  <2>3. ~Marked(h, n) /\ Marked(h, n)' /\ InUse(g)
    BY <1>1, <1>2, <1>6 DEF Marked, Seen, InUse
  <2>4. \A i, m : Marked(i, m) /\ i.room \in Rooms => Marked(i, m)'
    BY <1>2 DEF Marked
  <2>5. \A f : InUse(f)' => InUse(f)
    BY <1>1, <2>1 DEF InUse
  \* Of the copies of h none but one has passed, and under the other name.
  <2>6. ASSUME NEW i, Passed(i), Fresh(i), i.text = h.text, i.room = g
        PROVE  /\ \E m \in Names : Marked(i, m)
               /\ \A m \in Names : Marked(i, m)'
               /\ \A j : Passed(j) /\ Twin(i, j) => FALSE
    <3>1. \A m : Marked(i, m) <=> Marked(h, m)
      BY <1>1, <2>6 DEF Marked
    <3>2. \E m \in Names : Marked(i, m)
      BY <2>3, <2>6 DEF MarkInv
    <3>3. ASSUME NEW j, Passed(j), Twin(i, j) PROVE FALSE
      <4>1. Marked(i, n)
        BY <2>3, <2>6, <3>3 DEF MarkInv
      <4> QED
        BY <2>3, <3>1, <4>1
    <3>4. PICK m \in Names : Marked(i, m)
      BY <3>2
    <3>5. m # n /\ \A l \in Names : l = m \/ l = n
      BY <2>3, <3>1, <3>4 DEF Names
    <3>6. Marked(i, m)' /\ Marked(i, n)'
      <4>1. Marked(i, n)' <=> Marked(h, n)'
        BY <1>1, <2>6 DEF Marked
      <4> QED
        BY <2>3, <2>4, <2>6, <3>4, <4>1
    <3> QED
      BY <3>2, <3>3, <3>5, <3>6
  <2>7. ASSUME NEW i, Passed(i), Fresh(i), i # h
        PROVE  /\ InUse(i.room)' => \E m \in Names : Marked(i, m)'
               /\ \A j : Passed(j)' /\ Twin(i, j) =>
                     /\ InUse(i.room)' => \A m \in Names : Marked(i, m)'
                     /\ \A k : Passed(k)' /\ Twin(i, k) => j = k
    <3>1. i.room \in Rooms
      BY <2>7, PassedTypes
    <3>2. \A m : Marked(i, m) => Marked(i, m)'
      BY <2>4, <3>1
    <3>3. CASE i.text = h.text /\ i.room = g
      <4>1. \A j : Passed(j)' /\ Twin(i, j) => j = h
        BY <2>2, <2>6, <2>7, <3>3
      <4> QED
        BY <2>6, <2>7, <3>2, <3>3, <4>1
    <3>4. CASE ~(i.text = h.text /\ i.room = g)
      <4>1. \A j : Passed(j)' /\ Twin(i, j) => Passed(j)
        BY <1>1, <2>2, <3>4 DEF Twin
      <4> QED
        BY <2>5, <2>7, <3>2, <4>1 DEF MarkInv
    <3> QED
      BY <3>3, <3>4
  <2>8. ASSUME Fresh(h)
        PROVE  /\ \E m \in Names : Marked(h, m)'
               /\ \A j : Passed(j)' /\ Twin(h, j) =>
                     /\ \A m \in Names : Marked(h, m)'
                     /\ \A k : Passed(k)' /\ Twin(h, k) => j = k
    <3>1. \A j : Passed(j)' /\ Twin(h, j) =>
              Passed(j) /\ Fresh(j) /\ j.text = h.text /\ j.room = g
      BY <1>1, <2>2, <2>8 DEF Twin, Fresh
    <3>2. \A j, m : j.text = h.text /\ j.room = g => (Marked(j, m)' <=> Marked(h, m)')
      BY <1>1 DEF Marked
    <3>3. ASSUME NEW j, Passed(j)', Twin(h, j), NEW k, Passed(k)', Twin(h, k) PROVE j = k
      <4>1. /\ Passed(j) /\ Fresh(j) /\ j.text = h.text /\ j.room = g
            /\ Passed(k) /\ k.text = h.text /\ k.room = g
        BY <3>1, <3>3
      <4> QED
        BY <2>6, <4>1 DEF Twin
    <3> QED
      BY <2>3, <2>6, <3>1, <3>2, <3>3
  <2> QED
    <3> SUFFICES ASSUME NEW i, Passed(i)', Fresh(i)'
                 PROVE  /\ InUse(i.room)' => \E m \in Names : Marked(i, m)'
                        /\ \A j : Passed(j)' /\ Twin(i, j) =>
                              /\ InUse(i.room)' => \A m \in Names : Marked(i, m)'
                              /\ \A k : Passed(k)' /\ Twin(i, k) => j = k
      BY DEF MarkInv, Twin
    <3>1. CASE i = h
      BY <2>1, <2>8, <3>1
    <3>2. CASE i # h
      <4>1. Passed(i) /\ Fresh(i)
        BY <2>1, <2>2, <3>2
      <4> QED
        BY <2>7, <3>2, <4>1
    <3> QED
      BY <3>1, <3>2
<1> QED
  BY <1>h, <1>5, <1>6, <1>8 DEF Named

\* What passed moves on, or is given up.
LEMMA DeliveryMarked ==
  ASSUME Tracked, MarkInv, NEW g \in Rooms,
         (\E emoji \in BOOLEAN : Rendered(g, emoji)) \/ Fetched(g)
  PROVE  MarkInv'
<1> USE DEF Tracked
<1>1. UNCHANGED <<room, sent, lapsed, fingerprints>> /\ stage[g] \in Past
  BY DEF Rendered, Fetched, roomVars, histVars, Past
<1>2. (\A i \in sent : Passed(i)) /\ \A k \in Keys : \A i \in Queue(k) : Passed(i)
  BY DEF Passed
<1>3. CASE NextLink({g}) /\ UNCHANGED conns
  <2>1. chain[g] # <<>>
    BY <1>1 DEF DeliveryInv, HeadInHand, Past
  <2>2. \A f \in Rooms : /\ stage'[f] \in Past => stage[f] \in Past /\ chain'[f] = chain[f]
                         /\ chain'[f] # <<>> => chain[f] # <<>>
    BY <1>3, <2>1 DEF NextLink, Past
  <2>3. \A i : Passed(i)' => Passed(i)
    BY <1>1, <1>2, <1>3, <2>2, PassesOnlyHands DEF Queue
  <2> QED
    BY <1>1, <2>2, <2>3, MarksKept
<1>4. CASE stage' = [stage EXCEPT ![g] = "fetching"] /\ UNCHANGED <<chain, conns>>
  <2>1. \A f \in Rooms : stage'[f] \in Past => stage[f] \in Past
    BY <1>1, <1>4 DEF DeliveryInv, LinkTypes
  <2>2. \A i : Passed(i)' => Passed(i)
    BY <1>1, <1>2, <1>4, <2>1, PassesOnlyHands DEF Queue
  <2> QED
    BY <1>1, <1>4, <2>2, MarksKept
<1>5. CASE Queued(g)
  <2>1. PICK h : h = Hand(g)
    OBVIOUS
  <2>2. PICK k : k = <<From(g), gone>>
    OBVIOUS
  <2>3. h \in Bridged /\ k \in Keys /\ Passed(h)
    <3>1. h \in Bridged /\ From(g) \in Senders
      BY <1>1, <2>1, InHand DEF DeliveryInv, Past
    <3> QED
      BY <1>1, <2>1, <2>2, <3>1 DEF Keys, DeliveryInv, RoomSound, Passed
  <2>4. conns' = [conns EXCEPT ![k] = Pushed(@, h)] /\ chain' = chain
        /\ stage' = [stage EXCEPT ![g] = "sending"]
    BY <1>5, <2>1, <2>2 DEF Queued
  <2>5. conns \in [Keys -> Conns] /\ conns[k] \in Conns /\ conns[k].queue \in Seq(Bridged)
    BY <2>3, ItemTypes DEF DeliveryInv, PoolSound
  <2>6. /\ conns'[k].queue = Append(conns[k].queue, h)
        /\ \A j \in Keys : j # k => conns'[j].queue = conns[j].queue
    BY <2>3, <2>4, <2>5, QueueSteps
  <2>7. Queue(k)' = Queue(k) \cup {h} /\ \A j \in Keys : j # k => Queue(j)' = Queue(j)
    BY <2>3, <2>5, <2>6, RangeGrows DEF Queue
  <2>8. \A j \in Keys : \A i \in Queue(j)' : Passed(i)
    BY <1>2, <2>3, <2>7
  <2>9. \A f \in Rooms : stage'[f] \in Past => stage[f] \in Past
    BY <2>4 DEF DeliveryInv, LinkTypes, Past
  <2>10. \A i : Passed(i)' => Passed(i)
    BY <1>1, <1>2, <2>4, <2>8, <2>9, PassesOnlyHands
  <2> QED
    BY <1>1, <2>4, <2>10, MarksKept
<1> QED
  BY <1>3, <1>4, <1>5 DEF Rendered, Fetched, PoolSend

LEMMA PoolMarked ==
  ASSUME Tracked, MarkInv, NEW k \in Keys,
         \/ Registers(k) \/ SocketOpens(k) \/ SocketFails(k) \/ Paced(k)
         \/ SocketDrops(k) \/ SocketGone(k) \/ EarlierGone(k)
  PROVE  MarkInv'
<1> USE DEF Tracked
<1> DEFINE c == conns[k]
<1>1. c \in Conns /\ conns \in [Keys -> Conns] /\ Works(c) /\ c.queue \in Seq(Bridged)
  BY ItemTypes DEF DeliveryInv, PoolSound
<1>2. PICK d : Conn(k, d) /\ \/ /\ d = Sends(c) /\ c.step = "pace"
                                /\ sent' \in {sent, sent \cup {Head(c.queue)}}
                             \/ d.queue = c.queue /\ sent' = sent
  BY <1>1, QueueSteps DEF Registers, SocketOpens, SocketFails, Paced, SocketDrops, SocketGone,
     EarlierGone, connFrame, histVars
<1>3. UNCHANGED <<room, lapsed, fingerprints>>
  BY DEF Registers, SocketOpens, SocketFails, Paced, SocketDrops, SocketGone, EarlierGone,
     connFrame, roomVars, histVars
<1>4. conns'[k] = d /\ \A j \in Keys : j # k => conns'[j] = conns[j]
  BY <1>1, <1>2 DEF Conn
<1>5. \A f \in Rooms : /\ stage'[f] \in Past => stage[f] \in Past /\ chain'[f] = chain[f]
                       /\ chain'[f] # <<>> => chain[f] # <<>>
  <2> DEFINE G == Freed(k, d)
  <2>1. NextLink(G) /\ \A f \in G : stage[f] = "sending"
    BY <1>2 DEF Conn, Freed
  <2>2. \A f \in Rooms : stage[f] = "sending" => chain[f] # <<>>
    BY DEF DeliveryInv, HeadInHand
  <2> HIDE DEF G
  <2> QED
    BY <2>1, <2>2 DEF NextLink, Past
<1>6. /\ \A i \in sent : Passed(i)
      /\ \A j \in Keys : \A i \in Queue(j) : Passed(i)
  BY DEF Passed
<1>7. (\A i \in sent' : Passed(i)) /\ \A j \in Keys : \A i \in Queue(j)' : Passed(i)
  <2>1. CASE d.queue = c.queue /\ sent' = sent
    <3>1. \A j \in Keys : Queue(j)' = Queue(j)
      BY <1>4, <2>1 DEF Queue
    <3> QED
      BY <1>6, <2>1, <3>1
  <2>2. CASE d = Sends(c) /\ c.step = "pace" /\ sent' \in {sent, sent \cup {Head(c.queue)}}
    <3>1. c.queue # <<>> /\ d.queue = Tail(c.queue)
      BY <1>1, <2>2, QueueSteps DEF Works
    <3>2. Head(c.queue) \in Queue(k) /\ Range(Tail(c.queue)) \subseteq Queue(k)
      BY <1>1, <3>1, RangeShift DEF Apart, Queue
    <3>3. \A j \in Keys : Queue(j)' \subseteq Queue(j)
      BY <1>4, <3>1, <3>2 DEF Queue
    <3>4. \A i \in sent' : i \in sent \/ i \in Queue(k)
      BY <2>2, <3>2
    <3> QED
      BY <1>6, <3>3, <3>4
  <2> QED
    BY <1>2, <2>1, <2>2
<1>8. \A i : Passed(i)' => Passed(i)
  BY <1>5, <1>7, PassesOnlyHands
<1> QED
  BY <1>3, <1>5, <1>8, MarksKept

\* What arrives has yet to pass, and nothing has in a room that opens.
LEMMA RoomMarked ==
  ASSUME Tracked, MarkInv, OpenRoom \/ CloseRoom \/ Restart \/ \E x \in Texts : Arrive(x)
  PROVE  MarkInv'
<1> USE DEF Tracked
<1>1. (\A i \in sent : Passed(i)) /\ \A k \in Keys : \A i \in Queue(k) : Passed(i)
  BY DEF Passed
<1>2. CASE OpenRoom
  <2>1. room' = opened + 1 /\ opened \in Nat /\ UNCHANGED <<chain, stage, conns, sent, lapsed, fingerprints>>
    BY <1>2, ItemTypes DEF OpenRoom, chainVars, poolVars, histVars
  <2>2. \A i : Passed(i)' => Passed(i)
    BY <1>1, <2>1, PassesOnlyHands DEF Queue
  <2>3. ASSUME NEW i, Passed(i)', InUse(i.room)' PROVE InUse(i.room)
    <3>1. i.room \in Rooms /\ i.room <= opened /\ i.room \in Nat
      BY <2>2, <2>3, PassedTypes, ItemTypes
    <3>2. i.room # room'
      BY <2>1, <3>1
    <3> QED
      BY <2>1, <2>3, <3>2 DEF InUse
  <2>4. \A i, n : Marked(i, n) => Marked(i, n)'
    BY <2>1 DEF Marked
  <2> QED
    BY <2>1, <2>2, <2>3, <2>4, StillMarked
<1>3. CASE CloseRoom
  <2>1. room' = 0 /\ UNCHANGED <<chain, stage, sent, lapsed, fingerprints>>
    BY <1>3 DEF CloseRoom, chainVars
  <2>2. \A k \in Keys : conns'[k].queue = conns[k].queue
    <3>1. conns' = [k \in Keys |-> IF k[2] = gone THEN Destroyed(conns[k]) ELSE conns[k]]
      BY <1>3 DEF CloseRoom, DeliveryInv, PoolSound
    <3> QED
      BY <3>1, ItemTypes, QueueSteps
  <2>3. \A i : Passed(i)' => Passed(i)
    BY <1>1, <2>1, <2>2, PassesOnlyHands DEF Queue
  <2> QED
    BY <2>1, <2>3, MarksKept
<1>4. CASE Restart
  <2>1. /\ room' = 0 /\ sent' = sent /\ lapsed' = lapsed
        /\ \A g \in Rooms : chain'[g] = <<>> /\ stage'[g] \notin Past
    BY <1>4 DEF Restart, Past
  <2>2. \A k \in Keys : conns'[k].queue = <<>>
    BY <1>4 DEF Restart, Blank, Keys, New
  <2>3. \A k \in Keys : Queue(k)' = {}
    BY <2>2 DEF Queue, Range
  <2>4. \A i : Passed(i)' => Passed(i)
    BY <1>1, <2>1, <2>3, PassesOnlyHands
  <2>5. ASSUME NEW i, Passed(i)' PROVE ~InUse(i.room)'
    <3>1. i.room \in Rooms /\ i.room # 0
      BY <2>4, <2>5, PassedTypes DEF Rooms
    <3> QED
      BY <2>1, <3>1 DEF InUse
  <2> QED
    BY <2>1, <2>4, <2>5, StillMarked
<1>5. ASSUME NEW x \in Texts, Arrive(x) PROVE MarkInv'
  <2>1. UNCHANGED <<room, conns, sent, lapsed, fingerprints>> /\ room \in Rooms
    BY <1>5 DEF Arrive, roomVars, poolVars, histVars, DeliveryInv, RoomSound, Rooms
  <2>2. PICK r \in Rooms : r = room
    BY <2>1
  <2>3. PICK i : i = [text |-> x, no |-> arrived', room |-> room]
    OBVIOUS
  <2>4. chain' = [chain EXCEPT ![r] = Append(@, i)]
        /\ stage' = [stage EXCEPT ![r] = IF @ = "idle" THEN "naming" ELSE @]
    BY <1>5, <2>2, <2>3 DEF Arrive
  <2>5. chain'[r] = Append(chain[r], i) /\ \A g \in Rooms : g # r => chain'[g] = chain[g]
    BY <2>4 DEF DeliveryInv, LinkTypes
  <2>6. \A g \in Rooms : stage'[g] \in Past => stage[g] = stage'[g]
    BY <2>4 DEF DeliveryInv, LinkTypes, Past
  <2>7. ASSUME NEW g \in Rooms, stage[g] \in Past PROVE Hand(g)' = Hand(g)
    <3>1. chain[g] \in Seq(Bridged) /\ chain[g] # <<>>
      BY <2>7, ItemTypes DEF DeliveryInv, HeadInHand, Past
    <3>2. CASE g # r
      BY <2>5, <3>2 DEF Hand
    <3>3. CASE g = r
      <4>1. chain'[g][1] = chain[g][1] /\ Head(chain'[g]) = chain'[g][1]
        BY <2>5, <3>1, <3>3
      <4> QED
        BY <3>1, <4>1 DEF Hand
    <3> QED
      BY <3>2, <3>3
  <2>8. \A j : Passed(j)' => Passed(j)
    <3>1. \A k \in Keys : Queue(k)' = Queue(k)
      BY <2>1 DEF Queue
    <3> QED
      BY <2>1, <2>6, <2>7, <3>1 DEF Passed
  <2> QED
    BY <2>1, <2>2, <2>5, <2>8, MarksKept
<1> QED
  BY <1>2, <1>3, <1>4, <1>5

LEMMA MarkInductive == Spec => [](Tracked /\ MarkInv)
<1>1. Init => MarkInv
  <2> SUFFICES ASSUME Init PROVE MarkInv
    OBVIOUS
  <2>1. sent = {} /\ \A g \in Rooms : stage[g] \notin Past
    BY DEF Init, Past
  <2>2. \A k \in Keys : Queue(k) = {}
    BY DEF Init, Blank, Keys, New, Queue, Range
  <2>3. \A i : ~Passed(i)
    BY <2>1, <2>2 DEF Passed
  <2> QED
    BY <2>3 DEF MarkInv
<1>2. Tracked /\ MarkInv /\ [Next]_vars => MarkInv'
  <2> SUFFICES ASSUME Tracked, MarkInv, [Next]_vars PROVE MarkInv'
    OBVIOUS
  <2>1. CASE OpenRoom \/ CloseRoom \/ Restart \/ \E x \in Texts : Arrive(x)
    BY <2>1, RoomMarked
  <2>2. ASSUME UNCHANGED <<room, sent, lapsed, chain, stage, conns>>,
               \A g \in Rooms : fingerprints[g] \subseteq fingerprints'[g]
        PROVE  MarkInv'
    <3>1. \A i : Passed(i)' => Passed(i)
      BY <2>2 DEF Passed, Queue, Hand
    <3> QED
      BY <2>2, <3>1, MarksKept
  <2>3. ASSUME NEW x \in Texts, Say(x) PROVE MarkInv'
    <3>1. UNCHANGED <<room, sent, lapsed, chain, stage, conns>>
      BY <2>3 DEF Say, roomVars, poolVars, histVars
    <3>2. \A g \in Rooms : fingerprints[g] \subseteq fingerprints'[g]
      BY <2>3 DEF Say, Add, Tracked, DeliveryInv, LinkTypes, RestTypes
    <3> QED
      BY <2>2, <3>1, <3>2
  <2>4. ASSUME NEW x \in Texts,
               \/ Asks(x) \/ Challenged(x) \/ Stores(x) \/ Accepted(x)
               \/ Refused(x) \/ AuthAnswered(x) \/ PublishEnds(x)
        PROVE  MarkInv'
    <3>1. UNCHANGED <<room, sent, lapsed, chain, stage, conns, fingerprints>>
      BY <2>4 DEF Asks, Challenged, Stores, Accepted, Refused, AuthAnswered, PublishEnds,
         pubFrame, roomVars, chainVars, poolVars, histVars
    <3> QED
      BY <2>2, <3>1
  <2>5. CASE UNCHANGED vars
    BY <2>2, <2>5 DEF vars, roomVars, chainVars, poolVars, histVars
  <2>6. ASSUME NEW g \in Rooms, NEW n \in Names, Named(g, n) PROVE MarkInv'
    BY <2>6, NamedMarked
  <2>7. ASSUME NEW g \in Rooms, (\E emoji \in BOOLEAN : Rendered(g, emoji)) \/ Fetched(g)
        PROVE  MarkInv'
    BY <2>7, DeliveryMarked
  <2>8. ASSUME NEW k \in DOMAIN conns,
               \/ Registers(k) \/ SocketOpens(k) \/ SocketFails(k) \/ Paced(k)
               \/ SocketDrops(k) \/ SocketGone(k) \/ EarlierGone(k)
        PROVE  MarkInv'
    <3>1. k \in Keys
      BY DEF Tracked, DeliveryInv, PoolSound
    <3> QED
      BY <2>8, <3>1, PoolMarked
  <2> QED
    BY <2>1, <2>3, <2>4, <2>5, <2>6, <2>7, <2>8 DEF Next
<1> QED
  BY <1>1, <1>2, ApartInductive, PTL DEF Spec

-----------------------------------------------------------------------------
(* Theorems *)

\* Every variable keeps its type, and no room's senders exceed the pool's cap
\* (PER_INSTANCE_CAP), rooms reopened and processes restarted or not.
THEOREM DeliveryTypeCorrect == Spec => []TypeOK
<1>1. DeliveryInv => TypeOK
  BY InvSuffices
<1> QED
  BY <1>1, DeliveryInductive, PTL

\* Nothing that came from one side is brought back to it: handleNostrEvent drops what any
\* process of the bridge signed, openListener what the pool's own senders said.
THEOREM NoEchoCorrect == Spec => []NoEcho
<1>1. DeliveryInv => NoEcho
  BY InvSuffices
<1> QED
  BY <1>1, DeliveryInductive, PTL

\* No failure severs a chain: its head is in hand, and a delivery that waits on the pool
\* waits on a drain that runs (handleNostrEvent's chain, drain's loop).
THEOREM ChainCorrect == Spec => []ChainMoves
<1>1. DeliveryInv => ChainMoves
  BY InvSuffices
<1> QED
  BY <1>1, DeliveryInductive, PTL

\* A room that closed with nothing past deliverToSource's second look at it leaves no
\* sender in the source's chat (destroyInstance).
THEOREM ClosedCorrect == Spec => []ClosedQuiet
<1>1. DeliveryInv => ClosedQuiet
  BY InvSuffices
<1> QED
  BY <1>1, DeliveryInductive, PTL

\* What publishAuthed counts as published is on the relay.
THEOREM PublishedCorrect == Spec => []PublishedIsStored
<1>1. DeliveryInv => PublishedIsStored
  BY InvSuffices
<1> QED
  BY <1>1, DeliveryInductive, PTL

\* While a room is open, what one sender says in it reaches the source in the order of
\* arrival, for any number of rooms, senders, failures and leftovers (the room's FIFO
\* chain, the connection's queue).
THEOREM OrderCorrect == Spec => SenderOrder
<1>1. DeliveryInv /\ OrderInv /\ [Next]_vars =>
        [\A i \in sent' \ sent, j \in sent :
            i.room = room /\ j.room = room /\ Author[i.text] = Author[j.text] => j.no < i.no]_vars
  <2> SUFFICES ASSUME DeliveryInv, OrderInv, [Next]_vars,
                      NEW i \in sent' \ sent, NEW j \in sent,
                      i.room = room, j.room = room, Author[i.text] = Author[j.text]
               PROVE  j.no < i.no
    OBVIOUS
  <2>1. PICK k \in DOMAIN conns : Paced(k)
    BY DEF Next, vars, OpenRoom, CloseRoom, Restart, Arrive, Say, Asks, Challenged, Stores, Accepted,
       Refused, AuthAnswered, PublishEnds, Named, Rendered, Fetched, Registers, SocketOpens,
       SocketFails, SocketDrops, SocketGone, EarlierGone, connFrame, pubFrame, histVars
  <2>2. k \in Keys /\ conns[k] \in Conns /\ Works(conns[k]) /\ conns[k].queue \in Seq(Bridged)
    BY <2>1, ItemTypes DEF DeliveryInv, PoolSound
  <2>3. i = Head(conns[k].queue) /\ conns[k].queue # <<>>
    BY <2>1, <2>2 DEF Paced, Works
  <2>4. i = conns[k].queue[1] /\ 1 \in DOMAIN conns[k].queue
    BY <2>2, <2>3, Positions
  <2>5. QueueItem(i, k) /\ SentItem(j)
    BY <2>2, <2>4 DEF OrderInv, QueueSound, SentSound
  <2>6. Author[j.text] = k[1]
    BY <2>5 DEF QueueItem
  <2> QED
    BY <2>2, <2>4, <2>5, <2>6 DEF SentItem
<1> QED
  BY <1>1, OrderInductive, PTL DEF Spec, SenderOrder

\* Chains, pool and sockets implement DeliveryContract: through closes, reopens, restarts
\* and any number of failures, an arrival is delivered at most once or given up, nothing
\* else is delivered, and in the open room no sender's words overtake each other.
THEOREM DeliveryRefinesContract == Spec => ImplementsDelivery
<1>1. Init => Contract!Init
  <2> SUFFICES ASSUME Init PROVE Contract!Init
    OBVIOUS
  <2>1. room = 0 /\ sent = {} /\ \A g \in Rooms : chain[g] = <<>> /\ stage[g] # "sending"
    BY DEF Init
  <2>2. DOMAIN conns = Keys /\ \A k \in Keys : conns[k].queue = <<>>
    BY DEF Init, Blank, Keys, New
  <2>3. Range(<<>>) = {}
    BY DEF Range
  <2>4. (\A g \in Rooms : Waiting(g) = {}) /\ \A k \in DOMAIN conns : Queue(k) = {}
    BY <2>1, <2>2, <2>3 DEF Waiting, Queue
  <2>5. Pending = {}
    BY <2>4 DEF Pending
  <2> QED
    BY <2>1, <2>5 DEF Contract!Init
<1>2. Tracked /\ Tracked' /\ [Next]_vars => [Contract!Next]_(Contract!contractVars)
  <2> SUFFICES ASSUME Tracked, Tracked', [Next]_vars PROVE Promised
    BY DEF Promised
  <2>1. DeliveryInv'
    BY DEF Tracked
  <2> QED
    BY <2>1, NextPromised
<1> QED
  BY <1>1, <1>2, ApartInductive, PTL DEF Spec, ImplementsDelivery, Contract!Spec

\* The fingerprints of deliverToSource, keyed by the name an event is rendered under: while a
\* room forgets none of an event's, the event reaches the source there no third time, for any
\* number of copies, failures and restarts. (That it may a second time is what DeliveredOnce
\* denies. When one has lapsed, nothing is promised.)
THEOREM TwiceCorrect == Spec => []TwiceAtMost
<1>1. Tracked /\ MarkInv => TwiceAtMost
  <2> SUFFICES ASSUME MarkInv, NEW i \in sent, NEW j \in sent, NEW k \in sent,
                      i.text = j.text, j.text = k.text, i.room = j.room, j.room = k.room,
                      <<i.room, i.text>> \notin lapsed, i # j, i # k
               PROVE  j = k
    BY Zenon DEF TwiceAtMost
  <2>1. Passed(i) /\ Fresh(i) /\ Passed(j) /\ Passed(k) /\ Twin(i, j) /\ Twin(i, k)
    BY DEF Passed, Fresh, Twin
  <2> QED
    BY <2>1, Zenon DEF MarkInv
<1> QED
  BY <1>1, MarkInductive, PTL

=============================================================================

------------------------------ MODULE Site_proofs -------------------------------
(***************************************************************************)
(* Proofs about Site, for any instances, messages, inputs and number of     *)
(* lookups: its types, that the page claims absence only where it is known, *)
(* and that every chat count is that of the room it is shown for.           *)
(***************************************************************************)
EXTENDS Site, FiniteSetTheorems, TLAPS

-----------------------------------------------------------------------------
(* Lemmas on the queries *)

\* A d-tag asked for is a URL.
LEMMA DTagType == \A u \in Urls : dTagFor(u) \in Urls
  BY DEF dTagFor, normalizeInstanceUrl, Urls, Paths

\* What a card shows of a count is a number of messages, or that it is unknown; a number
\* is the size of the room among the messages the bridge created.
LEMMA CountShown ==
  ASSUME NEW h, NEW eose, chat \subseteq Texts
  PROVE  /\ Shown(fetchRoomChatCount(eose, h)) \in 0..Cardinality(Texts) \cup {Unknown}
         /\ Shown(fetchRoomChatCount(eose, h)) \in Nat =>
               Shown(fetchRoomChatCount(eose, h)) = Cardinality({t \in chat \cap Ours : RoomOf[t] = h})
<1> DEFINE room == {t \in chat \cap Ours : RoomOf[t] = h}
<1>1. Shown(Null) = Unknown /\ Unknown \notin Nat
  BY SiteAssumption DEF Shown
<1>2. Cardinality(room) \in 0..Cardinality(Texts)
  <2>1. room \in SUBSET Texts
    OBVIOUS
  <2>2. IsFiniteSet(room) /\ Cardinality(room) <= Cardinality(Texts)
    BY <2>1, SiteAssumption, FS_Subset
  <2> QED
    BY <2>2, SiteAssumption, FS_CardinalityType
<1>3. CASE fetchEvents(eose, chat) = Null
  BY <1>1, <1>3 DEF fetchRoomChatCount
<1>4. CASE fetchEvents(eose, chat) # Null
  <2>1. fetchEvents(eose, chat) = chat
    BY <1>4 DEF fetchEvents, Received, Reached
  <2>2. InRoom(bridgeAuthored(fetchEvents(eose, chat)), h) = room
    BY <2>1 DEF InRoom, bridgeAuthored
  <2>3. fetchRoomChatCount(eose, h) = Cardinality(room)
    BY <1>4, <2>2 DEF fetchRoomChatCount
  <2>4. Shown(Cardinality(room)) \in {Unknown, Cardinality(room)}
    BY DEF Shown
  <2> QED
    BY <1>1, <1>2, <2>3, <2>4
<1> QED
  BY <1>3, <1>4

\* An answer that is not Null is all that the relay held.
LEMMA Answered ==
  ASSUME NEW eose, NEW held, fetchEvents(eose, held) # Null
  PROVE  fetchEvents(eose, held) = held
  BY DEF fetchEvents, Received, Reached

-----------------------------------------------------------------------------
(* Types *)

LEMMA InitTyped == Init => TypeOK
<1> SUFFICES ASSUME Init PROVE TypeOK
  OBVIOUS
<1>1. status \in [Hosts -> {None, "live", "ended"}]
  BY DEF Init
<1>2. lookup \in [Lookups -> [step : {"new", "asking", "counting", "done"}, dTag : Urls \cup {Null}]]
  BY DEF Init
<1>3. panel \in [says : {"blank", "bad", "asking", "wrong", "unknown", "nothing", "card"},
                 by : 0..MaxLookups]
  BY SiteAssumption DEF Init
<1>4. card \in [Lookups -> [of : Hosts \cup {Null}, count : 0..Cardinality(Texts) \cup {Dash, Unknown}]]
  BY DEF Init
<1> QED
  BY <1>1, <1>2, <1>3, <1>4 DEF Init, TypeOK

\* Each action keeps the types.
LEMMA TypeStep == TypeOK /\ [Next]_vars => TypeOK'
<1> SUFFICES ASSUME TypeOK, [Next]_vars PROVE TypeOK'
  OBVIOUS
<1> USE DEF relays, finder, page, example
<1>1. ASSUME NEW l \in Lookups, NEW raw \in Urls \cup {Bad}, Lookup(l, raw) PROVE TypeOK'
  <2>1. coerceInstanceUrl(raw) # Null => raw \in Urls
    BY DEF coerceInstanceUrl
  <2>2. l \in 0..MaxLookups
    BY SiteAssumption DEF Lookups
  <2>3. lookup' \in [Lookups -> [step : {"new", "asking", "counting", "done"}, dTag : Urls \cup {Null}]]
    <3>1. CASE Ends(l)
      BY <3>1 DEF TypeOK, Ends
    <3>2. CASE /\ raw \in Urls
               /\ lookup' = [lookup EXCEPT ![l] = [step |-> "asking", dTag |-> dTagFor(raw)]]
      <4>1. dTagFor(raw) \in Urls
        BY <3>2, DTagType
      <4> QED
        BY <3>2, <4>1 DEF TypeOK
    <3> QED
      BY <1>1, <2>1, <3>1, <3>2 DEF Lookup
  <2>4. panel' \in [says : {"blank", "bad", "asking", "wrong", "unknown", "nothing", "card"},
                    by : 0..MaxLookups]
    BY <1>1, <2>2 DEF Lookup, Note
  <2> QED
    BY <1>1, <2>3, <2>4 DEF TypeOK, Lookup
<1>2. ASSUME NEW l \in Lookups, LookupStep(l) PROVE TypeOK'
  <2>1. l \in 0..MaxLookups
    BY SiteAssumption DEF Lookups
  <2>2. CASE DigestFails(l)
    BY <2>1, <2>2 DEF TypeOK, DigestFails, Note, Ends
  <2>3. ASSUME NEW eose \in {0, 1}, LookupAnswered(l, eose) PROVE TypeOK'
    <3>1. PICK hosts : /\ hosts = fetchEvents(eose, AtDTag(lookup[l].dTag))
                       /\ \/ hosts = Null /\ Unreached(l)
                          \/ hosts # Null /\ Found(l, hosts)
      BY <2>3 DEF LookupAnswered
    <3>2. hosts # Null => hosts \subseteq Hosts
      BY <3>1, Answered DEF AtDTag, Published
    <3>3. UNCHANGED <<relays, page, example>>
      BY <2>3 DEF LookupAnswered
    <3>4. CASE Unreached(l)
      BY <2>1, <3>3, <3>4 DEF TypeOK, Unreached, Note, Ends
    <3>5. CASE hosts # Null /\ Found(l, hosts)
      <4>1. CASE Note(l, "nothing") /\ Ends(l) /\ UNCHANGED card
        BY <2>1, <3>3, <4>1 DEF TypeOK, Note, Ends
      <4>2. ASSUME NEW h \in hosts, Note(l, "card"),
                   card' = [card EXCEPT ![l] = [of |-> h, count |-> Dash]],
                   lookup' = [lookup EXCEPT ![l] = [step |-> "counting", dTag |-> Null]]
            PROVE  TypeOK'
        <5>1. h \in Hosts
          BY <3>2, <3>5
        <5> QED
          BY <2>1, <3>3, <4>2, <5>1 DEF TypeOK, Note
      <4> QED
        BY <3>5, <4>1, <4>2 DEF Found
    <3> QED
      BY <3>1, <3>4, <3>5
  <2>4. ASSUME NEW eose \in {0, 1}, CountAnswered(l, eose) PROVE TypeOK'
    <3>1. Shown(fetchRoomChatCount(eose, card[l].of)) \in 0..Cardinality(Texts) \cup {Dash, Unknown}
      BY CountShown DEF TypeOK
    <3> QED
      BY <2>1, <2>4, <3>1 DEF TypeOK, CountAnswered, Counted, Ends
  <2> QED
    BY <1>2, <2>2, <2>3, <2>4 DEF LookupStep
<1>3. CASE PageStep
  <2>1. ASSUME NEW eose \in {0, 1}, ChannelsAnswered(eose) PROVE TypeOK'
    <3>1. Live(fetchEvents(eose, Published)) \subseteq Hosts \/ fetchEvents(eose, Published) = Null
      BY Answered DEF Live, Published
    <3> QED
      BY <2>1, <3>1 DEF TypeOK, ChannelsAnswered
  <2>2. CASE ProfilesAnswered
    BY <2>2 DEF TypeOK, ProfilesAnswered
  <2> QED
    BY <1>3, <2>1, <2>2 DEF PageStep
<1>4. ASSUME NEW c \in Clicks, ClickStep(c) \/ Click(c) PROVE TypeOK'
  BY <1>4 DEF TypeOK, ClickStep, Click, SampleAnswered, ProfileAnswered
<1>5. CASE Relays
  BY <1>5 DEF TypeOK, Relays, BridgePublishes, BridgeRetracts, ChatTurns
<1>6. CASE Visitor
  <2>1. ASSUME NEW l \in Lookups, Submit(l) \/ Random(l) PROVE TypeOK'
    <3>1. \A h \in liveChannels : [host |-> h, path |-> "root"] \in Urls
      BY DEF TypeOK, Urls, Paths
    <3>2. \E raw \in Urls \cup {Bad} : Lookup(l, raw)
      BY <2>1, <3>1, SiteAssumption DEF Submit, Random
    <3> QED
      BY <1>1, <3>2
  <2> QED
    BY <1>4, <1>6, <2>1 DEF Visitor
<1>7. CASE UNCHANGED vars
  BY <1>7 DEF TypeOK, vars
<1> QED
  BY <1>2, <1>3, <1>4, <1>5, <1>6, <1>7 DEF Next

\* Every reachable state of the page and of the relays it reads is well typed: in
\* particular a chat count is never more than the messages there are.
THEOREM SiteTypeCorrect == Spec => []TypeOK
  BY InitTyped, TypeStep, PTL DEF Spec

-----------------------------------------------------------------------------
(* Absence, and counts *)

\* The finder, the example and the grid claim absence only of what the relay lacks.
THEOREM AbsenceCorrect == Spec => AbsenceIsKnown
<1> DEFINE Claim ==
      /\ panel'.says = "nothing" /\ panel' # panel => AtDTag(lookup[panel'.by].dTag) = {}
      /\ sample' = "none" /\ sample # "none" => chat \cap Ours = {}
      /\ grid' = "empty" /\ grid # "empty" => \A h \in Hosts : status[h] # "live"
<1>1. ASSUME TypeOK, [Next]_vars PROVE [Claim]_vars
  <2> SUFFICES ASSUME Next PROVE Claim
    BY <1>1
  <2> USE DEF relays, finder, page, example
  <2>1. ASSUME NEW l \in Lookups, NEW raw, Lookup(l, raw) PROVE Claim
    BY <2>1 DEF Lookup, Note
  <2>2. ASSUME NEW l \in Lookups, LookupStep(l) PROVE Claim
    <3>1. CASE DigestFails(l)
      BY <3>1 DEF DigestFails, Note
    <3>2. ASSUME NEW eose \in {0, 1}, LookupAnswered(l, eose) PROVE Claim
      <4>1. UNCHANGED <<relays, page, example>>
        BY <3>2 DEF LookupAnswered
      <4>2. panel'.says = "nothing" => AtDTag(lookup[l].dTag) = {} /\ panel'.by = l
        BY <3>2, Answered DEF LookupAnswered, Unreached, Found, Note
      <4> QED
        BY <4>1, <4>2
    <3>3. ASSUME NEW eose \in {0, 1}, CountAnswered(l, eose) PROVE Claim
      BY <3>3 DEF CountAnswered
    <3> QED
      BY <2>2, <3>1, <3>2, <3>3 DEF LookupStep
  <2>3. CASE PageStep
    <3>1. ASSUME NEW eose \in {0, 1}, ChannelsAnswered(eose) PROVE Claim
      <4>1. grid' = "empty" /\ grid # "empty" => Live(Published) = {}
        BY <3>1, Answered DEF ChannelsAnswered
      <4>2. Live(Published) = {} => \A h \in Hosts : status[h] # "live"
        BY DEF Live, Published, None
      <4> QED
        BY <3>1, <4>1, <4>2 DEF ChannelsAnswered
    <3> QED
      BY <2>3, <3>1 DEF PageStep, ProfilesAnswered
  <2>4. ASSUME NEW c \in Clicks, ClickStep(c) \/ Click(c) PROVE Claim
    <3>1. ASSUME NEW eose \in {0, 1}, SampleAnswered(c, eose) PROVE Claim
      <4>1. sample' = "none" /\ sample # "none" => bridgeAuthored(chat) = {}
        BY <3>1, Answered DEF SampleAnswered
      <4> QED
        BY <3>1, <4>1 DEF SampleAnswered, bridgeAuthored
    <3> QED
      BY <2>4, <3>1 DEF ClickStep, Click, ProfileAnswered
  <2>5. CASE Relays
    BY <2>5 DEF Relays, BridgePublishes, BridgeRetracts, ChatTurns
  <2>6. CASE Visitor
    BY <2>1, <2>4, <2>6 DEF Visitor, Submit, Random
  <2> QED
    BY <2>2, <2>3, <2>4, <2>5, <2>6 DEF Next
<1> QED
  BY <1>1, SiteTypeCorrect, PTL DEF Spec, AbsenceIsKnown

\* However lookups overlap, the count that comes to stand on a card is that of the
\* messages the bridge created in the room of the card's own channel.
THEOREM CountCorrect == Spec => CountOfItsRoom
<1> DEFINE Right ==
      \A l \in Lookups :
          card'[l].count # card[l].count /\ card'[l].count \in Nat =>
             card'[l].count = Cardinality({t \in chat \cap Ours : RoomOf[t] = card'[l].of})
<1>1. ASSUME TypeOK, [Next]_vars PROVE [Right]_vars
  <2> SUFFICES ASSUME Next, card' # card PROVE Right
    BY <1>1
  <2> USE DEF relays, finder, page, example
  <2>1. PICK l \in Lookups : \E eose \in {0, 1} : LookupAnswered(l, eose) \/ CountAnswered(l, eose)
    BY DEF Next, LookupStep, DigestFails, PageStep, ChannelsAnswered, ProfilesAnswered, Click,
           ClickStep, SampleAnswered, ProfileAnswered, Visitor, Submit, Random, Lookup,
           Relays, BridgePublishes, BridgeRetracts, ChatTurns
  <2>2. PICK eose \in {0, 1} : LookupAnswered(l, eose) \/ CountAnswered(l, eose)
    BY <2>1
  <2>3. CASE LookupAnswered(l, eose)
    <3>1. PICK h : card' = [card EXCEPT ![l] = [of |-> h, count |-> Dash]]
      BY <2>3 DEF LookupAnswered, Unreached, Found
    <3>2. \A k \in Lookups : card'[k].count \in {card[k].count, Dash}
      BY <1>1, <3>1 DEF TypeOK
    <3> QED
      BY <3>2, SiteAssumption
  <2>4. CASE CountAnswered(l, eose)
    <3>1. PICK shown : /\ shown = Shown(fetchRoomChatCount(eose, card[l].of))
                       /\ card' = [card EXCEPT ![l].count = shown]
      BY <2>4 DEF CountAnswered, Counted
    <3>2. card \in [Lookups -> [of : Hosts \cup {Null}, count : 0..Cardinality(Texts) \cup {Dash, Unknown}]]
      BY <1>1 DEF TypeOK
    <3>3. card'[l].count = shown /\ card'[l].of = card[l].of
      BY <3>1, <3>2
    <3>4. \A k \in Lookups \ {l} : card'[k].count = card[k].count
      BY <3>1, <3>2
    <3>5. PICK h : h = card[l].of
      OBVIOUS
    <3>6. shown \in Nat => shown = Cardinality({t \in chat \cap Ours : RoomOf[t] = h})
      BY <1>1, <3>1, <3>5, CountShown DEF TypeOK
    <3>7. {t \in chat \cap Ours : RoomOf[t] = card'[l].of} = {t \in chat \cap Ours : RoomOf[t] = h}
      BY <3>3, <3>5
    <3> QED
      BY <3>3, <3>4, <3>6, <3>7
  <2> QED
    BY <2>2, <2>3, <2>4
<1> QED
  BY <1>1, SiteTypeCorrect, PTL DEF Spec, CountOfItsRoom
=============================================================================

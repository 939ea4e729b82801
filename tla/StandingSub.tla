------------------------------ MODULE StandingSub ------------------------------
(***************************************************************************)
(* A standing subscription as ClientService.subscribe keeps it: one REQ per *)
(* relay, the count of closes that decides when onclose is called, and the  *)
(* retry a rate limit arms. Pure operators over a record; Firehose keeps    *)
(* one record per subscription and adds the consumer.                       *)
(*                                                                          *)
(* The link of a relay is                                                   *)
(*   dialling  ensureRelay is pending;                                      *)
(*   open      the REQ is served;                                           *)
(*   mute      the REQ is open for this side only (a half-open socket, or   *)
(*             nostr-tools redialling a dropped one): nothing is heard and  *)
(*             nothing reported;                                            *)
(*   cooling   closed by a rate limit, the retry timer armed;               *)
(*   ended     closed, or never connected, with nothing armed.              *)
(***************************************************************************)
EXTENDS Naturals, FiniteSets

CONSTANT Relays    \* the relays of the subscription

Links == {"dialling", "open", "mute", "cooling", "ended"}

\* held: does the consumer hold a handle? again: is the relay on a retry?
\* closes: first REQs that were closed (closedCount). unreached (history): the
\* relays whose first dial failed.
Subs == [held : BOOLEAN, link : [Relays -> Links], again : [Relays -> BOOLEAN],
         closes : 0..Cardinality(Relays), unreached : SUBSET Relays]

Opened == [held |-> TRUE, link |-> [r \in Relays |-> "dialling"],
           again |-> [r \in Relays |-> FALSE], closes |-> 0, unreached |-> {}]

\* close(): the retry timers are cleared, the REQs closed, and a dial still
\* pending finds callerClosed set.
Closed == [held |-> FALSE, link |-> [r \in Relays |-> "ended"],
           again |-> [r \in Relays |-> FALSE], closes |-> 0, unreached |-> {}]

At(s, r, where) == s.held /\ s.link[r] = where
Moved(s, r, to) == [s EXCEPT !.link[r] = to]

\* ensureRelay answers; a failure counts toward no close and arms no retry.
Dialled(s, r, connected) ==
    [Moved(s, r, IF connected THEN "open" ELSE "ended") EXCEPT
        !.unreached = IF connected \/ s.again[r] THEN @ ELSE @ \cup {r}]

\* Mutant of Ends: a retried REQ is counted like a first one.
EndsCounted(s, r, limited) ==
    [Moved(s, r, IF limited THEN "cooling" ELSE "ended") EXCEPT !.closes = @ + 1]

\* Mutant of Ends: a close that armed a retry is not counted.
EndsUncounted(s, r, limited) ==
    [Moved(s, r, IF limited THEN "cooling" ELSE "ended") EXCEPT
        !.closes = IF s.again[r] \/ limited THEN @ ELSE @ + 1]

\* onclose of the REQ, for any reason but the caller's own close.
Ends(s, r, limited) ==
    [Moved(s, r, IF limited THEN "cooling" ELSE "ended") EXCEPT
        !.closes = IF s.again[r] THEN @ ELSE @ + 1]

\* The retry timer fires.
Reopened(s, r) == [Moved(s, r, "dialling") EXCEPT !.again[r] = TRUE]

\* The consumer's onclose is called by the close that completes the count.
Reports(s, t) == t.closes > s.closes /\ t.closes = Cardinality(Relays)

=============================================================================

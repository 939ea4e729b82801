-------------------------------- MODULE ChatPool -------------------------------
(***************************************************************************)
(* A connection of OwncastChatPool: one sender's queue, the loop that drains *)
(* it, and its sockets. Pure operators over a record; ChatDelivery keeps the *)
(* connections.                                                              *)
(*                                                                          *)
(*   known  is it in the pool's map?                                        *)
(*   queue  payloads not sent yet                                           *)
(*   step   where drain is: idle (not running), register, dial, pace        *)
(*   sock   the newest socket: none, dialling, aborting (closed before it   *)
(*          opened), open, closing (half closed, its close event to come)   *)
(*   held   is conn.ws that socket, or null?                                *)
(*   leaving, strays   earlier sockets whose close event is still to come:  *)
(*          how many are closing, and how many are open with nobody holding *)
(*          them                                                            *)
(*                                                                          *)
(* SEND_SPACING_MS only delays: every send is preceded by a wait, which may *)
(* be of length zero.                                                       *)
(***************************************************************************)
EXTENDS Naturals, Sequences

Steps == {"idle", "register", "dial", "pace"}
Socks == {"none", "dialling", "aborting", "open", "closing"}

New == [known |-> FALSE, queue |-> <<>>, step |-> "idle", sock |-> "none", held |-> FALSE,
        leaving |-> 0, strays |-> 0]

IsConn(c, payloads) ==
    c \in [known : BOOLEAN, queue : Seq(payloads), step : Steps, sock : Socks,
           held : BOOLEAN, leaving : Nat, strays : Nat]

\* conn.ws?.readyState === OPEN.
Ready(c) == c.held /\ c.sock = "open"

\* Has the source a socket of this sender?
Present(c) == c.sock \in {"dialling", "open"} \/ c.strays > 0

\* Has it a socket that nobody holds?
Stray(c) == c.strays > 0 \/ (c.sock \in {"dialling", "open"} /\ ~c.held)

\* The head of drain's loop.
Loop(c) == [c EXCEPT !.step = CASE c.queue # <<>> /\ Ready(c) -> "pace"
                                [] c.queue # <<>> /\ ~Ready(c) -> "register"
                                [] OTHER -> "idle"]

\* Mutant of Pushed: what a failed drain left is sent after the new payload.
PushedFirst(c, payload) ==
    LET d == [c EXCEPT !.known = TRUE, !.queue = <<payload>> \o @] IN
    IF c.step = "idle" THEN Loop(d) ELSE d

\* send: the payload is queued, and a drain is started unless one runs.
Pushed(c, payload) ==
    LET d == [c EXCEPT !.known = TRUE, !.queue = Append(@, payload)] IN
    IF c.step = "idle" THEN Loop(d) ELSE d

\* register answers, or the token was there: connect stores a new socket, whatever
\* became of the one before.
Dials(c) ==
    [c EXCEPT !.step = "dial", !.sock = "dialling", !.held = TRUE,
              !.leaving = IF c.sock = "closing" THEN @ + 1 ELSE @,
              !.strays = IF c.sock = "open" THEN @ + 1 ELSE @]

\* connect rejects: the loop ends, what is queued stays.
Fails(c) == [c EXCEPT !.step = "idle"]

Opens(c) == [c EXCEPT !.sock = "open", !.step = IF @ = "dial" THEN "pace" ELSE @]

\* The error event and the close event of a dial that fails, in one.
DialFails(c) == [Fails(c) EXCEPT !.sock = "none", !.held = FALSE]

\* Mutant of Sends: what was sent stays at the head of the queue.
SendsKept(c) == Loop([c EXCEPT !.queue = IF Ready(c) THEN @ ELSE Tail(@)])

\* The wait is over: the payload leaves the queue, whether or not a socket takes it.
Sends(c) == Loop([c EXCEPT !.queue = Tail(@)])

\* A close begins, from either side; later the close event comes.
Closing(c) == [c EXCEPT !.sock = "closing"]
SockGone(c) == [c EXCEPT !.sock = "none", !.held = FALSE]

\* The close event of an earlier socket clears conn.ws all the same.
LeavingGone(c) == [c EXCEPT !.leaving = @ - 1, !.held = FALSE]
StrayGone(c) == [c EXCEPT !.strays = @ - 1, !.held = FALSE]

\* destroyInstance: conn.ws?.close().
Destroyed(c) ==
    IF ~c.held THEN c
    ELSE [c EXCEPT !.sock = CASE @ = "open" -> "closing" [] @ = "dialling" -> "aborting"
                              [] OTHER -> @]

=============================================================================

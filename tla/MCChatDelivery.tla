----------------------------- MODULE MCChatDelivery ----------------------------
(* Model values for ChatDelivery: two viewers and a chatter, one text each. *)
EXTENDS ChatDelivery, TLC
CONSTANTS event1, event2, message, viewer1, viewer2, chatter
AuthorOf == [x \in Texts |-> CASE x = event1 -> viewer1 [] x = event2 -> viewer2
                               [] OTHER -> chatter]

\* The two viewers, each with its text, can change places.
Swap == {p \in Permutations({event1, event2, viewer1, viewer2}) :
            \A e \in {event1, event2} :
                p[e] \in {event1, event2} /\ p[AuthorOf[e]] = AuthorOf[p[e]]}
=============================================================================

-------------------------- MODULE FeedSubscriptions ---------------------------
(***************************************************************************)
(* What the feeds of the server promise their clients (websockets/feeds):  *)
(* a client is subscribed to at most one thread, and to the video feed of  *)
(* its board if it asked for it; it starts anew from no subscription       *)
(* whenever it changes threads.  FeedMap implements this.                  *)
(***************************************************************************)
CONSTANTS Clients, Threads, TV

VARIABLE members    \* clients subscribed to every feed

Feeds == Threads \cup {TV}
SubscribedTo(c) == {k \in Feeds : c \in members[k]}

Init == members = [k \in Feeds |-> {}]

Enter(c, t) ==
    /\ SubscribedTo(c) = {}
    /\ members' = [members EXCEPT ![t] = @ \cup {c}]

Watch(c) ==
    /\ SubscribedTo(c) \subseteq Threads
    /\ members' = [members EXCEPT ![TV] = @ \cup {c}]

Quit(c, k) ==
    /\ c \in members[k]
    /\ members' = [members EXCEPT ![k] = @ \ {c}]

Next == \E c \in Clients :
    \/ \E t \in Threads : Enter(c, t)
    \/ Watch(c)
    \/ \E k \in Feeds : Quit(c, k)

Spec == Init /\ [][Next]_members
=============================================================================

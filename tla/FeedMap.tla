-------------------------------- MODULE FeedMap --------------------------------
(***************************************************************************)
(* The map of running feeds (websockets/feeds/feeds.go) and the map of     *)
(* synced clients (clients.go), with the goroutines that meet on them: the *)
(* listener of every client, which subscribes and unsubscribes it, the     *)
(* loop of every feed, and the goroutines that send into a feed if there   *)
(* is one (HTTP handlers and database notifications).                      *)
(*                                                                         *)
(* ThreadFeed takes a subscription as one step.  Here it is the lock, the  *)
(* lookup, the start of the feed, and the rendezvous on its unbuffered     *)
(* channels, each a step.  The feed of a thread and the video feed of the  *)
(* board share baseFeed; there is one board.                               *)
(***************************************************************************)
EXTENDS FiniteSets

CONSTANTS
    Clients,        \* websocket clients
    Threads,        \* threads of the board
    TV,             \* key of the board's video feed
    Board,          \* what a client on a board page is synced to: thread 0
    Senders,        \* goroutines that call sendIfExists
    Loops,          \* Feed objects; as many as can be in use at once
    StartFails,     \* the database may fail while a feed starts
    None

Keys == Threads \cup {TV}
Pages == Threads \cup {Board}

ASSUME FeedMapAssumption ==
    /\ TV \notin Pages
    /\ Board \notin Threads
    /\ StartFails \in BOOLEAN
    /\ None \notin Clients \cup Pages \cup Loops

VARIABLES
    synced,         \* clients.clients: the page of every synced client
    pointer,        \* Client.feed
    feeds,          \* feedMap.feeds and feedMap.tvFeeds
    loop,           \* state of every Feed object's goroutine
    subscribed,     \* baseFeed.clients of every Feed object
    writer,         \* client that holds feeds.mu for writing
    readers,        \* senders that hold it for reading
    pc,             \* where the listener of a client is
    from,           \* the page it is being removed from
    goal,           \* the page it goes to; None when it disconnects
    sending         \* the thread a sender sends to

mapVars == <<feeds, loop, subscribed>>
lockVars == <<writer, readers>>
vars == <<synced, pointer, mapVars, lockVars, pc, from, goal, sending>>

\* A listener is in its select, waiting for the lock, at a channel of a feed,
\* or past its loop.
Points == {"idle", "send", "remove", "quitThread", "awaitThread", "quitTV",
           "awaitTV", "add", "join", "watch", "joinTV", "failed", "gone"}

TypeOK ==
    /\ synced \in [Clients -> Pages \cup {None}]
    /\ pointer \in [Clients -> Loops \cup {None}]
    /\ feeds \in [Keys -> Loops \cup {None}]
    /\ loop \in [Loops -> {"stopped", "select", "answer", "dead"}]
    /\ subscribed \in [Loops -> SUBSET Clients]
    /\ writer \in Clients \cup {None}
    /\ readers \in SUBSET Senders
    /\ pc \in [Clients -> Points]
    /\ from \in [Clients -> Pages \cup {None}]
    /\ goal \in [Clients -> Pages \cup {None}]
    /\ sending \in [Senders -> Threads \cup {None}]

Init ==
    /\ synced = [c \in Clients |-> None]
    /\ pointer = [c \in Clients |-> None]
    /\ feeds = [k \in Keys |-> None]
    /\ loop = [i \in Loops |-> "stopped"]
    /\ subscribed = [i \in Loops |-> {}]
    /\ writer = None
    /\ readers = {}
    /\ pc = [c \in Clients |-> "idle"]
    /\ from = [c \in Clients |-> None]
    /\ goal = [c \in Clients |-> None]
    /\ sending = [s \in Senders |-> None]

-----------------------------------------------------------------------------
(* The lock and the Feed objects.                                          *)

Goto(c, point) == pc' = [pc EXCEPT ![c] = point]

Free == writer = None /\ readers = {}
Lock(c) == Free /\ writer' = c /\ UNCHANGED readers
Unlock(c) == writer' = None /\ UNCHANGED readers

\* Objects nothing refers to: stopped, in no map and in no client.
Garbage == {i \in Loops : /\ loop[i] = "stopped"
                          /\ \A c \in Clients : pointer[c] # i}
\* The next object allocated: which one it is makes no difference.
NewFeed == CHOOSE i \in Garbage : TRUE

-----------------------------------------------------------------------------
(* SyncClient, RemoveClient and SubscribeToMeguTV up to the lock.          *)

\* Mutant of Sync: a client that is synced is not unsubscribed first.
SyncOnly(c, page) ==
    /\ pc[c] = "idle"
    /\ synced' = [synced EXCEPT ![c] = page]
    /\ goal' = [goal EXCEPT ![c] = page]
    /\ from' = [from EXCEPT ![c] = synced[c]]
    /\ Goto(c, "add")
    /\ UNCHANGED <<pointer, mapVars, lockVars, sending>>

Sync(c, page) ==
    /\ pc[c] = "idle"
    /\ synced' = [synced EXCEPT ![c] = page]
    /\ goal' = [goal EXCEPT ![c] = page]
    /\ from' = [from EXCEPT ![c] = synced[c]]
    /\ Goto(c, IF synced[c] = None THEN "add" ELSE "remove")
    /\ UNCHANGED <<pointer, mapVars, lockVars, sending>>

\* The listener leaves its loop, by itself or after a failed subscription.
Disconnect(c) ==
    /\ pc[c] \in {"idle", "failed"}
    /\ synced' = [synced EXCEPT ![c] = None]
    /\ goal' = [goal EXCEPT ![c] = None]
    /\ from' = [from EXCEPT ![c] = synced[c]]
    /\ Goto(c, IF synced[c] = None THEN "gone" ELSE "remove")
    /\ UNCHANGED <<pointer, mapVars, lockVars, sending>>

\* A new connection in the place of one that is gone.
Connect(c) ==
    /\ pc[c] = "gone"
    /\ pointer' = [pointer EXCEPT ![c] = None]
    /\ from' = [from EXCEPT ![c] = None]
    /\ Goto(c, "idle")
    /\ UNCHANGED <<synced, mapVars, lockVars, goal, sending>>

WatchTV(c) ==
    /\ pc[c] = "idle" /\ synced[c] # None
    /\ Goto(c, "watch")
    /\ UNCHANGED <<synced, pointer, mapVars, lockVars, from, goal, sending>>

-----------------------------------------------------------------------------
(* removeFromFeed.                                                         *)

LockToRemove(c) ==
    /\ pc[c] = "remove"
    /\ Lock(c)
    /\ Goto(c, "quitThread")
    /\ UNCHANGED <<synced, pointer, mapVars, from, goal, sending>>

\* The feed of key k, if there is one, takes the client off its set: the send
\* on feed.remove and the loop's case for it.
Quit(c, k, quit, await, past) ==
    /\ pc[c] = quit
    /\ IF k \notin Keys \/ feeds[k] = None
         THEN past /\ UNCHANGED mapVars
         ELSE /\ loop[feeds[k]] = "select"
              /\ loop' = [loop EXCEPT ![feeds[k]] = "answer"]
              /\ subscribed' = [subscribed EXCEPT ![feeds[k]] = @ \ {c}]
              /\ Goto(c, await)
              /\ UNCHANGED <<feeds, lockVars>>
    /\ UNCHANGED <<synced, pointer, from, goal, sending>>

\* Mutants of Await: a feed that closed stays in the map; a feed never closes.
AwaitAndKeep(c, k, await, past) ==
    LET i == feeds[k] IN
    /\ pc[c] = await
    /\ loop[i] = "answer"
    /\ loop' = [loop EXCEPT ![i] =
                  IF subscribed[i] = {} THEN "stopped" ELSE "select"]
    /\ past
    /\ UNCHANGED <<feeds, subscribed, synced, pointer, from, goal, sending>>

AwaitOpen(c, k, await, past) ==
    LET i == feeds[k] IN
    /\ pc[c] = await
    /\ loop[i] = "answer"
    /\ loop' = [loop EXCEPT ![i] = "select"]
    /\ past
    /\ UNCHANGED <<feeds, subscribed, synced, pointer, from, goal, sending>>

\* The loop answers whether it closes, and a closed feed leaves the map.
Await(c, k, await, past) ==
    LET i == feeds[k] IN
    /\ pc[c] = await
    /\ loop[i] = "answer"
    /\ IF subscribed[i] = {}
         THEN /\ loop' = [loop EXCEPT ![i] = "stopped"]
              /\ feeds' = [feeds EXCEPT ![k] = None]
         ELSE /\ loop' = [loop EXCEPT ![i] = "select"]
              /\ UNCHANGED feeds
    /\ past
    /\ UNCHANGED <<subscribed, synced, pointer, from, goal, sending>>

\* Mutant of PastTV: the lock is kept at a disconnection.
PastTVHeld(c) ==
    \/ goal[c] = None /\ Goto(c, "gone") /\ UNCHANGED lockVars
    \/ goal[c] # None /\ Goto(c, "add") /\ Unlock(c)

\* What follows the thread, and what follows the video feed.
PastThread(c) == Goto(c, "quitTV") /\ UNCHANGED lockVars
PastTV(c) == Goto(c, IF goal[c] = None THEN "gone" ELSE "add") /\ Unlock(c)

QuitThread(c) == Quit(c, from[c], "quitThread", "awaitThread", PastThread(c))
AwaitThread(c) == Await(c, from[c], "awaitThread", PastThread(c))
QuitTV(c) == Quit(c, TV, "quitTV", "awaitTV", PastTV(c))
AwaitTV(c) == Await(c, TV, "awaitTV", PastTV(c))

-----------------------------------------------------------------------------
(* addToFeed and the rest of SubscribeToMeguTV.                            *)

\* The feed of k is looked up, or allocated, entered into the map and started.
\* The failure of its start is returned at once.
Find(c, k, join) ==
    \/ /\ feeds[k] # None
       /\ Goto(c, join) /\ Lock(c)
       /\ UNCHANGED <<pointer, mapVars>>
    \/ /\ feeds[k] = None
       /\ Garbage # {}
       /\ feeds' = [feeds EXCEPT ![k] = NewFeed]
       /\ \/ /\ loop' = [loop EXCEPT ![NewFeed] = "select"]
             /\ Goto(c, join) /\ Lock(c)
             /\ UNCHANGED pointer
          \/ /\ StartFails
             /\ loop' = [loop EXCEPT ![NewFeed] = "dead"]
             /\ pointer' = IF k = TV THEN pointer
                           ELSE [pointer EXCEPT ![c] = NewFeed]
             /\ Goto(c, "failed") /\ Free /\ UNCHANGED lockVars
       /\ UNCHANGED subscribed

\* Mutant of LockToAdd: a client on a board page keeps the feed it had.
LockToAddKeep(c) ==
    /\ pc[c] = "add"
    /\ from' = [from EXCEPT ![c] = None]
    /\ \/ /\ goal[c] # Board
          /\ Find(c, goal[c], "join")
          /\ UNCHANGED goal
       \/ /\ goal[c] = Board /\ Free
          /\ goal' = [goal EXCEPT ![c] = None]
          /\ Goto(c, "idle")
          /\ UNCHANGED <<pointer, mapVars, lockVars>>
    /\ UNCHANGED <<synced, sending>>

\* There is no feed for a board page.
LockToAdd(c) ==
    /\ pc[c] = "add"
    /\ from' = [from EXCEPT ![c] = None]
    /\ \/ /\ goal[c] # Board
          /\ Find(c, goal[c], "join")
          /\ UNCHANGED goal
       \/ /\ goal[c] = Board /\ Free
          /\ pointer' = [pointer EXCEPT ![c] = None]
          /\ goal' = [goal EXCEPT ![c] = None]
          /\ Goto(c, "idle")
          /\ UNCHANGED <<mapVars, lockVars>>
    /\ UNCHANGED <<synced, sending>>

LockToWatch(c) ==
    /\ pc[c] = "watch"
    /\ Find(c, TV, "joinTV")
    /\ UNCHANGED <<synced, from, goal, sending>>

\* The send on feed.add and the loop's case for it.
Enter(c, k) ==
    /\ loop[feeds[k]] = "select"
    /\ subscribed' = [subscribed EXCEPT ![feeds[k]] = @ \cup {c}]
    /\ goal' = [goal EXCEPT ![c] = None]
    /\ Unlock(c) /\ Goto(c, "idle")
    /\ UNCHANGED <<feeds, loop, synced, from, sending>>

\* Mutant of Join: the client keeps the thread's ID for its feed.
JoinByID(c) ==
    /\ pc[c] = "join"
    /\ Enter(c, goal[c])
    /\ pointer' = [pointer EXCEPT ![c] = goal[c]]

Join(c) ==
    /\ pc[c] = "join"
    /\ Enter(c, goal[c])
    /\ pointer' = [pointer EXCEPT ![c] = feeds[goal[c]]]

JoinTV(c) ==
    /\ pc[c] = "joinTV"
    /\ Enter(c, TV)
    /\ UNCHANGED pointer

-----------------------------------------------------------------------------
(* Sends into a feed.                                                      *)

\* A client's post handlers send on the channels of the feed it holds.
Post(c) ==
    /\ pc[c] = "idle" /\ pointer[c] # None
    /\ Goto(c, "send")
    /\ UNCHANGED <<synced, pointer, mapVars, lockVars, from, goal, sending>>

Served(c) ==
    /\ pc[c] = "send"
    /\ loop[pointer[c]] = "select"
    /\ Goto(c, "idle")
    /\ UNCHANGED <<synced, pointer, mapVars, lockVars, from, goal, sending>>

\* sendIfExists, which holds the lock for reading until the feed takes the
\* message; RUnlock follows at once where there is no feed.
SendIfExists(s, t) ==
    /\ sending[s] = None
    /\ writer = None
    /\ feeds[t] # None
    /\ sending' = [sending EXCEPT ![s] = t]
    /\ readers' = readers \cup {s}
    /\ UNCHANGED <<synced, pointer, mapVars, writer, pc, from, goal>>

\* The message is taken, or the entry to send cannot be read.
Sent(s) ==
    /\ sending[s] # None
    /\ loop[feeds[sending[s]]] = "select"
    /\ sending' = [sending EXCEPT ![s] = None]
    /\ readers' = readers \ {s}
    /\ UNCHANGED <<synced, pointer, mapVars, writer, pc, from, goal>>

-----------------------------------------------------------------------------
\* A listener in the middle of a call.
Proceed(c) ==
    \/ LockToRemove(c) \/ QuitThread(c) \/ AwaitThread(c) \/ QuitTV(c)
    \/ AwaitTV(c) \/ LockToAdd(c) \/ LockToWatch(c) \/ Join(c) \/ JoinTV(c)
    \/ Served(c)

\* The listener that could not subscribe leaves its loop.
GiveUp(c) == pc[c] = "failed" /\ Disconnect(c)

Next ==
    \/ \E c \in Clients :
         \/ \E page \in Pages : Sync(c, page)
         \/ Disconnect(c) \/ Connect(c) \/ WatchTV(c) \/ Post(c)
         \/ Proceed(c)
    \/ \E s \in Senders : Sent(s) \/ \E t \in Threads : SendIfExists(s, t)

(***************************************************************************)
(* Goroutines that can run do; and one that waits for the mutex gets it,   *)
(* however often others come first: sync.RWMutex lets no reader overtake a *)
(* waiting writer, and hands over to a writer that has waited too long.    *)
(***************************************************************************)
Spec == /\ Init /\ [][Next]_vars
        /\ \A c \in Clients : SF_vars(Proceed(c) \/ GiveUp(c))
        /\ \A s \in Senders : WF_vars(Sent(s))

-----------------------------------------------------------------------------
(* Properties.                                                             *)

Idle(c) == pc[c] \in {"idle", "send"}

\* A client that is not in the middle of a change holds the feed in the map,
\* is one of its subscribers and finds its loop running: no edit of a post is
\* sent to a feed that has closed, which would block the listener for good.
PointerServed ==
    \A c \in Clients : Idle(c) /\ pointer[c] # None =>
        /\ synced[c] \in Threads
        /\ feeds[synced[c]] = pointer[c]
        /\ loop[pointer[c]] \in {"select", "answer"}
        /\ c \in subscribed[pointer[c]]

\* A loop runs exactly while the map has it under one key: none is orphaned
\* by the deletion of another, and a thread never has two.
LoopsAreMapped ==
    \A i \in Loops : /\ loop[i] # "stopped" <=> \E k \in Keys : feeds[k] = i
                     /\ \A k, l \in Keys : feeds[k] = i /\ feeds[l] = i => k = l

\* Between changes every feed that runs has a subscriber, who is synced to its
\* thread, or watches: no feed mirrors a thread for nobody.
NoFeedForNobody ==
    writer = None =>
        \A k \in Keys : feeds[k] # None /\ loop[feeds[k]] # "dead" =>
            /\ subscribed[feeds[k]] # {}
            /\ k # TV => \A c \in subscribed[feeds[k]] :
                            from[c] = k \/ synced[c] = k

\* Maps, feeds and subscribers agree
MapsHold == TypeOK /\ LoopsAreMapped /\ NoFeedForNobody

\* Every subscription, removal, edit and message is eventually through; the
\* goroutines never all wait for one another.
CallsReturn ==
    /\ \A c \in Clients : ~(pc[c] \in {"idle", "gone"})
                            ~> pc[c] \in {"idle", "gone"}
    /\ \A s \in Senders : (sending[s] # None) ~> (sending[s] = None)

\* RemoveClient "removes a client from the global client map and any
\* subscribed to feed" (feeds/clients.go:84): a client that disconnects is
\* eventually out of the removal.
RemovalReturns ==
    \A c \in Clients : (pc[c] = "remove") ~> (pc[c] # "remove")

\* The feeds as their clients see them.
Subscriptions == INSTANCE FeedSubscriptions WITH
    members <- [k \in Keys |-> IF feeds[k] = None THEN {}
                               ELSE subscribed[feeds[k]]]
ImplementsSubscriptions == Subscriptions!Spec
=============================================================================

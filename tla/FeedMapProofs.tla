---------------------------- MODULE FeedMapProofs ----------------------------
(***************************************************************************)
(* Proofs about FeedMap, for any clients, threads, senders and Feed        *)
(* objects, whether or not the start of a feed may fail: the pointer of a  *)
(* client, the maps, the channels, and that the feeds implement            *)
(* FeedSubscriptions.                                                      *)
(***************************************************************************)
EXTENDS FeedMap, TLAPS

-----------------------------------------------------------------------------
(* The inductive invariant.                                                *)

\* Where a listener holds the lock for writing
Critical == {"quitThread", "awaitThread", "quitTV", "awaitTV", "join", "joinTV"}
\* Where it is on its way out of its old feeds
Leaving == {"remove", "quitThread", "awaitThread", "quitTV", "awaitTV"}
\* Where it is between changes, or only adds the video feed to what it has
Settled == {"idle", "send", "watch", "joinTV"}

\* The feed a listener in its removal has asked whether it closes
Awaited(c) == IF pc[c] = "awaitThread" THEN from[c] ELSE TV
Awaits(c) == pc[c] \in {"awaitThread", "awaitTV"}
\* The feed a listener is about to enter
Joined(c) == IF pc[c] = "join" THEN goal[c] ELSE TV
Joins(c) == pc[c] \in {"join", "joinTV"}

\* One writer, and no reader with it.
Locking ==
    /\ \A c \in Clients : pc[c] \in Critical <=> writer = c
    /\ writer # None => readers = {}

\* A reader is a sender, and the feed it sends to stays in the map.
Sending ==
    /\ readers = {s \in Senders : sending[s] # None}
    /\ \A s \in Senders : sending[s] # None => feeds[sending[s]] # None

\* What a listener remembers of the call it is in the middle of
Purpose ==
    \A c \in Clients :
        /\ pc[c] \in Leaving \cup {"add", "join"} => goal[c] = synced[c]
        /\ pc[c] \in Leaving => from[c] \in Pages
        /\ pc[c] = "add" => goal[c] \in Pages
        /\ pc[c] = "join" => goal[c] \in Threads
        /\ pc[c] = "awaitThread" => from[c] \in Threads
        /\ pc[c] \in {"watch", "joinTV"} => synced[c] # None
        /\ Awaits(c) => feeds[Awaited(c)] # None
        /\ Joins(c) => feeds[Joined(c)] # None

\* A loop that does not run, or has died, has no subscribers.
Vacant == \A i \in Loops : loop[i] \in {"stopped", "dead"} => subscribed[i] = {}

\* A loop waits for the listener that holds the lock, and for no other.
Answering ==
    \A i \in Loops :
        loop[i] = "answer" <=> \E c \in Clients : Awaits(c) /\ feeds[Awaited(c)] = i

\* Subscribers of a thread are synced to it or about to be removed from it;
\* those of the video feed are synced or about to be removed.
Subscribed ==
    \A c \in Clients :
        /\ \A k \in Threads : feeds[k] # None /\ c \in subscribed[feeds[k]] =>
              \/ pc[c] \in {"remove", "quitThread"} /\ from[c] = k
              \/ pc[c] \in Settled \cup {"failed"} /\ synced[c] = k
        /\ feeds[TV] # None /\ c \in subscribed[feeds[TV]] =>
              \/ pc[c] \in Leaving \ {"awaitTV"}
              \/ pc[c] \in Settled \cup {"failed"} /\ synced[c] # None

\* The pointer of a client between changes is the feed in the map.
Pointers ==
    \A c \in Clients :
        /\ pc[c] = "send" => pointer[c] # None
        /\ pc[c] \in Settled /\ pointer[c] # None =>
             /\ synced[c] \in Threads
             /\ feeds[synced[c]] = pointer[c]
             /\ c \in subscribed[pointer[c]]

\* A feed without subscribers is being left or entered by the lock's holder,
\* or its start has failed.
Peopled ==
    \A k \in Keys : feeds[k] # None /\ subscribed[feeds[k]] = {} =>
        \/ loop[feeds[k]] = "dead"
        \/ \E c \in Clients : \/ Awaits(c) /\ Awaited(c) = k
                              \/ Joins(c) /\ Joined(c) = k

\* Feeds die only if the database fails.
Deaths == \A i \in Loops : loop[i] = "dead" => StartFails

\* What every step of the feed map keeps
MapInv == /\ TypeOK /\ LoopsAreMapped /\ Locking /\ Sending /\ Purpose /\ Vacant
          /\ Answering /\ Subscribed /\ Pointers /\ Peopled /\ Deaths

-----------------------------------------------------------------------------
(* Every step keeps it.                                                     *)

\* What a listener does outside of the lock, to its own variables.
LEMMA QuietKeeps ==
    ASSUME MapInv, NEW c \in Clients, NEW p \in Points, pc[c] \notin Critical,
           p \notin Critical, pc' = [pc EXCEPT ![c] = p],
           \A d \in Clients \ {c} : from'[d] = from[d] /\ goal'[d] = goal[d],
           UNCHANGED <<mapVars, lockVars, sending>>
    PROVE LoopsAreMapped' /\ Locking' /\ Sending' /\ Vacant' /\ Answering' /\ Peopled'
          /\ Deaths'
<1> USE DEF mapVars, lockVars
<1>1. LoopsAreMapped' /\ Sending' /\ Vacant' /\ Deaths'
  BY DEF MapInv, LoopsAreMapped, Sending, Vacant, Deaths
<1>2. Locking'
  BY DEF MapInv, TypeOK, Locking
<1>3. \A d \in Clients : /\ Awaits(d)' = Awaits(d) /\ Joins(d)' = Joins(d)
                         /\ Awaits(d) => Awaited(d)' = Awaited(d)
                         /\ Joins(d) => Joined(d)' = Joined(d)
  BY DEF MapInv, TypeOK, Critical, Awaits, Awaited, Joins, Joined
<1>4. Answering' /\ Peopled'
  BY <1>3 DEF MapInv, Answering, Peopled
<1> QED BY <1>1, <1>2, <1>4

\* A client is synced to a page, anew or from another.
LEMMA SyncKeeps ==
    ASSUME MapInv, NEW c \in Clients, NEW page \in Pages, Sync(c, page) PROVE MapInv'
<1> USE FeedMapAssumption DEF Pages
<1> DEFINE p == IF synced[c] = None THEN "add" ELSE "remove"
<1>1. pc' = [pc EXCEPT ![c] = p] /\ p \in Points /\ p \notin Critical /\ pc[c] \notin Critical
  BY DEF Sync, Goto, Points, Critical
<1>2. LoopsAreMapped' /\ Locking' /\ Sending' /\ Vacant' /\ Answering' /\ Peopled' /\ Deaths'
  <2>1. /\ \A d \in Clients \ {c} : from'[d] = from[d] /\ goal'[d] = goal[d]
        /\ UNCHANGED <<mapVars, lockVars, sending>>
    BY DEF Sync, MapInv, TypeOK
  <2> HIDE DEF p
  <2> QED BY <1>1, <2>1, QuietKeeps
<1>3. TypeOK'
  BY <1>1 DEF Sync, MapInv, TypeOK, mapVars, lockVars
<1>4. Purpose'
  BY <1>1 DEF Sync, MapInv, TypeOK, Purpose, Leaving, Awaits, Awaited, Joins, Joined, mapVars
<1>5. Subscribed'
  BY <1>1 DEF Sync, MapInv, TypeOK, Subscribed, Pointers, Leaving, Settled, mapVars, Keys
<1>6. Pointers'
  BY <1>1 DEF Sync, MapInv, TypeOK, Pointers, Settled, mapVars
<1> QED BY <1>2, <1>3, <1>4, <1>5, <1>6 DEF MapInv

\* A listener leaves its loop.
LEMMA DisconnectKeeps ==
    ASSUME MapInv, NEW c \in Clients, Disconnect(c) PROVE MapInv'
<1> USE FeedMapAssumption DEF Pages
<1> DEFINE p == IF synced[c] = None THEN "gone" ELSE "remove"
<1>1. pc' = [pc EXCEPT ![c] = p] /\ p \in Points /\ p \notin Critical /\ pc[c] \notin Critical
  BY DEF Disconnect, Goto, Points, Critical
<1>2. LoopsAreMapped' /\ Locking' /\ Sending' /\ Vacant' /\ Answering' /\ Peopled' /\ Deaths'
  <2>1. /\ \A d \in Clients \ {c} : from'[d] = from[d] /\ goal'[d] = goal[d]
        /\ UNCHANGED <<mapVars, lockVars, sending>>
    BY DEF Disconnect, MapInv, TypeOK
  <2> HIDE DEF p
  <2> QED BY <1>1, <2>1, QuietKeeps
<1>3. TypeOK'
  BY <1>1 DEF Disconnect, MapInv, TypeOK, mapVars, lockVars
<1>4. Purpose'
  BY <1>1
     DEF Disconnect, MapInv, TypeOK, Purpose, Leaving, Awaits, Awaited, Joins, Joined,
         mapVars
<1>5. Subscribed'
  BY <1>1 DEF Disconnect, MapInv, TypeOK, Subscribed, Pointers, Leaving, Settled, mapVars, Keys
<1>6. Pointers'
  BY <1>1 DEF Disconnect, MapInv, TypeOK, Pointers, Settled, mapVars
<1> QED BY <1>2, <1>3, <1>4, <1>5, <1>6 DEF MapInv

\* A new connection takes the place of one that is gone.
LEMMA ConnectKeeps ==
    ASSUME MapInv, NEW c \in Clients, Connect(c) PROVE MapInv'
<1> USE FeedMapAssumption DEF Pages
<1> DEFINE p == "idle"
<1>1. pc' = [pc EXCEPT ![c] = p] /\ p \in Points /\ p \notin Critical /\ pc[c] \notin Critical
  BY DEF Connect, Goto, Points, Critical
<1>2. LoopsAreMapped' /\ Locking' /\ Sending' /\ Vacant' /\ Answering' /\ Peopled' /\ Deaths'
  <2>1. /\ \A d \in Clients \ {c} : from'[d] = from[d] /\ goal'[d] = goal[d]
        /\ UNCHANGED <<mapVars, lockVars, sending>>
    BY DEF Connect, MapInv, TypeOK
  <2> HIDE DEF p
  <2> QED BY <1>1, <2>1, QuietKeeps
<1>3. TypeOK'
  BY <1>1 DEF Connect, MapInv, TypeOK, mapVars, lockVars
<1>4. Purpose'
  BY <1>1
     DEF Connect, MapInv, TypeOK, Purpose, Leaving, Awaits, Awaited, Joins, Joined, mapVars
<1>5. Subscribed'
  BY <1>1 DEF Connect, MapInv, TypeOK, Subscribed, Pointers, Leaving, Settled, mapVars, Keys
<1>6. Pointers'
  BY <1>1 DEF Connect, MapInv, TypeOK, Pointers, Settled, mapVars
<1> QED BY <1>2, <1>3, <1>4, <1>5, <1>6 DEF MapInv

\* A client asks for the video feed.
LEMMA WatchTVKeeps ==
    ASSUME MapInv, NEW c \in Clients, WatchTV(c) PROVE MapInv'
<1> USE FeedMapAssumption DEF Pages
<1> DEFINE p == "watch"
<1>1. pc' = [pc EXCEPT ![c] = p] /\ p \in Points /\ p \notin Critical /\ pc[c] \notin Critical
  BY DEF WatchTV, Goto, Points, Critical
<1>2. LoopsAreMapped' /\ Locking' /\ Sending' /\ Vacant' /\ Answering' /\ Peopled' /\ Deaths'
  <2>1. /\ \A d \in Clients \ {c} : from'[d] = from[d] /\ goal'[d] = goal[d]
        /\ UNCHANGED <<mapVars, lockVars, sending>>
    BY DEF WatchTV, MapInv, TypeOK
  <2> HIDE DEF p
  <2> QED BY <1>1, <2>1, QuietKeeps
<1>3. TypeOK'
  BY <1>1 DEF WatchTV, MapInv, TypeOK, mapVars, lockVars
<1>4. Purpose'
  BY <1>1
     DEF WatchTV, MapInv, TypeOK, Purpose, Leaving, Awaits, Awaited, Joins, Joined, mapVars
<1>5. Subscribed'
  BY <1>1 DEF WatchTV, MapInv, TypeOK, Subscribed, Pointers, Leaving, Settled, mapVars, Keys
<1>6. Pointers'
  BY <1>1 DEF WatchTV, MapInv, TypeOK, Pointers, Settled, mapVars
<1> QED BY <1>2, <1>3, <1>4, <1>5, <1>6 DEF MapInv

\* A client sends an edit to its feed.
LEMMA PostKeeps ==
    ASSUME MapInv, NEW c \in Clients, Post(c) PROVE MapInv'
<1> USE FeedMapAssumption DEF Pages
<1> DEFINE p == "send"
<1>1. pc' = [pc EXCEPT ![c] = p] /\ p \in Points /\ p \notin Critical /\ pc[c] \notin Critical
  BY DEF Post, Goto, Points, Critical
<1>2. LoopsAreMapped' /\ Locking' /\ Sending' /\ Vacant' /\ Answering' /\ Peopled' /\ Deaths'
  <2>1. /\ \A d \in Clients \ {c} : from'[d] = from[d] /\ goal'[d] = goal[d]
        /\ UNCHANGED <<mapVars, lockVars, sending>>
    BY DEF Post, MapInv, TypeOK
  <2> HIDE DEF p
  <2> QED BY <1>1, <2>1, QuietKeeps
<1>3. TypeOK'
  BY <1>1 DEF Post, MapInv, TypeOK, mapVars, lockVars
<1>4. Purpose'
  BY <1>1 DEF Post, MapInv, TypeOK, Purpose, Leaving, Awaits, Awaited, Joins, Joined, mapVars
<1>5. Subscribed'
  BY <1>1 DEF Post, MapInv, TypeOK, Subscribed, Pointers, Leaving, Settled, mapVars, Keys
<1>6. Pointers'
  BY <1>1 DEF Post, MapInv, TypeOK, Pointers, Settled, mapVars
<1> QED BY <1>2, <1>3, <1>4, <1>5, <1>6 DEF MapInv

\* The feed takes the edit.
LEMMA ServedKeeps ==
    ASSUME MapInv, NEW c \in Clients, Served(c) PROVE MapInv'
<1> USE FeedMapAssumption DEF Pages
<1> DEFINE p == "idle"
<1>1. pc' = [pc EXCEPT ![c] = p] /\ p \in Points /\ p \notin Critical /\ pc[c] \notin Critical
  BY DEF Served, Goto, Points, Critical
<1>2. LoopsAreMapped' /\ Locking' /\ Sending' /\ Vacant' /\ Answering' /\ Peopled' /\ Deaths'
  <2>1. /\ \A d \in Clients \ {c} : from'[d] = from[d] /\ goal'[d] = goal[d]
        /\ UNCHANGED <<mapVars, lockVars, sending>>
    BY DEF Served, MapInv, TypeOK
  <2> HIDE DEF p
  <2> QED BY <1>1, <2>1, QuietKeeps
<1>3. TypeOK'
  BY <1>1 DEF Served, MapInv, TypeOK, mapVars, lockVars
<1>4. Purpose'
  BY <1>1 DEF Served, MapInv, TypeOK, Purpose, Leaving, Awaits, Awaited, Joins, Joined, mapVars
<1>5. Subscribed'
  BY <1>1 DEF Served, MapInv, TypeOK, Subscribed, Pointers, Leaving, Settled, mapVars, Keys
<1>6. Pointers'
  BY <1>1 DEF Served, MapInv, TypeOK, Pointers, Settled, mapVars
<1> QED BY <1>2, <1>3, <1>4, <1>5, <1>6 DEF MapInv

\* A listener takes the lock to leave its feeds.
LEMMA LockToRemoveKeeps ==
    ASSUME MapInv, NEW c \in Clients, LockToRemove(c) PROVE MapInv'
<1> USE FeedMapAssumption DEF LockToRemove, Lock, Free, Goto, mapVars
<1>1. TypeOK' /\ LoopsAreMapped' /\ Vacant' /\ Deaths'
  BY DEF MapInv, TypeOK, Points, LoopsAreMapped, Vacant, Deaths
<1>2. Locking' /\ Sending'
  BY DEF MapInv, TypeOK, Locking, Critical, Sending
<1>3. \A d \in Clients : ~Awaits(d) /\ ~Awaits(d)' /\ ~Joins(d) /\ ~Joins(d)'
  BY DEF MapInv, TypeOK, Locking, Critical, Awaits, Joins
<1>4. Answering' /\ Peopled'
  BY <1>3 DEF MapInv, Answering, Peopled
<1>5. Purpose'
  BY <1>3 DEF MapInv, TypeOK, Purpose, Leaving
<1>6. Subscribed' /\ Pointers'
  BY DEF MapInv, TypeOK, Subscribed, Leaving, Pointers, Settled
<1> QED BY <1>1, <1>2, <1>4, <1>5, <1>6 DEF MapInv

\* The feed of its thread takes it off, or there is none.
LEMMA QuitThreadKeeps ==
    ASSUME MapInv, NEW c \in Clients, QuitThread(c) PROVE MapInv'
<1> USE FeedMapAssumption DEF mapVars, lockVars
<1>1. /\ pc[c] = "quitThread" /\ writer = c
      /\ \A d \in Clients : ~Awaits(d) /\ ~Joins(d)
      /\ UNCHANGED <<feeds, readers, synced, pointer, from, goal, sending>>
  BY DEF QuitThread, Quit, PastThread, Goto, MapInv, Locking, Critical, Awaits, Joins
<1>2. CASE UNCHANGED <<loop, subscribed>> /\ (from[c] \notin Keys \/ feeds[from[c]] = None)
  <2>1. pc' = [pc EXCEPT ![c] = "quitTV"] /\ writer' = writer
    BY <1>2 DEF QuitThread, Quit, PastThread, Goto
  <2>2. TypeOK' /\ LoopsAreMapped' /\ Vacant' /\ Deaths'
    BY <1>1, <1>2, <2>1 DEF MapInv, TypeOK, Points, LoopsAreMapped, Vacant, Deaths
  <2>3. Locking' /\ Sending'
    BY <1>1, <2>1 DEF MapInv, TypeOK, Locking, Critical, Sending
  <2>4. \A d \in Clients : ~Awaits(d)' /\ ~Joins(d)'
    BY <1>1, <2>1 DEF MapInv, TypeOK, Awaits, Joins
  <2>5. Answering' /\ Peopled'
    BY <1>1, <1>2, <2>4 DEF MapInv, Answering, Peopled
  <2>6. Purpose'
    BY <1>1, <2>1, <2>4 DEF MapInv, TypeOK, Purpose, Leaving, Pages
  <2>7. Subscribed' /\ Pointers'
    BY <1>1, <1>2, <2>1 DEF MapInv, TypeOK, Subscribed, Leaving, Pointers, Settled, Keys
  <2> QED BY <2>2, <2>3, <2>5, <2>6, <2>7 DEF MapInv
<1>3. ASSUME from[c] \in Threads, feeds[from[c]] # None,
             loop[feeds[from[c]]] = "select",
             loop' = [loop EXCEPT ![feeds[from[c]]] = "answer"],
             subscribed' = [subscribed EXCEPT ![feeds[from[c]]] = @ \ {c}],
             pc' = [pc EXCEPT ![c] = "awaitThread"], writer' = writer
      PROVE MapInv'
  <2>1. /\ feeds[from[c]] \in Loops
        /\ \A l \in Keys : feeds[l] = feeds[from[c]] => l = from[c]
    BY <1>3 DEF MapInv, TypeOK, LoopsAreMapped, Keys
  <2>2. \A d \in Clients : ~Joins(d)' /\ (Awaits(d)' <=> d = c)
    BY <1>1, <1>3 DEF MapInv, TypeOK, Awaits, Joins
  <2>3. Awaited(c)' = from[c]
    BY <1>1, <1>3 DEF MapInv, TypeOK, Awaited
  <2>4. TypeOK' /\ LoopsAreMapped' /\ Vacant' /\ Deaths'
    BY <1>1, <1>3, <2>1 DEF MapInv, TypeOK, Points, LoopsAreMapped, Vacant, Deaths
  <2>5. Locking' /\ Sending'
    BY <1>1, <1>3 DEF MapInv, TypeOK, Locking, Critical, Sending
  <2>6. Answering'
    BY <1>1, <1>3, <2>1, <2>2, <2>3 DEF MapInv, TypeOK, Answering
  <2>7. Peopled'
    BY <1>1, <1>3, <2>1, <2>2, <2>3 DEF MapInv, TypeOK, Peopled
  <2>8. Purpose'
    BY <1>1, <1>3, <2>1, <2>2, <2>3 DEF MapInv, TypeOK, Purpose, Leaving, Pages
  <2>9. Subscribed'
    BY <1>1, <1>3, <2>1 DEF MapInv, TypeOK, Subscribed, Leaving, Settled, Keys
  <2>10. Pointers'
    BY <1>1, <1>3, <2>1 DEF MapInv, TypeOK, Pointers, Settled, Keys
  <2> QED BY <2>4, <2>5, <2>6, <2>7, <2>8, <2>9, <2>10 DEF MapInv
<1> QED
  BY <1>2, <1>3 DEF QuitThread, Quit, PastThread, Goto, Keys, MapInv, Purpose, Leaving, Pages

\* The video feed takes it off, or there is none.
LEMMA QuitTVKeeps ==
    ASSUME MapInv, NEW c \in Clients, QuitTV(c) PROVE MapInv'
<1> USE FeedMapAssumption DEF mapVars, lockVars
<1>1. /\ pc[c] = "quitTV" /\ writer = c
      /\ \A d \in Clients : ~Awaits(d) /\ ~Joins(d)
      /\ UNCHANGED <<feeds, readers, synced, pointer, from, goal, sending>>
  BY DEF QuitTV, Quit, PastTV, Goto, Unlock, MapInv, Locking, Critical, Awaits, Joins
<1>2. CASE UNCHANGED <<loop, subscribed>> /\ (feeds[TV] = None)
  <2>1. pc' = [pc EXCEPT ![c] = IF goal[c] = None THEN "gone" ELSE "add"] /\ writer' = None
    BY <1>2 DEF QuitTV, Quit, PastTV, Goto, Unlock
  <2>2. TypeOK' /\ LoopsAreMapped' /\ Vacant' /\ Deaths'
    BY <1>1, <1>2, <2>1 DEF MapInv, TypeOK, Points, LoopsAreMapped, Vacant, Deaths
  <2>3. Locking' /\ Sending'
    BY <1>1, <2>1 DEF MapInv, TypeOK, Locking, Critical, Sending
  <2>4. \A d \in Clients : ~Awaits(d)' /\ ~Joins(d)'
    BY <1>1, <2>1 DEF MapInv, TypeOK, Awaits, Joins
  <2>5. Answering' /\ Peopled'
    BY <1>1, <1>2, <2>4 DEF MapInv, Answering, Peopled
  <2>6. Purpose'
    BY <1>1, <2>1, <2>4 DEF MapInv, TypeOK, Purpose, Leaving, Pages
  <2>7. Subscribed' /\ Pointers'
    BY <1>1, <1>2, <2>1 DEF MapInv, TypeOK, Subscribed, Leaving, Pointers, Settled, Keys
  <2> QED BY <2>2, <2>3, <2>5, <2>6, <2>7 DEF MapInv
<1>3. ASSUME feeds[TV] # None,
             loop[feeds[TV]] = "select",
             loop' = [loop EXCEPT ![feeds[TV]] = "answer"],
             subscribed' = [subscribed EXCEPT ![feeds[TV]] = @ \ {c}],
             pc' = [pc EXCEPT ![c] = "awaitTV"], writer' = writer
      PROVE MapInv'
  <2>1. /\ feeds[TV] \in Loops
        /\ \A l \in Keys : feeds[l] = feeds[TV] => l = TV
    BY <1>3 DEF MapInv, TypeOK, LoopsAreMapped, Keys
  <2>2. \A d \in Clients : ~Joins(d)' /\ (Awaits(d)' <=> d = c)
    BY <1>1, <1>3 DEF MapInv, TypeOK, Awaits, Joins
  <2>3. Awaited(c)' = TV
    BY <1>1, <1>3 DEF MapInv, TypeOK, Awaited
  <2>4. TypeOK' /\ LoopsAreMapped' /\ Vacant' /\ Deaths'
    BY <1>1, <1>3, <2>1 DEF MapInv, TypeOK, Points, LoopsAreMapped, Vacant, Deaths
  <2>5. Locking' /\ Sending'
    BY <1>1, <1>3 DEF MapInv, TypeOK, Locking, Critical, Sending
  <2>6. Answering'
    BY <1>1, <1>3, <2>1, <2>2, <2>3 DEF MapInv, TypeOK, Answering
  <2>7. Peopled'
    BY <1>1, <1>3, <2>1, <2>2, <2>3 DEF MapInv, TypeOK, Peopled
  <2>8. Purpose'
    BY <1>1, <1>3, <2>1, <2>2, <2>3 DEF MapInv, TypeOK, Purpose, Leaving, Pages
  <2>9. Subscribed'
    BY <1>1, <1>3, <2>1 DEF MapInv, TypeOK, Subscribed, Leaving, Settled, Keys
  <2>10. Pointers'
    BY <1>1, <1>3, <2>1 DEF MapInv, TypeOK, Pointers, Settled, Keys
  <2> QED BY <2>4, <2>5, <2>6, <2>7, <2>8, <2>9, <2>10 DEF MapInv
<1> QED
  BY <1>2, <1>3 DEF QuitTV, Quit, PastTV, Goto, Unlock, Keys, MapInv, Purpose, Leaving, Pages

\* The feed of its thread answers, and closes without subscribers.
LEMMA AwaitThreadKeeps ==
    ASSUME MapInv, NEW c \in Clients, AwaitThread(c) PROVE MapInv'
<1> USE FeedMapAssumption DEF mapVars, lockVars, Keys, Pages, Points
<1> DEFINE k == from[c]
           i == feeds[k]
<1>1. k \in Threads /\ i \in Loops /\ pc[c] = "awaitThread" /\ loop[i] = "answer"
  BY DEF MapInv, AwaitThread, Await, TypeOK, Purpose, Awaits, Awaited
<1>2. writer = c /\ readers = {} /\ \A s \in Senders : sending[s] = None
  BY <1>1 DEF MapInv, Locking, Critical, Sending
<1>3. \A d \in Clients : pc[d] \in Critical => d = c
  BY <1>2 DEF MapInv, Locking
<1>4. pc' = [pc EXCEPT ![c] = "quitTV"]
      /\ UNCHANGED <<writer, readers, subscribed, synced, pointer, from, goal, sending>>
  BY DEF AwaitThread, Await, PastThread, Goto
<1>5. \A d \in Clients : ~Awaits(d)' /\ ~Joins(d)'
  BY <1>1, <1>3, <1>4 DEF Critical, Awaits, Joins, MapInv, TypeOK
<1>6. \/ /\ subscribed[i] = {}
         /\ loop' = [loop EXCEPT ![i] = "stopped"]
         /\ feeds' = [feeds EXCEPT ![k] = None]
      \/ /\ subscribed[i] # {}
         /\ loop' = [loop EXCEPT ![i] = "select"]
         /\ feeds' = feeds
  BY DEF AwaitThread, Await
<1> HIDE DEF k, i
<1>7. TypeOK'
  BY <1>1, <1>4, <1>6 DEF MapInv, TypeOK
<1>8. LoopsAreMapped'
  <2>1. CASE feeds' = feeds
    BY <2>1, <1>1, <1>6 DEF MapInv, TypeOK, LoopsAreMapped, i, k
  <2>2. CASE feeds' # feeds
    BY <2>2, <1>1, <1>6 DEF MapInv, TypeOK, LoopsAreMapped, i, k
  <2> QED BY <2>1, <2>2
<1>9. Locking'
  BY <1>1, <1>2, <1>3, <1>4 DEF MapInv, TypeOK, Locking, Critical
<1>10. Sending'
  BY <1>2, <1>4 DEF MapInv, Sending
<1>11. Purpose'
  BY <1>1, <1>4, <1>5 DEF MapInv, TypeOK, Purpose, Leaving
<1>12. Vacant'
  BY <1>1, <1>4, <1>6 DEF MapInv, TypeOK, Vacant
<1>13. Answering'
  <2>1. \A j \in Loops : loop[j] = "answer" => j = i
    BY <1>1, <1>3 DEF MapInv, Answering, Awaits, Awaited, Critical, i, k
  <2> QED BY <2>1, <1>1, <1>5, <1>6 DEF MapInv, TypeOK, Answering
<1>14. Subscribed'
  BY <1>1, <1>4, <1>6 DEF MapInv, TypeOK, Subscribed, Leaving, Settled
<1>15. Pointers'
  BY <1>1, <1>4, <1>6 DEF MapInv, TypeOK, Pointers, Settled, k, i
<1>16. Peopled'
  BY <1>1, <1>3, <1>4, <1>6
     DEF MapInv, TypeOK, Peopled, LoopsAreMapped, Awaits, Awaited, Joins, Critical, k, i
<1>17. Deaths'
  BY <1>1, <1>6 DEF MapInv, TypeOK, Deaths
<1> QED BY <1>7, <1>8, <1>9, <1>10, <1>11, <1>12, <1>13, <1>14, <1>15, <1>16, <1>17
        DEF MapInv

\* The video feed answers, and closes without subscribers.
LEMMA AwaitTVKeeps ==
    ASSUME MapInv, NEW c \in Clients, AwaitTV(c) PROVE MapInv'
<1> USE FeedMapAssumption DEF mapVars, lockVars, Keys, Pages, Points
<1> DEFINE i == feeds[TV]
<1>1. i \in Loops /\ pc[c] = "awaitTV" /\ loop[i] = "answer"
  BY DEF MapInv, AwaitTV, Await, TypeOK, Purpose, Awaits, Awaited
<1>2. writer = c /\ readers = {} /\ \A s \in Senders : sending[s] = None
  BY <1>1 DEF MapInv, Locking, Critical, Sending
<1>3. \A d \in Clients : pc[d] \in Critical => d = c
  BY <1>2 DEF MapInv, Locking
<1>4. pc' = [pc EXCEPT ![c] = IF goal[c] = None THEN "gone" ELSE "add"]
      /\ writer' = None
      /\ UNCHANGED <<readers, subscribed, synced, pointer, from, goal, sending>>
  BY DEF AwaitTV, Await, PastTV, Goto, Unlock
<1>5. \A d \in Clients : ~Awaits(d)' /\ ~Joins(d)'
  BY <1>1, <1>3, <1>4 DEF Critical, Awaits, Joins, MapInv, TypeOK
<1>6. \/ /\ subscribed[i] = {}
         /\ loop' = [loop EXCEPT ![i] = "stopped"]
         /\ feeds' = [feeds EXCEPT ![TV] = None]
      \/ /\ subscribed[i] # {}
         /\ loop' = [loop EXCEPT ![i] = "select"]
         /\ feeds' = feeds
  BY DEF AwaitTV, Await
<1> HIDE DEF i
<1>7. TypeOK'
  BY <1>1, <1>4, <1>6 DEF MapInv, TypeOK
<1>8. LoopsAreMapped'
  <2>1. CASE feeds' = feeds
    BY <2>1, <1>1, <1>6 DEF MapInv, TypeOK, LoopsAreMapped, i
  <2>2. CASE feeds' # feeds
    BY <2>2, <1>1, <1>6 DEF MapInv, TypeOK, LoopsAreMapped, i
  <2> QED BY <2>1, <2>2
<1>9. Locking'
  BY <1>1, <1>2, <1>3, <1>4 DEF MapInv, TypeOK, Locking, Critical
<1>10. Sending'
  BY <1>2, <1>4 DEF MapInv, Sending
<1>11. Purpose'
  BY <1>1, <1>4, <1>5 DEF MapInv, TypeOK, Purpose, Leaving
<1>12. Vacant'
  BY <1>1, <1>4, <1>6 DEF MapInv, TypeOK, Vacant
<1>13. Answering'
  <2>1. \A j \in Loops : loop[j] = "answer" => j = i
    BY <1>1, <1>3 DEF MapInv, Answering, Awaits, Awaited, Critical, i
  <2> QED BY <2>1, <1>1, <1>5, <1>6 DEF MapInv, TypeOK, Answering
<1>14. Subscribed'
  BY <1>1, <1>4, <1>6 DEF MapInv, TypeOK, Subscribed, Leaving, Settled
<1>15. Pointers'
  BY <1>1, <1>4, <1>6 DEF MapInv, TypeOK, Pointers, Settled, i
<1>16. Peopled'
  BY <1>1, <1>3, <1>4, <1>6
     DEF MapInv, TypeOK, Peopled, LoopsAreMapped, Awaits, Awaited, Joins, Critical, i
<1>17. Deaths'
  BY <1>1, <1>6 DEF MapInv, TypeOK, Deaths
<1> QED BY <1>7, <1>8, <1>9, <1>10, <1>11, <1>12, <1>13, <1>14, <1>15, <1>16, <1>17
        DEF MapInv

\* The object a new feed takes is one that nothing refers to.
LEMMA NewFeedIsGarbage ==
    ASSUME Garbage # {}
    PROVE /\ NewFeed \in Loops /\ loop[NewFeed] = "stopped"
          /\ \A c \in Clients : pointer[c] # NewFeed
BY DEF NewFeed, Garbage

\* It looks for the feed of its new thread, allocates it, or needs none.
LEMMA LockToAddKeeps ==
    ASSUME MapInv, NEW c \in Clients, LockToAdd(c) PROVE MapInv'
<1> USE FeedMapAssumption DEF mapVars, lockVars, Keys, Pages, Points
<1> DEFINE k == goal[c]
           i == NewFeed
<1>1. pc[c] = "add" /\ k \in Pages /\ synced[c] = k /\ writer = None /\ readers = {}
  BY DEF MapInv, LockToAdd, Find, Lock, Free, Purpose
<1>2. from' = [from EXCEPT ![c] = None]
      /\ UNCHANGED <<readers, subscribed, synced, sending>>
  BY DEF LockToAdd, Find, Lock, Free
<1>3. ~Awaits(c) /\ ~Joins(c) /\ \A d \in Clients : pc[d] \notin Critical
  BY <1>1 DEF Awaits, Joins, MapInv, Locking
<1>4. \/ /\ k = Board /\ pc' = [pc EXCEPT ![c] = "idle"]
         /\ pointer' = [pointer EXCEPT ![c] = None]
         /\ goal' = [goal EXCEPT ![c] = None]
         /\ UNCHANGED <<feeds, loop, writer>>
      \/ /\ k \in Threads /\ feeds[k] # None
         /\ pc' = [pc EXCEPT ![c] = "join"] /\ writer' = c
         /\ UNCHANGED <<feeds, loop, pointer, goal>>
      \/ /\ k \in Threads /\ feeds[k] = None
         /\ Garbage # {}
         /\ feeds' = [feeds EXCEPT ![k] = i]
         /\ loop' = [loop EXCEPT ![i] = "select"]
         /\ pc' = [pc EXCEPT ![c] = "join"] /\ writer' = c
         /\ UNCHANGED <<pointer, goal>>
      \/ /\ k \in Threads /\ feeds[k] = None
         /\ Garbage # {} /\ StartFails
         /\ feeds' = [feeds EXCEPT ![k] = i]
         /\ loop' = [loop EXCEPT ![i] = "dead"]
         /\ pointer' = [pointer EXCEPT ![c] = i]
         /\ pc' = [pc EXCEPT ![c] = "failed"]
         /\ UNCHANGED <<goal, writer>>
  BY <1>1 DEF LockToAdd, Find, Lock, Free, Goto
<1>5. Garbage # {} => /\ i \in Loops /\ loop[i] = "stopped" /\ subscribed[i] = {}
                      /\ \A d \in Clients : pointer[d] # i
                      /\ \A l \in Keys : feeds[l] # i
  BY NewFeedIsGarbage DEF MapInv, Vacant, LoopsAreMapped
<1> HIDE DEF i, k
<1>6. TypeOK'
  BY <1>1, <1>2, <1>4, <1>5 DEF MapInv, TypeOK
<1>7. LoopsAreMapped'
  BY <1>1, <1>4, <1>5 DEF MapInv, TypeOK, LoopsAreMapped
<1>8. Locking'
  BY <1>1, <1>2, <1>3, <1>4 DEF MapInv, TypeOK, Locking, Critical
<1>9. Sending'
  BY <1>1, <1>2, <1>4, <1>5 DEF MapInv, TypeOK, Sending
<1>10. Purpose'
  BY <1>1, <1>2, <1>3, <1>4, <1>5
     DEF MapInv, TypeOK, Purpose, Leaving, Awaits, Awaited, Joins, Joined, Critical, k
<1>11. Vacant'
  BY <1>1, <1>2, <1>4, <1>5 DEF MapInv, TypeOK, Vacant
<1>12. Answering'
  BY <1>1, <1>2, <1>3, <1>4, <1>5 DEF MapInv, TypeOK, Answering, Awaits, Awaited, Critical
<1>13. Subscribed'
  BY <1>1, <1>2, <1>4, <1>5 DEF MapInv, TypeOK, Subscribed, Leaving, Settled
<1>14. Pointers'
  BY <1>1, <1>2, <1>4, <1>5 DEF MapInv, TypeOK, Pointers, Settled
<1>15. Peopled'
  BY <1>1, <1>2, <1>3, <1>4, <1>5
     DEF MapInv, TypeOK, Peopled, LoopsAreMapped, Awaits, Awaited, Joins, Joined, Critical,
         k
<1>16. Deaths'
  BY <1>4, <1>5 DEF MapInv, TypeOK, Deaths
<1> QED BY <1>6, <1>7, <1>8, <1>9, <1>10, <1>11, <1>12, <1>13, <1>14, <1>15, <1>16
        DEF MapInv

\* It looks for the video feed, or allocates it.
LEMMA LockToWatchKeeps ==
    ASSUME MapInv, NEW c \in Clients, LockToWatch(c) PROVE MapInv'
<1> USE FeedMapAssumption DEF mapVars, lockVars, Keys, Pages, Points
<1> DEFINE i == NewFeed
<1>1. pc[c] = "watch" /\ synced[c] # None /\ writer = None /\ readers = {}
  BY DEF MapInv, LockToWatch, Find, Lock, Free, Purpose
<1>2. UNCHANGED <<readers, subscribed, synced, pointer, from, goal, sending>>
  BY DEF LockToWatch, Find, Lock, Free
<1>3. ~Awaits(c) /\ ~Joins(c) /\ \A d \in Clients : pc[d] \notin Critical
  BY <1>1 DEF Awaits, Joins, MapInv, Locking
<1>4. \/ /\ feeds[TV] # None
         /\ pc' = [pc EXCEPT ![c] = "joinTV"] /\ writer' = c
         /\ UNCHANGED <<feeds, loop>>
      \/ /\ feeds[TV] = None
         /\ Garbage # {}
         /\ feeds' = [feeds EXCEPT ![TV] = i]
         /\ loop' = [loop EXCEPT ![i] = "select"]
         /\ pc' = [pc EXCEPT ![c] = "joinTV"] /\ writer' = c
      \/ /\ feeds[TV] = None
         /\ Garbage # {} /\ StartFails
         /\ feeds' = [feeds EXCEPT ![TV] = i]
         /\ loop' = [loop EXCEPT ![i] = "dead"]
         /\ pc' = [pc EXCEPT ![c] = "failed"]
         /\ UNCHANGED writer
  BY <1>1 DEF LockToWatch, Find, Lock, Free, Goto
<1>5. Garbage # {} => /\ i \in Loops /\ loop[i] = "stopped" /\ subscribed[i] = {}
                      /\ \A l \in Keys : feeds[l] # i
  BY NewFeedIsGarbage DEF MapInv, Vacant, LoopsAreMapped
<1> HIDE DEF i
<1>6. TypeOK'
  BY <1>1, <1>2, <1>4, <1>5 DEF MapInv, TypeOK
<1>7. LoopsAreMapped'
  BY <1>1, <1>4, <1>5 DEF MapInv, TypeOK, LoopsAreMapped
<1>8. Locking'
  BY <1>1, <1>2, <1>3, <1>4 DEF MapInv, TypeOK, Locking, Critical
<1>9. Sending'
  BY <1>1, <1>2, <1>4, <1>5 DEF MapInv, TypeOK, Sending
<1>10. Purpose'
  BY <1>1, <1>2, <1>3, <1>4, <1>5
     DEF MapInv, TypeOK, Purpose, Leaving, Awaits, Awaited, Joins, Joined, Critical
<1>11. Vacant'
  BY <1>1, <1>2, <1>4, <1>5 DEF MapInv, TypeOK, Vacant
<1>12. Answering'
  BY <1>1, <1>2, <1>3, <1>4, <1>5 DEF MapInv, TypeOK, Answering, Awaits, Awaited, Critical
<1>13. Subscribed'
  BY <1>1, <1>2, <1>4, <1>5 DEF MapInv, TypeOK, Subscribed, Leaving, Settled
<1>14. Pointers'
  BY <1>1, <1>2, <1>4, <1>5 DEF MapInv, TypeOK, Pointers, Settled
<1>15. Peopled'
  BY <1>1, <1>2, <1>3, <1>4, <1>5
     DEF MapInv, TypeOK, Peopled, LoopsAreMapped, Awaits, Awaited, Joins, Joined, Critical
<1>16. Deaths'
  BY <1>4, <1>5 DEF MapInv, TypeOK, Deaths
<1> QED BY <1>6, <1>7, <1>8, <1>9, <1>10, <1>11, <1>12, <1>13, <1>14, <1>15, <1>16
        DEF MapInv

\* It enters the feed of its thread.
LEMMA JoinKeeps ==
    ASSUME MapInv, NEW c \in Clients, Join(c) PROVE MapInv'
<1> USE FeedMapAssumption DEF mapVars, lockVars, Keys, Pages, Points
<1> DEFINE k == goal[c]
           i == feeds[k]
<1>1. /\ pc[c] = "join" /\ k \in Threads /\ synced[c] = k
      /\ i \in Loops /\ loop[i] = "select"
  BY DEF MapInv, Join, Enter, TypeOK, Purpose, Joins, Joined
<1>2. writer = c /\ \A d \in Clients : pc[d] \in Critical => d = c
  BY <1>1 DEF MapInv, Locking, Critical
<1>3. /\ subscribed' = [subscribed EXCEPT ![i] = @ \cup {c}]
      /\ goal' = [goal EXCEPT ![c] = None]
      /\ writer' = None
      /\ pc' = [pc EXCEPT ![c] = "idle"]
      /\ pointer' = [pointer EXCEPT ![c] = i]
      /\ UNCHANGED <<feeds, loop, readers, synced, from, sending>>
  BY DEF Join, Enter, Unlock, Goto
<1>4. \A d \in Clients : ~Awaits(d)' /\ ~Joins(d)'
  BY <1>1, <1>2, <1>3 DEF Critical, Awaits, Joins, MapInv, TypeOK
<1> HIDE DEF k, i
<1>5. TypeOK'
  BY <1>1, <1>3 DEF MapInv, TypeOK
<1>6. LoopsAreMapped'
  BY <1>3 DEF MapInv, LoopsAreMapped
<1>7. Locking'
  BY <1>1, <1>2, <1>3 DEF MapInv, TypeOK, Locking, Critical
<1>8. Sending'
  BY <1>3 DEF MapInv, Sending
<1>9. Purpose'
  BY <1>1, <1>3, <1>4 DEF MapInv, TypeOK, Purpose, Leaving
<1>10. Vacant'
  BY <1>1, <1>3 DEF MapInv, TypeOK, Vacant
<1>11. Answering'
  <2>1. \A j \in Loops : loop[j] # "answer"
    BY <1>1, <1>2 DEF MapInv, Answering, Awaits, Critical
  <2> QED BY <2>1, <1>3, <1>4 DEF Answering
<1>12. Subscribed'
  <2>1. \A l \in Keys : feeds[l] = i => l = k
    BY <1>1 DEF MapInv, LoopsAreMapped, i, k
  <2> QED BY <2>1, <1>1, <1>3 DEF MapInv, TypeOK, Subscribed, Leaving, Settled
<1>13. Pointers'
  BY <1>1, <1>3 DEF MapInv, TypeOK, Pointers, Settled, i
<1>14. Peopled'
  <2> SUFFICES ASSUME NEW l \in Keys, feeds[l] # None, subscribed'[feeds[l]] = {}
               PROVE loop[feeds[l]] = "dead"
    BY <1>3 DEF Peopled
  <2>1. feeds[l] \in Loops /\ l # k /\ subscribed[feeds[l]] = {}
    BY <1>1, <1>3 DEF MapInv, TypeOK, k, i
  <2>2. \A d \in Clients : ~(Awaits(d) /\ Awaited(d) = l) /\ ~(Joins(d) /\ Joined(d) = l)
    BY <1>1, <1>2, <2>1 DEF Awaits, Joins, Joined, Critical, k
  <2> QED BY <2>1, <2>2 DEF MapInv, Peopled
<1>15. Deaths'
  BY <1>3 DEF MapInv, Deaths
<1> QED BY <1>5, <1>6, <1>7, <1>8, <1>9, <1>10, <1>11, <1>12, <1>13, <1>14, <1>15
        DEF MapInv

\* It enters the video feed.
LEMMA JoinTVKeeps ==
    ASSUME MapInv, NEW c \in Clients, JoinTV(c) PROVE MapInv'
<1> USE FeedMapAssumption DEF mapVars, lockVars, Keys, Pages, Points
<1> DEFINE i == feeds[TV]
<1>1. /\ pc[c] = "joinTV" /\ synced[c] # None
      /\ i \in Loops /\ loop[i] = "select"
  BY DEF MapInv, JoinTV, Enter, TypeOK, Purpose, Joins, Joined
<1>2. writer = c /\ \A d \in Clients : pc[d] \in Critical => d = c
  BY <1>1 DEF MapInv, Locking, Critical
<1>3. /\ subscribed' = [subscribed EXCEPT ![i] = @ \cup {c}]
      /\ goal' = [goal EXCEPT ![c] = None]
      /\ writer' = None
      /\ pc' = [pc EXCEPT ![c] = "idle"]
      /\ UNCHANGED <<feeds, loop, readers, synced, pointer, from, sending>>
  BY DEF JoinTV, Enter, Unlock, Goto
<1>4. \A d \in Clients : ~Awaits(d)' /\ ~Joins(d)'
  BY <1>1, <1>2, <1>3 DEF Critical, Awaits, Joins, MapInv, TypeOK
<1> HIDE DEF i
<1>5. TypeOK'
  BY <1>1, <1>3 DEF MapInv, TypeOK
<1>6. LoopsAreMapped'
  BY <1>3 DEF MapInv, LoopsAreMapped
<1>7. Locking'
  BY <1>1, <1>2, <1>3 DEF MapInv, TypeOK, Locking, Critical
<1>8. Sending'
  BY <1>3 DEF MapInv, Sending
<1>9. Purpose'
  BY <1>1, <1>3, <1>4 DEF MapInv, TypeOK, Purpose, Leaving
<1>10. Vacant'
  BY <1>1, <1>3 DEF MapInv, TypeOK, Vacant
<1>11. Answering'
  <2>1. \A j \in Loops : loop[j] # "answer"
    BY <1>1, <1>2 DEF MapInv, Answering, Awaits, Critical
  <2> QED BY <2>1, <1>3, <1>4 DEF Answering
<1>12. Subscribed'
  <2>1. \A l \in Keys : feeds[l] = i => l = TV
    BY <1>1 DEF MapInv, LoopsAreMapped, i
  <2> QED BY <2>1, <1>1, <1>3 DEF MapInv, TypeOK, Subscribed, Leaving, Settled
<1>13. Pointers'
  BY <1>1, <1>3 DEF MapInv, TypeOK, Pointers, Settled, i
<1>14. Peopled'
  <2> SUFFICES ASSUME NEW l \in Keys, feeds[l] # None, subscribed'[feeds[l]] = {}
               PROVE loop[feeds[l]] = "dead"
    BY <1>3 DEF Peopled
  <2>1. feeds[l] \in Loops /\ l # TV /\ subscribed[feeds[l]] = {}
    BY <1>1, <1>3 DEF MapInv, TypeOK, i
  <2>2. \A d \in Clients : ~(Awaits(d) /\ Awaited(d) = l) /\ ~(Joins(d) /\ Joined(d) = l)
    BY <1>1, <1>2, <2>1 DEF Awaits, Joins, Joined, Critical
  <2> QED BY <2>1, <2>2 DEF MapInv, Peopled
<1>15. Deaths'
  BY <1>3 DEF MapInv, Deaths
<1> QED BY <1>5, <1>6, <1>7, <1>8, <1>9, <1>10, <1>11, <1>12, <1>13, <1>14, <1>15
        DEF MapInv

\* A sender takes the lock for reading.
LEMMA SendIfExistsKeeps ==
    ASSUME MapInv, NEW s \in Senders, NEW t \in Threads, SendIfExists(s, t) PROVE MapInv'
<1> USE FeedMapAssumption DEF mapVars, lockVars, Keys, Pages, Points
<1>1. TypeOK'
  BY DEF MapInv, SendIfExists, TypeOK
<1>2. Locking' /\ Sending'
  BY DEF MapInv, SendIfExists, TypeOK, Locking, Critical, Sending
<1>3. LoopsAreMapped' /\ Purpose' /\ Vacant' /\ Answering' /\ Subscribed' /\ Pointers'
      /\ Peopled' /\ Deaths'
  BY DEF MapInv, SendIfExists, LoopsAreMapped, Purpose, Vacant, Answering, Subscribed,
         Pointers, Peopled, Deaths, Awaits, Awaited, Joins, Joined
<1> QED BY <1>1, <1>2, <1>3 DEF MapInv

\* Its feed takes the message.
LEMMA SentKeeps ==
    ASSUME MapInv, NEW s \in Senders, Sent(s) PROVE MapInv'
<1> USE FeedMapAssumption DEF mapVars, lockVars, Keys, Pages, Points
<1>1. TypeOK'
  BY DEF MapInv, Sent, TypeOK
<1>2. Locking' /\ Sending'
  BY DEF MapInv, Sent, TypeOK, Locking, Critical, Sending
<1>3. LoopsAreMapped' /\ Purpose' /\ Vacant' /\ Answering' /\ Subscribed' /\ Pointers'
      /\ Peopled' /\ Deaths'
  BY DEF MapInv, Sent, LoopsAreMapped, Purpose, Vacant, Answering, Subscribed,
         Pointers, Peopled, Deaths, Awaits, Awaited, Joins, Joined
<1> QED BY <1>1, <1>2, <1>3 DEF MapInv

\* Nobody is synced, and no feed runs.
LEMMA MapInvInit == Init => MapInv
BY FeedMapAssumption
   DEF Init, MapInv, TypeOK, Keys, Pages, Points, LoopsAreMapped, Locking, Critical, Sending,
       Purpose, Leaving, Vacant, Answering, Subscribed, Settled, Pointers, Peopled, Deaths,
       Awaits, Awaited, Joins, Joined

\* Nothing happens.
LEMMA StutterKeeps == ASSUME MapInv, UNCHANGED vars PROVE MapInv'
<1> USE DEF vars, mapVars, lockVars
<1>1. TypeOK' /\ LoopsAreMapped' /\ Locking' /\ Sending' /\ Vacant' /\ Deaths'
  BY DEF MapInv, TypeOK, LoopsAreMapped, Locking, Sending, Vacant, Deaths
<1>2. Purpose' /\ Answering' /\ Subscribed' /\ Pointers' /\ Peopled'
  BY DEF MapInv, Purpose, Answering, Subscribed, Pointers, Peopled, Awaits, Awaited, Joins,
         Joined
<1> QED BY <1>1, <1>2 DEF MapInv

-----------------------------------------------------------------------------
(* The steps of the abstract feeds.                                         *)

\* The members of every feed, as FeedSubscriptions has them
Members == [k \in Keys |-> IF feeds[k] = None THEN {} ELSE subscribed[feeds[k]]]

\* A change of the subscribers of one feed is one of its members only.
LEMMA OneFeedChanges ==
    ASSUME MapInv, NEW k \in Keys, feeds[k] # None, feeds' = feeds,
           NEW S, subscribed' = [subscribed EXCEPT ![feeds[k]] = S]
    PROVE Members' = [Members EXCEPT ![k] = S]
<1>1. \A l \in Keys : feeds[l] # None /\ feeds[l] = feeds[k] => l = k
  BY DEF MapInv, TypeOK, LoopsAreMapped
<1>2. \A l \in Keys : feeds[l] # None => feeds[l] \in Loops
  BY DEF MapInv, TypeOK
<1>3. DOMAIN subscribed = Loops
  BY DEF MapInv, TypeOK
<1>4. \A l \in Keys : (IF feeds[l] = None THEN {} ELSE subscribed'[feeds[l]])
                     = IF l = k THEN S ELSE Members[l]
  BY <1>1, <1>2, <1>3 DEF Members
<1>5. Members' = [l \in Keys |-> IF l = k THEN S ELSE Members[l]]
  BY <1>4 DEF Members
<1> QED BY <1>5 DEF Members

\* A feed that takes a client off quits it, if it was a member.
LEMMA QuitIsQuit ==
    ASSUME MapInv, NEW c \in Clients, QuitThread(c) \/ QuitTV(c)
    PROVE UNCHANGED Members \/ \E k \in Keys : Subscriptions!Quit(c, k)
<1> USE FeedMapAssumption DEF mapVars, lockVars
<1>1. \/ UNCHANGED mapVars
      \/ \E k \in Keys :
            /\ feeds[k] # None /\ feeds' = feeds
            /\ subscribed' = [subscribed EXCEPT ![feeds[k]] = @ \ {c}]
  BY DEF QuitThread, QuitTV, Quit, Keys
<1>2. CASE UNCHANGED mapVars
  BY <1>2 DEF Members
<1>3. ASSUME NEW k \in Keys, feeds[k] # None, feeds' = feeds,
             subscribed' = [subscribed EXCEPT ![feeds[k]] = @ \ {c}]
      PROVE UNCHANGED Members \/ Subscriptions!Quit(c, k)
  <2>1. Members' = [Members EXCEPT ![k] = @ \ {c}]
    <3>1. Members' = [Members EXCEPT ![k] = subscribed[feeds[k]] \ {c}]
      BY <1>3, OneFeedChanges
    <3>2. Members[k] = subscribed[feeds[k]]
      BY <1>3 DEF Members
    <3> QED BY <3>1, <3>2
  <2>2. CASE c \in Members[k]
    BY <2>1, <2>2 DEF Subscriptions!Quit, Members
  <2>3. CASE c \notin Members[k]
    <3>1. Members[k] \ {c} = Members[k]
      BY <2>3
    <3> QED BY <2>1, <3>1 DEF Members
  <2> QED BY <2>2, <2>3
<1> QED BY <1>1, <1>2, <1>3

\* A feed that closes has no members to lose.
LEMMA AwaitIsHidden ==
    ASSUME MapInv, NEW c \in Clients, AwaitThread(c) \/ AwaitTV(c)
    PROVE UNCHANGED Members
<1> USE FeedMapAssumption
<1>1. PICK k \in Keys : /\ feeds[k] # None
                        /\ \/ feeds' = feeds
                           \/ subscribed[feeds[k]] = {} /\ feeds' = [feeds EXCEPT ![k] = None]
                        /\ subscribed' = subscribed
  BY DEF AwaitThread, AwaitTV, Await, Keys, MapInv, Purpose, Awaits, Awaited
<1> QED BY <1>1 DEF Members, MapInv, TypeOK

\* A feed that is allocated has no members yet.
LEMMA FindIsHidden ==
    ASSUME MapInv, NEW c \in Clients, LockToAdd(c) \/ LockToWatch(c)
    PROVE UNCHANGED Members
<1> USE FeedMapAssumption DEF mapVars
<1>1. \/ UNCHANGED <<feeds, subscribed>>
      \/ /\ Garbage # {} /\ subscribed' = subscribed
         /\ \E k \in Keys : feeds[k] = None /\ feeds' = [feeds EXCEPT ![k] = NewFeed]
  BY DEF LockToAdd, LockToWatch, Find, Keys, Pages, MapInv, Purpose
<1>2. Garbage # {} => NewFeed \in Loops /\ subscribed[NewFeed] = {}
  BY NewFeedIsGarbage DEF MapInv, Vacant
<1> QED BY <1>1, <1>2 DEF Members, MapInv, TypeOK

\* A client enters the feed of a thread as a member of none.
LEMMA JoinIsEnter ==
    ASSUME MapInv, NEW c \in Clients, Join(c)
    PROVE \E t \in Threads : Subscriptions!Enter(c, t)
<1> USE FeedMapAssumption
<1> DEFINE t == goal[c]
<1>1. /\ pc[c] = "join" /\ t \in Threads /\ feeds[t] \in Loops
      /\ feeds[t] # None /\ feeds' = feeds
      /\ subscribed' = [subscribed EXCEPT ![feeds[t]] = @ \cup {c}]
  BY DEF Join, Enter, MapInv, TypeOK, Keys, Purpose, Joins, Joined
<1>2. \A k \in Keys : feeds[k] # None => c \notin subscribed[feeds[k]]
  BY <1>1 DEF MapInv, Subscribed, Settled, Leaving, Keys
<1> HIDE DEF t
<1>3. Members' = [Members EXCEPT ![t] = @ \cup {c}]
  <2>1. Members' = [Members EXCEPT ![t] = subscribed[feeds[t]] \cup {c}]
    BY <1>1, OneFeedChanges DEF Keys
  <2>2. Members[t] = subscribed[feeds[t]]
    BY <1>1 DEF Members, Keys
  <2> QED BY <2>1, <2>2
<1>4. Subscriptions!SubscribedTo(c) = {}
  BY <1>2 DEF Subscriptions!SubscribedTo, Subscriptions!Feeds, Keys
<1> QED BY <1>1, <1>3, <1>4 DEF Subscriptions!Enter, Members

\* A client enters the video feed beside that of its thread.
LEMMA JoinTVIsWatch ==
    ASSUME MapInv, NEW c \in Clients, JoinTV(c)
    PROVE UNCHANGED Members \/ Subscriptions!Watch(c)
<1> USE FeedMapAssumption
<1>1. /\ pc[c] = "joinTV" /\ feeds[TV] \in Loops
      /\ feeds[TV] # None /\ feeds' = feeds
      /\ subscribed' = [subscribed EXCEPT ![feeds[TV]] = @ \cup {c}]
  BY DEF JoinTV, Enter, MapInv, TypeOK, Keys, Purpose, Joins, Joined
<1>2. Members' = [Members EXCEPT ![TV] = @ \cup {c}]
  <2>1. Members' = [Members EXCEPT ![TV] = subscribed[feeds[TV]] \cup {c}]
    BY <1>1, OneFeedChanges DEF Keys
  <2>2. Members[TV] = subscribed[feeds[TV]]
    BY <1>1 DEF Members, Keys
  <2> QED BY <2>1, <2>2
<1>3. CASE c \in Members[TV]
  <2>1. Members[TV] \cup {c} = Members[TV]
    BY <1>3
  <2> QED BY <1>2, <2>1 DEF Members
<1>4. CASE c \notin Members[TV]
  <2>1. Subscriptions!SubscribedTo(c) \subseteq Threads
    BY <1>4 DEF Members, Subscriptions!SubscribedTo, Subscriptions!Feeds, Keys
  <2> QED BY <1>2, <2>1 DEF Subscriptions!Watch, Members
<1> QED BY <1>3, <1>4

\* Every step is one of the abstract feeds, or hidden from them.
LEMMA StepIsStep ==
    ASSUME MapInv, [Next]_vars PROVE [Subscriptions!Next]_Members
<1> USE FeedMapAssumption DEF mapVars, lockVars
<1>0. UNCHANGED <<feeds, subscribed>> => UNCHANGED Members
  BY DEF Members
<1>1. CASE UNCHANGED vars
  BY <1>0, <1>1 DEF vars
<1>2. ASSUME NEW c \in Clients, NEW page \in Pages,
             \/ Sync(c, page) \/ Disconnect(c) \/ Connect(c) \/ WatchTV(c) \/ Post(c)
             \/ LockToRemove(c) \/ Served(c)
      PROVE UNCHANGED Members
  BY <1>0, <1>2 DEF Sync, Disconnect, Connect, WatchTV, Post, LockToRemove, Served
<1>3. ASSUME NEW s \in Senders, Sent(s) \/ \E t \in Threads : SendIfExists(s, t)
      PROVE UNCHANGED Members
  BY <1>0, <1>3 DEF Sent, SendIfExists
<1>4. ASSUME NEW c \in Clients, Proceed(c)
      PROVE [Subscriptions!Next]_Members
  <2>0. Keys = Subscriptions!Feeds
    BY DEF Keys, Subscriptions!Feeds
  <2>1. CASE LockToRemove(c) \/ Served(c)
    BY <1>0, <2>1 DEF LockToRemove, Served
  <2>2. CASE QuitThread(c) \/ QuitTV(c)
    BY <2>0, <2>2, QuitIsQuit DEF Subscriptions!Next
  <2>3. CASE AwaitThread(c) \/ AwaitTV(c)
    BY <2>3, AwaitIsHidden
  <2>4. CASE LockToAdd(c) \/ LockToWatch(c)
    BY <2>4, FindIsHidden
  <2>5. CASE Join(c)
    BY <2>5, JoinIsEnter DEF Subscriptions!Next
  <2>6. CASE JoinTV(c)
    BY <2>6, JoinTVIsWatch DEF Subscriptions!Next
  <2> QED BY <1>4, <2>1, <2>2, <2>3, <2>4, <2>5, <2>6 DEF Proceed
<1>5. Board \in Pages
  BY DEF Pages
<1> QED BY <1>1, <1>2, <1>3, <1>4, <1>5 DEF Next, Proceed

-----------------------------------------------------------------------------
(* The theorems.                                                           *)

\* The invariant holds in every state of every behaviour.
LEMMA MapInvHolds == Spec => []MapInv
<1>1. ASSUME MapInv, [Next]_vars PROVE MapInv'
  <2>1. CASE UNCHANGED vars
    BY <1>1, <2>1, StutterKeeps
  <2>2. ASSUME NEW c \in Clients, Proceed(c) PROVE MapInv'
    BY <1>1, <2>2, LockToRemoveKeeps, QuitThreadKeeps, AwaitThreadKeeps, QuitTVKeeps,
       AwaitTVKeeps, LockToAddKeeps, LockToWatchKeeps, JoinKeeps, JoinTVKeeps, ServedKeeps
       DEF Proceed
  <2>3. ASSUME NEW c \in Clients,
               \/ \E page \in Pages : Sync(c, page)
               \/ Disconnect(c) \/ Connect(c) \/ WatchTV(c) \/ Post(c)
        PROVE MapInv'
    BY <1>1, <2>3, SyncKeeps, DisconnectKeeps, ConnectKeeps, WatchTVKeeps, PostKeeps
  <2>4. ASSUME NEW s \in Senders, Sent(s) \/ \E t \in Threads : SendIfExists(s, t)
        PROVE MapInv'
    BY <1>1, <2>4, SentKeeps, SendIfExistsKeeps
  <2> QED BY <1>1, <2>1, <2>2, <2>3, <2>4 DEF Next
<1> QED BY <1>1, MapInvInit, PTL DEF Spec

\* However goroutines interleave, a client between changes sends its edits to
\* the feed the map has for its thread, which runs and has it as a subscriber.
THEOREM ClientsAreServed == Spec => []PointerServed
<1>1. ASSUME MapInv PROVE PointerServed
  <2> SUFFICES ASSUME NEW c \in Clients, Idle(c), pointer[c] # None
               PROVE /\ synced[c] \in Threads
                     /\ feeds[synced[c]] = pointer[c]
                     /\ loop[pointer[c]] \in {"select", "answer"}
                     /\ c \in subscribed[pointer[c]]
    BY DEF PointerServed
  <2>1. /\ synced[c] \in Threads
        /\ feeds[synced[c]] = pointer[c]
        /\ c \in subscribed[pointer[c]]
    BY <1>1 DEF MapInv, Pointers, Settled, Idle
  <2>2. pointer[c] \in Loops
    BY <1>1 DEF MapInv, TypeOK
  <2> QED BY <1>1, <2>1, <2>2 DEF MapInv, TypeOK, Vacant
<1> QED BY <1>1, MapInvHolds, PTL

\* A loop runs exactly while the map has it, under one key; and between changes
\* each that runs has a subscriber who is synced to its thread or watches.
THEOREM MapsAgree == Spec => []MapsHold
<1>1. ASSUME MapInv PROVE MapsHold
  <2> SUFFICES ASSUME writer = None, NEW k \in Keys, feeds[k] # None,
                      loop[feeds[k]] # "dead"
               PROVE /\ subscribed[feeds[k]] # {}
                     /\ k # TV => \A c \in subscribed[feeds[k]] :
                                     from[c] = k \/ synced[c] = k
    BY <1>1 DEF MapsHold, MapInv, NoFeedForNobody
  <2>1. \A c \in Clients : pc[c] \notin Critical
    BY <1>1, FeedMapAssumption DEF MapInv, Locking
  <2>2. subscribed[feeds[k]] # {}
    BY <1>1, <2>1 DEF MapInv, Peopled, Critical, Awaits, Joins
  <2>3. subscribed[feeds[k]] \subseteq Clients
    BY <1>1 DEF MapInv, TypeOK
  <2>4. ASSUME k # TV, NEW c \in subscribed[feeds[k]] PROVE from[c] = k \/ synced[c] = k
    BY <1>1, <2>3, <2>4 DEF MapInv, Subscribed, Keys
  <2> QED BY <2>2, <2>4
<1> QED BY <1>1, MapInvHolds, PTL

\* The loop of a feed can take what comes on its channels; only a feed whose
\* start has failed never does
Takes(k) == loop[feeds[k]] \in IF StartFails THEN {"select", "dead"} ELSE {"select"}

\* Whoever waits at a channel of a feed finds the loop of a feed of the map at
\* the other end, ready to take what it sends or to answer; a client that edits
\* may find it at an answer to the listener that holds the lock.
ChannelsAnswer ==
    /\ \A c \in Clients :
         /\ pc[c] = "quitThread" /\ from[c] # Board /\ feeds[from[c]] # None =>
                Takes(from[c])
         /\ pc[c] = "quitTV" /\ feeds[TV] # None => Takes(TV)
         /\ Awaits(c) => loop[feeds[Awaited(c)]] = "answer"
         /\ Joins(c) => Takes(Joined(c))
         /\ pc[c] = "send" =>
                \/ loop[pointer[c]] = "select"
                \/ \E d \in Clients : Awaits(d) /\ feeds[Awaited(d)] = pointer[c]
    /\ \A s \in Senders : sending[s] # None => Takes(sending[s])

\* The goroutines never wait for one another in a circle: the holder of the lock
\* and every sender wait for a loop, and a loop that does not take anything waits
\* for the holder of the lock, who is there to listen.  What CallsReturn needs
\* besides is fairness.
THEOREM NoCircularWait == Spec => []ChannelsAnswer
<1>1. ASSUME MapInv PROVE ChannelsAnswer
  <2> USE FeedMapAssumption DEF Keys, Pages
  <2>1. ASSUME NEW k \in Keys, feeds[k] # None,
               \A c \in Clients : Awaits(c) => Awaited(c) # k
        PROVE Takes(k)
    <3>1. feeds[k] \in Loops /\ loop[feeds[k]] # "stopped"
      BY <1>1, <2>1 DEF MapInv, TypeOK, LoopsAreMapped
    <3>2. \A c \in Clients : Awaits(c) => Awaited(c) \in Keys
      BY <1>1 DEF MapInv, Purpose, Awaits, Awaited
    <3>3. loop[feeds[k]] # "answer"
      BY <1>1, <2>1, <3>1, <3>2 DEF MapInv, Answering, LoopsAreMapped
    <3> QED BY <1>1, <3>1, <3>3 DEF MapInv, TypeOK, Deaths, Takes
  <2>2. ASSUME NEW c \in Clients, pc[c] \in {"quitThread", "quitTV", "join", "joinTV"}
        PROVE \A d \in Clients : ~Awaits(d)
    BY <1>1, <2>2 DEF MapInv, Locking, Critical, Awaits
  <2>3. ASSUME NEW c \in Clients, pc[c] = "quitThread", from[c] # Board,
               feeds[from[c]] # None
        PROVE Takes(from[c])
    BY <1>1, <2>1, <2>2, <2>3 DEF MapInv, Purpose, Leaving
  <2>4. ASSUME NEW c \in Clients, pc[c] = "quitTV", feeds[TV] # None
        PROVE Takes(TV)
    BY <2>1, <2>2, <2>4
  <2>5. ASSUME NEW c \in Clients, Awaits(c)
        PROVE loop[feeds[Awaited(c)]] = "answer"
    <3>1. feeds[Awaited(c)] \in Loops
      BY <1>1, <2>5 DEF MapInv, TypeOK, Purpose, Awaits, Awaited
    <3> QED BY <1>1, <2>5, <3>1 DEF MapInv, Answering
  <2>6. ASSUME NEW c \in Clients, Joins(c)
        PROVE Takes(Joined(c))
    <3>1. Joined(c) \in Keys /\ feeds[Joined(c)] # None
      BY <1>1, <2>6 DEF MapInv, Purpose, Joins, Joined
    <3> QED BY <2>1, <2>2, <2>6, <3>1 DEF Joins
  <2>7. ASSUME NEW c \in Clients, pc[c] = "send"
        PROVE \/ loop[pointer[c]] = "select"
              \/ \E d \in Clients : Awaits(d) /\ feeds[Awaited(d)] = pointer[c]
    <3>1. pointer[c] \in Loops /\ c \in subscribed[pointer[c]]
      BY <1>1, <2>7 DEF MapInv, TypeOK, Pointers, Settled
    <3> QED BY <1>1, <3>1 DEF MapInv, TypeOK, Vacant, Answering
  <2>8. ASSUME NEW s \in Senders, sending[s] # None PROVE Takes(sending[s])
    <3>1. writer = None /\ sending[s] \in Keys /\ feeds[sending[s]] # None
      BY <1>1, <2>8 DEF MapInv, TypeOK, Locking, Sending
    <3>2. \A c \in Clients : ~Awaits(c)
      BY <1>1, <3>1 DEF MapInv, Locking, Critical, Awaits
    <3> QED BY <2>1, <3>1, <3>2
  <2> QED BY <2>3, <2>4, <2>5, <2>6, <2>7, <2>8 DEF ChannelsAnswer
<1> QED BY <1>1, MapInvHolds, PTL

\* The feeds keep the promise of FeedSubscriptions: through locks, lookups,
\* rendezvous and the reuse of Feed objects, a client enters a thread's feed as
\* a member of no other, and leaves only by quitting.
THEOREM FeedsImplementSubscriptions == Spec => ImplementsSubscriptions
<1>1. Init => Subscriptions!Init
  BY DEF Init, Subscriptions!Init, Subscriptions!Feeds, Keys
<1>2. ASSUME MapInv, [Next]_vars
      PROVE [Subscriptions!Next]_[k \in Keys |-> IF feeds[k] = None THEN {}
                                                 ELSE subscribed[feeds[k]]]
  BY <1>2, StepIsStep DEF Members
<1> QED BY <1>1, <1>2, MapInvHolds, PTL
        DEF Spec, ImplementsSubscriptions, Subscriptions!Spec
=============================================================================

------------------------------- MODULE OpenPost -------------------------------
(***************************************************************************)
(* The life of an open post over the stores that hold its text: the row in *)
(* SQL, the body in BoltDB while the post is open (db/open_posts.go), the  *)
(* copy its owner's client writes to (websockets/open_post.go) and the     *)
(* mirror of the thread's feed.  No transaction spans two of them.         *)
(*                                                                         *)
(* Owners create, edit, close and reclaim posts; every minute the upkeep   *)
(* closes posts left open, and every hour it deletes bodies of posts that  *)
(* are no longer open; the server may crash.  One action per step that     *)
(* another goroutine can see.  Moderation is in ThreadFeed.                *)
(***************************************************************************)
EXTENDS Integers, FiniteSets

CONSTANTS
    Clients,        \* connections synced to the thread at some time
    Owners,         \* those of them that write posts
    Posts,          \* posts of one thread
    Texts, Empty,   \* texts of a post, and the empty one
    Dangling,       \* age above which the upkeep closes: 15 minutes
    EditLimit,      \* age up to which an owner may edit: 29 minutes
    MaxCrashes,     \* bound: crashes of the server
    Cleaner, None

ASSUME OpenPostAssumption ==
    /\ Empty \in Texts
    /\ Dangling \in Nat /\ EditLimit \in Nat /\ MaxCrashes \in Nat
    /\ Cleaner \notin Clients /\ Owners \subseteq Clients
    /\ None \notin Posts \cup Texts \cup Clients
    /\ None \notin [closed : BOOLEAN, text : Texts]

VARIABLES
    row,            \* the posts table: state and body
    age,            \* age of a post, up to the first that forbids edits
    bolt,           \* bucket open_bodies
    own,            \* Client.post: the post a client owns, and its text
    online,         \* clients synced to the thread; its feed runs for them
    mirror,         \* threadCache.Recent of the feed
    starting,       \* client that starts the feed, holding feeds.mu
    task,           \* what a client or the upkeep is in the middle of
    sweep,          \* bodies the hourly upkeep found
    overlapped,     \* posts two goroutines changed at once
    crashes

vars == <<row, age, bolt, own, online, mirror, starting, task, sweep,
          overlapped, crashes>>

Workers == Clients \cup {Cleaner}
NoTask == [step |-> "idle", post |-> None, text |-> Empty, late |-> FALSE]
NoPost == [post |-> None, text |-> Empty]

TypeOK ==
    /\ row \in [Posts -> [state : {"none", "open", "closed"}, body : Texts]]
    /\ age \in [Posts -> 0..EditLimit + 1]
    /\ bolt \in [Posts -> Texts \cup {None}]
    /\ own \in [Clients -> [post : Posts \cup {None}, text : Texts]]
    /\ online \subseteq Clients
    /\ mirror \in [Posts -> [closed : BOOLEAN, text : Texts] \cup {None}]
    /\ starting \in [client : Clients \cup {None},
                     rows : [Posts -> {"none", "open", "closed"}]]
    /\ task \in [Workers -> [step : {"idle", "store", "announce", "save",
                                     "load", "commit", "tell", "forget"},
                             post : Posts \cup {None}, text : Texts,
                             late : BOOLEAN]]
    /\ sweep \in SUBSET Posts
    /\ overlapped \in SUBSET Posts
    /\ crashes \in 0..MaxCrashes

NotStarting == [client |-> None, rows |-> [p \in Posts |-> "none"]]

Init ==
    /\ row = [p \in Posts |-> [state |-> "none", body |-> Empty]]
    /\ age = [p \in Posts |-> 0]
    /\ bolt = [p \in Posts |-> None]
    /\ own = [c \in Clients |-> NoPost]
    /\ online = {}
    /\ mirror = [p \in Posts |-> None]
    /\ starting = NotStarting
    /\ task = [w \in Workers |-> NoTask]
    /\ sweep = {}
    /\ overlapped = {}
    /\ crashes = 0

-----------------------------------------------------------------------------
Step(w) == task[w].step
FeedFree == starting.client = None
FeedRuns == online # {}

\* An owner whose listener is at its select.
Ready(c) == c \in online \cap Owners /\ Step(c) = "idle"

Do(w, step, p, text) ==
    task' = [task EXCEPT ![w] = [step |-> step, post |-> p, text |-> text,
                                 late |-> @.late]]
Done(w) == task' = [task EXCEPT ![w] = NoTask]

Open(text) == [closed |-> FALSE, text |-> text]

\* Who else owns the post or is in the middle of changing it.
Others(w, p) == {v \in Workers \ {w} : \/ task[v].post = p
                                       \/ v \in Clients /\ own[v].post = p}
MarkOverlap(w, p) ==
    overlapped' = IF Others(w, p) = {} THEN overlapped
                                       ELSE overlapped \cup {p}

-----------------------------------------------------------------------------
(* Connections and the start of the feed.                                  *)

\* The first client starts the feed: GetThread reads the rows, then the
\* bodies of the open ones.
StartFeed(c) ==
    /\ c \notin online /\ FeedFree /\ ~FeedRuns
    /\ starting' = [client |-> c, rows |-> [p \in Posts |-> row[p].state]]
    /\ UNCHANGED <<row, age, bolt, own, online, mirror, task, sweep,
                   overlapped, crashes>>

\* Mutant of BoltText: a missing key is not told from a text.
BoltRaw(p) == bolt[p]
\* Bolt gives no text for a key it does not have.
BoltText(p) == IF bolt[p] = None THEN Empty ELSE bolt[p]

FeedStarted ==
    /\ ~FeedFree
    /\ mirror' = [p \in Posts |->
         CASE starting.rows[p] = "none"   -> None
           [] starting.rows[p] = "open"   -> Open(BoltText(p))
           [] starting.rows[p] = "closed" -> [closed |-> TRUE,
                                              text |-> row[p].body]]
    /\ online' = {starting.client}
    /\ starting' = NotStarting
    /\ UNCHANGED <<row, age, bolt, own, task, sweep, overlapped, crashes>>

Join(c) ==
    /\ c \notin online /\ FeedFree /\ FeedRuns
    /\ online' = online \cup {c}
    /\ UNCHANGED <<row, age, bolt, own, mirror, starting, task, sweep,
                   overlapped, crashes>>

\* The post of a client that leaves stays open.  A connection also ends when
\* the ID of a new post cannot be sent to it, before its body is stored.
Leave(c) ==
    /\ c \in online /\ FeedFree
    /\ Step(c) \in {"idle", "store"}
    /\ online' = online \ {c}
    /\ own' = [own EXCEPT ![c] = NoPost]
    /\ mirror' = IF online' = {} THEN [p \in Posts |-> None] ELSE mirror
    /\ Done(c)
    /\ UNCHANGED <<row, age, bolt, starting, sweep, overlapped, crashes>>

-----------------------------------------------------------------------------
(* The owner.                                                              *)

\* insertPost: the row is committed, the ID sent, the body stored and only
\* then the feed told.
Create(c, p, text) ==
    /\ Ready(c) /\ own[c] = NoPost
    /\ row[p].state = "none" /\ text # Empty
    /\ row' = [row EXCEPT ![p] = [state |-> "open", body |-> text]]
    /\ Do(c, "store", p, text)
    /\ UNCHANGED <<age, bolt, own, online, mirror, starting, sweep,
                   overlapped, crashes>>

Store(c) ==
    LET t == task[c] IN
    /\ t.step = "store"
    /\ bolt' = [bolt EXCEPT ![t.post] = t.text]
    /\ own' = [own EXCEPT ![c] = [post |-> t.post, text |-> t.text]]
    /\ Do(c, "announce", t.post, t.text)
    /\ UNCHANGED <<row, age, online, mirror, starting, sweep, overlapped,
                   crashes>>

Announce(c) ==
    LET t == task[c] IN
    /\ t.step = "announce"
    /\ mirror' = [mirror EXCEPT ![t.post] = Open(t.text)]
    /\ Done(c)
    /\ UNCHANGED <<row, age, bolt, own, online, starting, sweep, overlapped,
                   crashes>>

\* updateBody: the owner's copy and the feed, then the store.
Edit(c, text) ==
    LET p == own[c].post IN
    /\ Ready(c) /\ p # None
    /\ age[p] <= EditLimit
    /\ text # own[c].text
    /\ own' = [own EXCEPT ![c].text = text]
    /\ mirror' = [mirror EXCEPT ![p] =
         IF @ = None THEN Open(text) ELSE [@ EXCEPT !.text = text]]
    /\ Do(c, "save", p, text)
    /\ MarkOverlap(c, p)
    /\ UNCHANGED <<row, age, bolt, online, starting, sweep, crashes>>

\* Mutant of Save: the text is stored only when the post is closed.
SaveNothing(c) ==
    /\ task[c].step = "save"
    /\ Done(c)
    /\ UNCHANGED <<row, age, bolt, own, online, mirror, starting, sweep,
                   overlapped, crashes>>

Save(c) ==
    LET t == task[c] IN
    /\ t.step = "save"
    /\ bolt' = [bolt EXCEPT ![t.post] = t.text]
    /\ Done(c)
    /\ UNCHANGED <<row, age, own, online, mirror, starting, sweep, overlapped,
                   crashes>>

\* closePost, also where an edit comes too late.
Close(c) ==
    /\ Ready(c) /\ own[c].post # None
    /\ Do(c, "commit", own[c].post, own[c].text)
    /\ UNCHANGED <<row, age, bolt, own, online, mirror, starting, sweep,
                   overlapped, crashes>>

\* reclaimPost: the row must be open; its body is read afterwards.
Reclaim(c, p) ==
    /\ Ready(c) /\ own[c] = NoPost
    /\ row[p].state = "open"
    /\ Do(c, "load", p, Empty)
    /\ MarkOverlap(c, p)
    /\ UNCHANGED <<row, age, bolt, own, online, mirror, starting, sweep,
                   crashes>>

\* GetPost's second read, and the insertion into the feed.
Load(c) ==
    LET p == task[c].post IN
    /\ Step(c) = "load"
    /\ own' = [own EXCEPT ![c] = [post |-> p, text |-> BoltText(p)]]
    /\ mirror' = [mirror EXCEPT ![p] = Open(BoltText(p))]
    /\ Done(c)
    /\ MarkOverlap(c, p)
    /\ UNCHANGED <<row, age, bolt, online, starting, sweep, crashes>>

-----------------------------------------------------------------------------
(* db.ClosePost, by an owner or by the upkeep.                             *)

\* The update is not conditional on the post being open.
Commit(w) ==
    LET t == task[w] IN
    /\ t.step = "commit"
    /\ row' = [row EXCEPT ![t.post] = [state |-> "closed", body |-> t.text]]
    /\ Do(w, "tell", t.post, t.text)
    /\ MarkOverlap(w, t.post)
    /\ UNCHANGED <<age, bolt, own, online, mirror, starting, sweep, crashes>>

\* Mutant of Tell: the feed is not waited for while it starts.
TellAtOnce(w) ==
    LET p == task[w].post IN
    /\ Step(w) = "tell"
    /\ mirror' = IF mirror[p] = None THEN mirror
                 ELSE [mirror EXCEPT ![p].closed = TRUE]
    /\ Do(w, "forget", p, task[w].text)
    /\ UNCHANGED <<row, age, bolt, own, online, starting, sweep, overlapped,
                   crashes>>

\* common.ClosePost, which waits for a feed that is being started.
Tell(w) ==
    LET p == task[w].post IN
    /\ Step(w) = "tell" /\ FeedFree
    /\ mirror' =
         IF ~FeedRuns THEN mirror
         ELSE [mirror EXCEPT ![p] =
                 IF @ = None THEN [closed |-> TRUE, text |-> Empty]
                             ELSE [@ EXCEPT !.closed = TRUE]]
    /\ Do(w, "forget", p, task[w].text)
    /\ UNCHANGED <<row, age, bolt, own, online, starting, sweep, overlapped,
                   crashes>>

Forget(w) ==
    /\ Step(w) = "forget"
    /\ bolt' = [bolt EXCEPT ![task[w].post] = None]
    /\ own' = [c \in Clients |-> IF c = w THEN NoPost ELSE own[c]]
    /\ Done(w)
    /\ UNCHANGED <<row, age, online, mirror, starting, sweep, overlapped,
                   crashes>>

-----------------------------------------------------------------------------
(* Upkeep.                                                                 *)

\* Mutant of Dangles: posts no client has written to are passed over.
DanglesWritten(p) ==
    row[p].state = "open" /\ age[p] > Dangling /\ bolt[p] # None

\* The query of closeDanglingPosts.
Dangles(p) == row[p].state = "open" /\ age[p] > Dangling

\* The minutely and the hourly upkeep take turns on one goroutine.
UpkeepIdle == Step(Cleaner) = "idle" /\ sweep = {}

\* Its loop, one post at a time: the query, then the body, then ClosePost.
CleanUp(p) ==
    /\ UpkeepIdle
    /\ Dangles(p)
    /\ Do(Cleaner, "load", p, Empty)
    /\ MarkOverlap(Cleaner, p)
    /\ UNCHANGED <<row, age, bolt, own, online, mirror, starting, sweep,
                   crashes>>

ReadBody ==
    LET p == task[Cleaner].post IN
    /\ Step(Cleaner) = "load"
    /\ Do(Cleaner, "commit", p, BoltText(p))
    /\ MarkOverlap(Cleaner, p)
    /\ UNCHANGED <<row, age, bolt, own, online, mirror, starting, sweep,
                   crashes>>

\* cleanUpOpenPostBodies: the keys of the bucket, then the rows of the posts.
Sweep ==
    /\ UpkeepIdle
    /\ sweep' = {p \in Posts : bolt[p] # None}
    /\ sweep' # {}
    /\ UNCHANGED <<row, age, bolt, own, online, mirror, starting, task,
                   overlapped, crashes>>

\* Mutant of Swept: only bodies of posts that do not exist are deleted.
SweptMissing == {p \in sweep : row[p].state = "none"}
Swept == {p \in sweep : row[p].state # "open"}

SweepDone ==
    /\ sweep # {}
    /\ bolt' = [p \in Posts |-> IF p \in Swept THEN None ELSE bolt[p]]
    /\ sweep' = {}
    /\ UNCHANGED <<row, age, own, online, mirror, starting, task, overlapped,
                   crashes>>

-----------------------------------------------------------------------------
\* A unit of age is many minutes: no call is still going on at the second
\* tick after its start.
Clock ==
    /\ \A w \in Workers : ~task[w].late
    /\ age' = [p \in Posts |-> IF row[p].state = "none" \/ age[p] > EditLimit
                               THEN age[p] ELSE age[p] + 1]
    /\ age' # age
    /\ task' = [w \in Workers |-> [task[w] EXCEPT !.late = Step(w) # "idle"]]
    /\ UNCHANGED <<row, bolt, own, online, mirror, starting, sweep, overlapped,
                   crashes>>

\* Only the two stores survive.
Crash ==
    /\ crashes < MaxCrashes
    /\ crashes' = crashes + 1
    /\ own' = [c \in Clients |-> NoPost]
    /\ online' = {}
    /\ mirror' = [p \in Posts |-> None]
    /\ starting' = NotStarting
    /\ task' = [w \in Workers |-> NoTask]
    /\ sweep' = {}
    /\ UNCHANGED <<row, age, bolt, overlapped>>

Proceed(w) ==
    \/ w \in Clients /\ (Store(w) \/ Announce(w) \/ Save(w) \/ Load(w))
    \/ w = Cleaner /\ ReadBody
    \/ Commit(w) \/ Tell(w) \/ Forget(w)

Next ==
    \/ \E c \in Clients :
         \/ StartFeed(c) \/ Join(c) \/ Leave(c) \/ Close(c)
         \/ \E p \in Posts : Reclaim(c, p)
         \/ \E p \in Posts, text \in Texts : Create(c, p, text)
         \/ \E text \in Texts : Edit(c, text)
    \/ FeedStarted
    \/ \E w \in Workers : Proceed(w)
    \/ \E p \in Posts : CleanUp(p)
    \/ Sweep \/ SweepDone
    \/ Clock
    \/ Crash

\* Goroutines in the middle of a call go on (one that waits for feeds.mu gets
\* it in the end), time passes, and the upkeep comes round to every post.
Spec ==
    /\ Init /\ [][Next]_vars
    /\ \A w \in Workers : SF_vars(Proceed(w))
    /\ WF_vars(FeedStarted)
    /\ \A p \in Posts : SF_vars(CleanUp(p))
    /\ SF_vars(Sweep) /\ WF_vars(SweepDone)
    /\ WF_vars(Clock)

-----------------------------------------------------------------------------
(* Properties.                                                             *)

Quiet(p) == \A w \in Workers : task[w].post # p

\* What an owner has typed survives a crash: between its edits the text of an
\* open post is in the store, whatever the upkeep deletes meanwhile.
TypedTextIsStored ==
    \A c \in Clients :
        LET p == own[c].post IN
        p # None /\ Quiet(p) /\ p \notin overlapped /\ row[p].state = "open"
          => BoltText(p) = own[c].text

\* The feed tells of a post what the stores hold, also when it started in the
\* middle of a close by the upkeep: GetThread's two reads are not atomic, and
\* it is the order of the steps of ClosePost and the lock that save them.
MirrorAgreesWithStores ==
    \A p \in Posts :
        FeedRuns /\ FeedFree /\ Quiet(p) /\ mirror[p] # None
        /\ p \notin overlapped
          => /\ mirror[p].closed <=> row[p].state = "closed"
             /\ mirror[p].text = IF mirror[p].closed THEN row[p].body
                                                     ELSE BoltText(p)

\* The stores, the owners and the mirror agree on the text of open posts
TextsHold == TypeOK /\ TypedTextIsStored /\ MirrorAgreesWithStores

\* No post stays open for good, whether its owner forgot it, left, never got
\* its ID or the server crashed.
OpenPostsClose ==
    \A p \in Posts : (row[p].state = "open") ~> (row[p].state = "closed")

\* No body of a closed post stays in the store for good.
BodiesAreSwept ==
    \A p \in Posts : (row[p].state = "closed") ~> (bolt[p] = None)

\* ClosePost "closes an open post and commits any links" (db/post_updates.go:9):
\* the text of a post that is closed already is not overwritten.
ClosedTextStays ==
    [][\A p \in Posts : row[p].state = "closed" =>
                            row'[p].body = row[p].body]_vars
=============================================================================

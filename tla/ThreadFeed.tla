------------------------------ MODULE ThreadFeed ------------------------------
(***************************************************************************)
(* The update feed of one thread (websockets/feeds): a goroutine that      *)
(* mirrors the recent posts of the thread, buffers the messages produced   *)
(* by every change and flushes them, ten times a second, to its            *)
(* subscribers.  A subscriber first receives a snapshot of the mirror and  *)
(* then every flush.                                                       *)
(*                                                                         *)
(* One action per case of the select loop (feed.go:86-181), plus the       *)
(* creation of the feed on its first subscription (feeds.go:35-69) and the *)
(* clock.  Channels of the feed are unbuffered, so the send of a caller    *)
(* and the case that serves it are one step.  What the feed sends is       *)
(* memoized' in AddToFeed and buffer in Flush; FeedReplica composes the    *)
(* feed with the send queues and the browsers that take it.                *)
(*                                                                         *)
(* post[p] is the post as its row in the database and its owner's memory   *)
(* have it.  The feed reads it when it starts; afterwards it is what the   *)
(* mirror is compared with.                                                *)
(***************************************************************************)
EXTENDS Integers, Sequences, FiniteSets

CONSTANTS
    Clients,        \* connected websocket clients
    Posts,          \* posts of the thread
    OP,             \* the post that opens it
    Chars,          \* characters a body is made of
    IPs, IP,        \* addresses, and the address of every client
    TextOnly,       \* the board takes no images
    Retention,      \* the mirror's retention: 16 minutes in the code
    EditLimit,      \* age up to which an owner may edit: 29 minutes
    MaxTime,        \* bound: last instant of the clock
    MaxLenBody,     \* longest body: 2000 characters in the code
    MaxBuffer,      \* bound: messages buffered before a change adds its own
    MaxMods,        \* bound: moderation entries of all posts
    Moderations,    \* bound: what moderators do
    Absent          \* marks a post the mirror has no entry for

\* common.ModerationAction values that concern the mirror.
ModActions == {"deletePost", "deleteImage", "spoilerImage", "purgePost"}

\* cachedPost
CachedPost == [HasImage : BOOLEAN, Spoilered : BOOLEAN, Closed : BOOLEAN,
               Time : Nat, Body : Seq(Chars)]

\* The parameters are what the actions take them for.
ASSUME ConstantsAssumption ==
    /\ IsFiniteSet(Clients)
    /\ OP \in Posts
    /\ IP \in [Clients -> IPs]
    /\ TextOnly \in BOOLEAN
    /\ Retention \in Nat
    /\ EditLimit \in Nat
    /\ MaxTime \in Nat
    /\ MaxLenBody \in Nat
    /\ MaxBuffer \in Nat
    /\ MaxMods \in Nat
    /\ Moderations \subseteq ModActions
    /\ Absent \notin CachedPost

\* The zero value a Go map read returns for a missing key.
ZeroPost == [HasImage |-> FALSE, Spoilered |-> FALSE, Closed |-> FALSE,
             Time |-> 0, Body |-> << >>]

\* A post in the database, with its owner's open body.
PostRow == [state : {"none", "open", "closed"}, image : BOOLEAN,
            spoiler : BOOLEAN, time : Nat, body : Seq(Chars),
            mods : Seq(ModActions)]

\* No such post yet.
NoRow == [state |-> "none", image |-> FALSE, spoiler |-> FALSE, time |-> 0,
          body |-> << >>, mods |-> << >>]

\* syncMessage: the content of a snapshot; a nil memoized one.
Snapshot == [recent : [Posts -> CachedPost \cup {Absent}],
             moderation : [Posts -> Seq(ModActions)]]
NoSnapshot == << >>

\* Messages, by the type under which common.EncodeMessage encodes them.
Message ==
    [type : {"append"}, id : Posts, char : Chars]
      \cup [type : {"backspace", "closePost", "spoiler"}, id : Posts]
      \cup [type : {"splice"}, id : Posts, start : Nat, len : Nat,
            text : Seq(Chars)]
      \cup [type : {"insertPost"}, id : Posts, post : CachedPost,
            mods : Seq(ModActions)]
      \cup [type : {"insertImage"}, id : Posts, spoilered : BOOLEAN]
      \cup [type : {"moderatePost"}, id : Posts, entry : ModActions]
      \cup [type : {"syncCount"}]

VARIABLES
    running,        \* the loop of Feed.Start runs and the feed is in the map
    members,        \* baseFeed.clients
    recent,         \* threadCache.Recent
    moderation,     \* threadCache.Moderation
    memoized,       \* threadCache.memoized
    buffer,         \* messageBuffer
    ticking,        \* ticker.C # nil
    lastSyncCount,  \* total of the last count broadcast
    now,            \* the clock
    post            \* the posts themselves

vars == <<running, members, recent, moderation, memoized, buffer, ticking,
          lastSyncCount, now, post>>

TypeOK ==
    /\ running \in BOOLEAN
    /\ members \subseteq Clients
    /\ recent \in [Posts -> CachedPost \cup {Absent}]
    /\ moderation \in [Posts -> Seq(ModActions)]
    /\ memoized \in Snapshot \cup {NoSnapshot}
    /\ buffer \in Seq(Message)
    /\ ticking \in BOOLEAN
    /\ lastSyncCount \in Nat
    /\ now \in Nat
    /\ post \in [Posts -> PostRow]

-----------------------------------------------------------------------------
(* Operators shared by the cases of the loop.                              *)

\* Mutant of Cached: the age of the post instead of its creation time.
CachedAge(r) == [HasImage |-> r.image, Spoilered |-> r.image /\ r.spoiler,
                 Closed |-> r.state = "closed", Time |-> r.time - now,
                 Body |-> r.body]

\* What newThreadCache and the insertPost case keep of a post.
Cached(r) == [HasImage |-> r.image, Spoilered |-> r.image /\ r.spoiler,
              Closed |-> r.state = "closed", Time |-> r.time, Body |-> r.body]

\* newThreadCache reads thread.Posts: the replies, never the OP.
LoadRecent == [p \in Posts |->
    IF p # OP /\ post[p].state # "none" /\ post[p].time > now - Retention
      THEN Cached(post[p]) ELSE Absent]

\* Mutant of LoadModeration: a new feed knows of no earlier moderation.
LoadNoModeration == [p \in Posts |-> << >>]
LoadModeration == [p \in Posts |-> IF p = OP THEN << >> ELSE post[p].mods]

Entry(p) == IF recent[p] = Absent THEN ZeroPost ELSE recent[p]

\* Mutant of Expired: the threshold without the retention.
ExpiredAtOnce(e) == e.Time < now
Expired(e) == e.Time < now - Retention

State(r, m) == [recent |-> r, moderation |-> m]

Total(ms) == Cardinality({IP[c] : c \in ms})

\* Mutants of SendIPCount: the message does not wake the ticker; the count is
\* taken before the subscriber comes or leaves.
SendIPCountAsleep(ms, b, t) ==
    /\ lastSyncCount' = Total(ms)
    /\ ticking' = t
    /\ buffer' = Append(b, [type |-> "syncCount"])
SendIPCountStale(ms, b, t) ==
    /\ lastSyncCount' = Total(members)
    /\ ticking' = TRUE
    /\ buffer' = Append(b, [type |-> "syncCount"])

(***************************************************************************)
(* sendIPCount.  The message carries the number of addresses and how many  *)
(* of them are active, which hangs on the wall clock and on the client of  *)
(* an address that Go's map order puts first: that number may differ from  *)
(* the last one at any time.  b is the buffer and t the ticker as the rest *)
(* of the case leaves them.                                                *)
(***************************************************************************)
SendIPCount(ms, b, t) ==
    /\ lastSyncCount' = Total(ms)
    /\ \/ /\ Total(ms) = lastSyncCount
          /\ buffer' = b
          /\ ticking' = t
       \/ /\ buffer' = Append(b, [type |-> "syncCount"])
          /\ ticking' = TRUE

Room == Len(buffer) <= MaxBuffer

\* Mutant of SetEntry: the memoized snapshot outlives the change.
SetEntryKeepMemoized(p, entry) ==
    /\ recent' = [recent EXCEPT ![p] = entry]
    /\ UNCHANGED memoized

\* modifyPost: the entry is written back and the memoized snapshot forgotten;
\* with a message, the ticker is woken and the message buffered.
SetEntry(p, entry) ==
    /\ recent' = [recent EXCEPT ![p] = entry]
    /\ memoized' = NoSnapshot

ModifyPost(p, entry, msg) ==
    /\ SetEntry(p, entry)
    /\ buffer' = Append(buffer, msg)
    /\ ticking' = TRUE
    /\ UNCHANGED <<moderation, lastSyncCount>>

\* sendIfExists: a change reaches the feed only if the thread has one.
IfRunning(change) ==
    IF running THEN Room /\ change
    ELSE UNCHANGED <<recent, moderation, memoized, buffer, ticking,
                     lastSyncCount>>

\* The values of a freshly allocated Feed.
ResetFeed ==
    /\ recent' = [p \in Posts |-> Absent]
    /\ moderation' = [p \in Posts |-> << >>]
    /\ memoized' = NoSnapshot
    /\ buffer' = << >>
    /\ ticking' = FALSE
    /\ lastSyncCount' = 0

-----------------------------------------------------------------------------
(* Subscription, flushing and eviction.                                    *)

\* The thread exists, with the closed post that opened it, and has no feed.
Init ==
    /\ running = FALSE
    /\ members = {}
    /\ recent = [p \in Posts |-> Absent]
    /\ moderation = [p \in Posts |-> << >>]
    /\ memoized = NoSnapshot
    /\ buffer = << >>
    /\ ticking = FALSE
    /\ lastSyncCount = 0
    /\ now = Retention + 1
    /\ post = [p \in Posts |->
         IF p = OP THEN [NoRow EXCEPT !.state = "closed", !.image = ~TextOnly,
                                      !.time = Retention + 1]
                   ELSE NoRow]

(***************************************************************************)
(* addToFeed and the add case: the first subscriber starts the feed from   *)
(* the database; every subscriber is sent the memoized snapshot, generated *)
(* if there is none, and the count follows in the buffer.                  *)
(***************************************************************************)
AddToFeed(c) ==
    /\ c \notin members
    /\ Room
    /\ running' = TRUE
    /\ members' = members \cup {c}
    /\ recent' = IF running THEN recent ELSE LoadRecent
    /\ moderation' = IF running THEN moderation ELSE LoadModeration
    /\ memoized' = IF memoized # NoSnapshot THEN memoized
                   ELSE State(recent', moderation')
    /\ SendIPCount(members', buffer, ticking \/ ~running)
    /\ UNCHANGED <<now, post>>

\* Mutant of LoopExits: one subscriber too many is given up.
LoopExitsEarly(left) == Cardinality(left) <= 1

\* removeClient: whether the loop exits, from the subscribers that are left.
LoopExits(left) == left = {}

\* removeFromFeed and the remove case: the loop exits with its last
\* subscriber, unflushed messages and all.
RemoveFromFeed(c) ==
    /\ c \in members
    /\ members' = members \ {c}
    /\ IF LoopExits(members')
         THEN running' = FALSE /\ ResetFeed
         ELSE /\ Room
              /\ SendIPCount(members', buffer, ticking)
              /\ UNCHANGED <<running, recent, moderation, memoized>>
    /\ UNCHANGED <<now, post>>

\* Mutant of Flush: the branches swapped.
FlushSwapped ==
    /\ running /\ ticking
    /\ ticking' = (buffer = << >>)
    /\ UNCHANGED <<running, members, recent, moderation, memoized, buffer,
                   lastSyncCount, now, post>>

\* The ticker case: send the buffer to all, or pause if there is nothing.
Flush ==
    /\ running /\ ticking
    /\ buffer' = << >>
    /\ ticking' = (buffer # << >>)
    /\ UNCHANGED <<running, members, recent, moderation, memoized,
                   lastSyncCount, now, post>>

\* threadCache.evict, once a minute.
Evict ==
    /\ running
    /\ recent' = [p \in Posts |->
         IF recent[p] # Absent /\ Expired(recent[p]) THEN Absent
                                                     ELSE recent[p]]
    /\ memoized' = NoSnapshot
    /\ UNCHANGED <<running, members, moderation, buffer, ticking,
                   lastSyncCount, now, post>>

Clock ==
    /\ now < MaxTime
    /\ now' = now + 1
    /\ UNCHANGED <<running, members, recent, moderation, memoized, buffer,
                   ticking, lastSyncCount, post>>

-----------------------------------------------------------------------------
(* Changes to posts.                                                       *)

\* Bodies a post can have: text of at most MaxLenBody characters.
Bodies == UNION {[1..n -> Chars] : n \in 0..MaxLenBody}

Editable(p) == post[p].state = "open" /\ now - post[p].time <= EditLimit

Logged(p, actions) == \E i \in DOMAIN post[p].mods : post[p].mods[i] \in actions
Deleted(p) == Logged(p, {"deletePost"})

(***************************************************************************)
(* A new reply: open, from a client of the feed, or closed, by an HTTP     *)
(* request that needs no feed (InsertPostInto).  The database deletes the  *)
(* post of a shadow-banned author on insertion.                            *)
(***************************************************************************)
InsertPost(p, row) ==
    /\ post[p].state = "none"
    /\ row.state = "open" => running
    /\ post' = [post EXCEPT ![p] = row]
    /\ IfRunning(
         /\ SetEntry(p, Cached(row))
         /\ moderation' = IF row.mods = << >> THEN moderation
                          ELSE [moderation EXCEPT ![p] = row.mods]
         /\ SendIPCount(members,
              Append(buffer, [type |-> "insertPost", id |-> p,
                              post |-> Cached(row), mods |-> row.mods]),
              TRUE))
    /\ UNCHANGED <<running, members, now>>

\* A post must have an image or at least one character.
NewRows == {r \in [state : {"open", "closed"}, image : BOOLEAN,
                   spoiler : BOOLEAN, time : {now}, body : Bodies,
                   mods : {<< >>, <<"deletePost">>}] :
              /\ r.image \/ r.body # << >>
              /\ r.image => ~TextOnly
              /\ r.spoiler => r.image
              /\ Len(r.body) <= 1}

\* reclaimPost: the open post is inserted again as the database has it, with
\* a nil message.
Reclaim(p) ==
    /\ running /\ Room
    /\ post[p].state = "open"
    /\ SetEntry(p, Cached(post[p]))
    /\ moderation' = IF Deleted(p)
                       THEN [moderation EXCEPT ![p] = post[p].mods]
                       ELSE moderation
    /\ SendIPCount(members, buffer, TRUE)
    /\ UNCHANGED post
    /\ UNCHANGED <<running, members, now>>

\* appendRune, backspace and spliceText, by what they make of the body.
SetOpenBody(p, body, msg) ==
    /\ running /\ Room
    /\ Editable(p)
    /\ post' = [post EXCEPT ![p].body = body]
    /\ ModifyPost(p, [Entry(p) EXCEPT !.Body = body], msg)
    /\ UNCHANGED <<running, members, now>>

AppendRune(p, ch) ==
    /\ Len(post[p].body) < MaxLenBody
    /\ SetOpenBody(p, Append(post[p].body, ch),
                   [type |-> "append", id |-> p, char |-> ch])

Backspace(p) ==
    /\ post[p].body # << >>
    /\ SetOpenBody(p, SubSeq(post[p].body, 1, Len(post[p].body) - 1),
                   [type |-> "backspace", id |-> p])

\* A text that would be too long loses its end, and the message then replaces
\* everything after start.
SpliceText(p, start, len, text) ==
    LET old == post[p].body
        end == text \o SubSeq(old, start + len + 1, Len(old))
        fits == start + Len(end) <= MaxLenBody
        kept == IF fits THEN end ELSE SubSeq(end, 1, MaxLenBody - start)
    IN
    /\ start + len <= Len(old)
    /\ len > 0 \/ text # << >>
    /\ SetOpenBody(p, SubSeq(old, 1, start) \o kept,
                   [type |-> "splice", id |-> p, start |-> start,
                    len |-> IF fits THEN len ELSE Len(old) - start,
                    text |-> IF fits THEN text ELSE kept])

InsertImage(p, spoiler) ==
    /\ running /\ Room
    /\ Editable(p)
    /\ ~TextOnly /\ ~post[p].image
    /\ post' = [post EXCEPT ![p].image = TRUE, ![p].spoiler = spoiler]
    /\ ModifyPost(p, [Entry(p) EXCEPT !.HasImage = TRUE, !.Spoilered = spoiler],
                  [type |-> "insertImage", id |-> p, spoilered |-> spoiler])
    /\ UNCHANGED <<running, members, now>>

\* The owner's hasImage flag survives the deletion of the image by a moderator.
\* Its isSpoilered flag is not set here, so the message may be repeated.
SpoilerImage(p) ==
    /\ running /\ Room
    /\ Editable(p)
    /\ post[p].image \/ Logged(p, {"deleteImage", "purgePost"})
    /\ post' = [post EXCEPT ![p].spoiler = TRUE]
    /\ ModifyPost(p, [Entry(p) EXCEPT !.Spoilered = TRUE],
                  [type |-> "spoiler", id |-> p])
    /\ UNCHANGED <<running, members, now>>

\* db.ClosePost, by the owner or by the cleanup of dangling posts.
ClosePost(p) ==
    /\ post[p].state = "open"
    /\ post' = [post EXCEPT ![p].state = "closed"]
    /\ IfRunning(ModifyPost(p, [Entry(p) EXCEPT !.Closed = TRUE],
                            [type |-> "closePost", id |-> p]))
    /\ UNCHANGED <<running, members, now>>

LoggedEntries == UNION {{p} \X DOMAIN post[p].mods : p \in Posts}

\* The row after a moderator's action: the text of an open post is not in the
\* posts table and stays.
ModeratedRow(r, action) ==
    LET logged == [r EXCEPT !.mods = Append(@, action)] IN
    CASE action = "deletePost"   -> logged
      [] action = "spoilerImage" -> [logged EXCEPT !.spoiler = TRUE]
      [] action = "deleteImage"  -> [logged EXCEPT !.image = FALSE]
      [] action = "purgePost"    ->
           [logged EXCEPT !.image = FALSE,
                          !.body = IF r.state = "closed" THEN << >> ELSE @]

ModeratedEntry(e, action) ==
    CASE action = "deletePost"   -> e
      [] action = "spoilerImage" -> [e EXCEPT !.Spoilered = TRUE]
      [] action = "deleteImage"  ->
           [e EXCEPT !.HasImage = FALSE, !.Spoilered = FALSE]
      [] action = "purgePost"    ->
           [e EXCEPT !.Body = << >>, !.HasImage = FALSE, !.Spoilered = FALSE]

(***************************************************************************)
(* A moderation committed to the database and, through its notification,   *)
(* applied by the feed.                                                    *)
(***************************************************************************)
ModeratePost(p, action) ==
    /\ post[p].state # "none"
    /\ Cardinality(LoggedEntries) < MaxMods
    /\ action = "deletePost" => ~Deleted(p)
    /\ action \in {"deleteImage", "spoilerImage"} => post[p].image
    /\ post' = [post EXCEPT ![p] = ModeratedRow(@, action)]
    /\ IfRunning(
         /\ SetEntry(p, ModeratedEntry(Entry(p), action))
         /\ moderation' = [moderation EXCEPT ![p] = Append(@, action)]
         /\ buffer' = Append(buffer, [type |-> "moderatePost", id |-> p,
                                      entry |-> action])
         /\ ticking' = TRUE
         /\ UNCHANGED lastSyncCount)
    /\ UNCHANGED <<running, members, now>>

-----------------------------------------------------------------------------
Subscribe == \E c \in Clients : AddToFeed(c)
Unsubscribe == \E c \in Clients : RemoveFromFeed(c)
Texts == {<< >>} \cup {<<ch>> : ch \in Chars}

ChangePost(p) ==
    \/ \E row \in NewRows : InsertPost(p, row)
    \/ Reclaim(p)
    \/ \E ch \in Chars : AppendRune(p, ch)
    \/ Backspace(p)
    \/ \E start, len \in 0..MaxLenBody, text \in Texts :
         SpliceText(p, start, len, text)
    \/ \E spoiler \in BOOLEAN : InsertImage(p, spoiler)
    \/ SpoilerImage(p)
    \/ ClosePost(p)
    \/ \E action \in Moderations : ModeratePost(p, action)

Next ==
    \/ Subscribe
    \/ Unsubscribe
    \/ Flush
    \/ Evict
    \/ Clock
    \/ \E p \in Posts : ChangePost(p)

Spec == Init /\ [][Next]_vars

-----------------------------------------------------------------------------
(* Properties.                                                             *)

\* The ticker never sleeps on buffered messages: modifyPost and bufferMessage
\* wake it, and only a tick that finds the buffer empty pauses it.
BufferedImpliesTicking == buffer # << >> => ticking

\* The loop runs exactly while it has subscribers, so the feed pointer of a
\* synced client is always served and no idle feed lingers in the map.
RunsIffSubscribed == running <=> members # {}

\* A memoized snapshot is the current state of the mirror: every case that
\* changes the mirror forgets it.
MemoizedIsCurrent ==
    memoized # NoSnapshot => memoized = State(recent, moderation)

\* What the mirror says of a post is what the database and the owner say.  A
\* moderated post is compared elsewhere: a purge empties the mirror's body
\* only, and a deletion leaves the owner's flags behind.
Mirrors(p) ==
    post[p].mods = << >> => recent[p] = Cached(post[p])

\* Whatever is inserted, edited, closed or evicted and however often the feed
\* stops and starts again, a reply younger than the retention is in the
\* mirror, exactly as it is.
FreshPostsMirrored ==
    running => \A p \in Posts \ {OP} :
        post[p].state # "none" /\ post[p].time > now - Retention
          => recent[p] # Absent /\ Mirrors(p)

\* The mirror's moderation log of a reply is the database's, in its order.
ModerationMirrored ==
    running => \A p \in Posts \ {OP} : moderation[p] = post[p].mods

\* The last count broadcast is that of the subscribers' addresses now.
CountIsCurrent == running => lastSyncCount = Total(members)

\* Messages buffered for the subscribers are flushed to them, or the feed has
\* closed: nothing waits for the next change to be seen.
BufferFlushed == (buffer # << >>) ~> (buffer = << >>)
=============================================================================

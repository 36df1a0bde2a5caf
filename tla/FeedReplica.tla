----------------------------- MODULE FeedReplica ------------------------------
(***************************************************************************)
(* A thread feed together with what takes its messages: the send queue of  *)
(* every client (websockets.go:230-237) and the page of every browser      *)
(* (client/client.ts, client/connection/synchronization.ts and             *)
(* client/posts/model.ts), which applies the snapshot and the messages to  *)
(* its own post models.  The queue stands for the whole path to the        *)
(* browser: it is FIFO, as is the websocket.                               *)
(*                                                                         *)
(* The browsers modelled are those of Readers.  The other clients, the     *)
(* owners of open posts among them, subscribe and leave all the same.      *)
(***************************************************************************)
EXTENDS ThreadFeed, SequencesExt

CONSTANTS
    Readers,    \* the clients whose queues and browsers are modelled
    MaxPage,    \* bound: longest body a page goes on from
    SendCap     \* capacity of a send queue: 600 frames in the code

\* A post model of the browser.
Model == [image : BOOLEAN, spoiler : BOOLEAN, editing : BOOLEAN,
          body : Seq(Chars), mods : Seq(ModActions)]

ASSUME ReplicaAssumption ==
    /\ Readers \subseteq Clients
    /\ MaxPage \in Nat
    /\ SendCap \in Nat \ {0}
    /\ Absent \notin Model

VARIABLES
    queue,      \* sendExternal of every client, up to its browser
    lost,       \* clients a frame was dropped for: Close has been called
    page,       \* the post models of every browser
    fetching    \* posts a browser has asked the JSON API for, by reason

browserVars == <<queue, lost, page, fetching>>
allVars == <<vars, browserVars>>

Frame == [kind : {"synchronise"}, state : Snapshot]
           \cup [kind : {"concat"}, msgs : Seq(Message)]

\* Why a post is fetched: it is missing from the page, and the body the
\* snapshot had for it; or it should be closed by now.
Fetch == [why : {"missing"}, body : Seq(Chars)] \cup [why : {"unclosed"}]
NoFetch == [why |-> "none"]

ReplicaTypeOK ==
    /\ queue \in [Readers -> Seq(Frame)]
    /\ \A c \in Readers : Len(queue[c]) <= SendCap
    /\ lost \subseteq Readers
    /\ page \in [Readers -> [Posts -> Model \cup {Absent}]]
    /\ fetching \in [Readers -> [Posts -> Fetch \cup {NoFetch}]]

-----------------------------------------------------------------------------
(* Sending.                                                                *)

\* Mutant of Full: one frame too many is taken.
FullLate(c) == Len(queue[c]) > SendCap
Full(c) == Len(queue[c]) >= SendCap

\* Client.Send, for each of the clients cs.
Send(cs, frame) ==
    /\ queue' = [c \in Readers |->
         IF c \in cs /\ ~Full(c) THEN Append(queue[c], frame) ELSE queue[c]]
    /\ lost' = lost \cup {c \in cs \cap Readers : Full(c)}

-----------------------------------------------------------------------------
(* The browser's handlers, on the models v of one page.                    *)

\* A post as the JSON API and the rendered page give it.
FromRow(r) == [image |-> r.image, spoiler |-> r.image /\ r.spoiler,
               editing |-> r.state = "open", body |-> r.body, mods |-> r.mods]

FromMessage(m) == [image |-> m.post.HasImage, spoiler |-> m.post.Spoilered,
                   editing |-> ~m.post.Closed, body |-> m.post.Body,
                   mods |-> m.mods]

\* Array.prototype.splice takes what there is.
Before(body, n) == SubSeq(body, 1, Min({n, Len(body)}))
After(body, n) == SubSeq(body, n + 1, Len(body))

\* Mutant of Spliced: the replaced text is kept.
SplicedInto(body, m) == Before(body, m.start) \o m.text \o After(body, m.start)

\* Post.spliceText
Spliced(body, m) ==
    Before(body, m.start) \o m.text \o After(body, m.start + m.len)

\* Post.applyModeration
Moderated(model, action) ==
    LET logged == [model EXCEPT !.mods = Append(@, action)] IN
    CASE action = "deletePost"   -> logged
      [] action = "deleteImage"  -> [logged EXCEPT !.image = FALSE,
                                                   !.spoiler = FALSE]
      [] action = "spoilerImage" -> [logged EXCEPT !.spoiler = logged.image]
      [] action = "purgePost"    -> [logged EXCEPT !.image = FALSE,
                                                   !.spoiler = FALSE,
                                                   !.body = << >>]

\* What a message does to the model of its post.
Updated(model, m) ==
    CASE m.type = "append"      -> [model EXCEPT !.body = Append(@, m.char)]
      [] m.type = "backspace"   -> [model EXCEPT !.body =
                                     SubSeq(@, 1, Len(@) - 1)]
      [] m.type = "splice"      -> [model EXCEPT !.body = Spliced(@, m)]
      [] m.type = "closePost"   -> [model EXCEPT !.editing = FALSE]
      [] m.type = "insertImage" -> [model EXCEPT !.image = TRUE,
                                                 !.spoiler = m.spoilered]
      [] m.type = "spoiler"     -> [model EXCEPT !.spoiler = TRUE]
      [] m.type = "moderatePost" -> Moderated(model, m.entry)

\* spoilerImage dereferences the image of a model without checking for one.
Throws(v, m) == /\ m.type = "spoiler"
                /\ v[m.id] # Absent /\ ~v[m.id].image

\* handle: a message for a post the page does not have is ignored, and so is
\* the insertion of one it has.
Handled(v, m) ==
    CASE m.type = "syncCount"  -> v
      [] m.type = "insertPost" ->
           IF v[m.id] = Absent THEN [v EXCEPT ![m.id] = FromMessage(m)] ELSE v
      [] OTHER ->
           IF v[m.id] = Absent THEN v
                               ELSE [v EXCEPT ![m.id] = Updated(@, m)]

\* onMessage on a concatenation: an exception abandons the messages after it.
Taken(acc, m) ==
    IF acc.thrown \/ Throws(acc.v, m) THEN [acc EXCEPT !.thrown = TRUE]
                                      ELSE [acc EXCEPT !.v = Handled(@, m)]

Handling(v, msgs) ==
    LET after[n \in 0..Len(msgs)] ==
          IF n = 0 THEN [v |-> v, thrown |-> FALSE]
                   ELSE Taken(after[n - 1], msgs[n])
    IN  after

HandledAll(v, msgs) == Handling(v, msgs)[Len(msgs)].v

\* syncRecentPost on a post the page has, as far as it runs at once.  The
\* field hash_image it tests does not exist, so no image is ever fetched; an
\* empty body is not taken over, and neither is closed.
SyncedRecent(model, p) ==
    [model EXCEPT !.spoiler = @ \/ (p.Spoilered /\ model.image),
                  !.body = IF p.Body # << >> THEN p.Body ELSE @]

\* The moderation log of the snapshot is applied anew if it is longer or
\* shorter than the model's.
Moderating(model, actions) ==
    LET after[n \in 0..Len(actions)] ==
          IF n = 0 THEN [model EXCEPT !.mods = << >>]
                   ELSE Moderated(after[n - 1], actions[n])
    IN  after

SyncedMods(model, actions) ==
    IF actions = << >> \/ Len(model.mods) = Len(actions) THEN model
    ELSE Moderating(model, actions)[Len(actions)]

\* Mutant of Synced: only posts of the snapshot have their log applied.
SyncedRecentOnly(v, s) ==
    [p \in Posts |->
       IF v[p] = Absent \/ s.recent[p] = Absent THEN v[p]
       ELSE SyncedMods(SyncedRecent(v[p], s.recent[p]), s.moderation[p])]

\* The handler of message.synchronise, up to the answers it awaits.
Synced(v, s) ==
    [p \in Posts |->
       IF v[p] = Absent THEN Absent
       ELSE LET m == IF s.recent[p] = Absent THEN v[p]
                     ELSE SyncedRecent(v[p], s.recent[p])
            IN  SyncedMods(m, s.moderation[p])]

\* The posts it fetches.
Missing(v, s, p) == v[p] = Absent /\ s.recent[p] # Absent
Unclosed(v, s, p) == /\ v[p] # Absent /\ s.recent[p] = Absent
                     /\ v[p].editing

Fetches(v, s, pending) ==
    [p \in Posts |->
       CASE Missing(v, s, p)  -> [why |-> "missing", body |-> s.recent[p].Body]
         [] Unclosed(v, s, p) -> [why |-> "unclosed"]
         [] OTHER             -> pending[p]]

\* The models of client c once it has handled everything sent and buffered.
Handle(v, frame) == IF frame.kind = "concat" THEN HandledAll(v, frame.msgs)
                                             ELSE Synced(v, frame.state)
Delivering(v, frames) ==
    LET after[n \in 0..Len(frames)] ==
          IF n = 0 THEN v ELSE Handle(after[n - 1], frames[n])
    IN  after

Delivered(v, frames) == Delivering(v, frames)[Len(frames)]
Eventually(c) == HandledAll(Delivered(page[c], queue[c]), buffer)

-----------------------------------------------------------------------------
(* Steps.                                                                  *)

\* The server renders a page, or serves the rows of one, from the database.
Rendered == [p \in Posts |-> IF post[p].state = "none" THEN Absent
                                                        ELSE FromRow(post[p])]

ReplicaInit ==
    /\ Init
    /\ queue = [c \in Readers |-> << >>]
    /\ lost = {}
    /\ page = [c \in Readers |-> Rendered]
    /\ fetching = [c \in Readers |-> [p \in Posts |-> NoFetch]]

\* A browser without a connection loads the page anew.
LoadPage(c) ==
    /\ c \notin members
    /\ page' = [page EXCEPT ![c] = Rendered]
    /\ fetching' = [fetching EXCEPT ![c] = [p \in Posts |-> NoFetch]]
    /\ UNCHANGED <<vars, queue, lost>>

\* A client subscribes and is sent the snapshot at once.
Join(c) ==
    /\ AddToFeed(c)
    /\ Send({c}, [kind |-> "synchronise", state |-> memoized'])
    /\ UNCHANGED <<page, fetching>>

\* A connection ends: what was queued for it is gone, the page stays.
Leave(c) ==
    /\ RemoveFromFeed(c)
    /\ queue' = [r \in Readers |-> IF r = c THEN << >> ELSE queue[r]]
    /\ lost' = lost \ {c}
    /\ UNCHANGED <<page, fetching>>

\* sendToAll with what flush returned.
Broadcast ==
    /\ Flush
    /\ IF buffer = << >>
         THEN UNCHANGED browserVars
         ELSE /\ Send(members, [kind |-> "concat", msgs |-> buffer])
              /\ UNCHANGED <<page, fetching>>

(***************************************************************************)
(* The browser's turn.  A browser that misses messages, after an overflow  *)
(* or because an emptied body of a snapshot is not taken over, can outgrow *)
(* the post: Legible is a bound, and ends its part there.                  *)
(***************************************************************************)
Legible(c) == \A p \in Posts : page[c][p] # Absent =>
                                Len(page[c][p].body) <= MaxPage

Receive(c) ==
    /\ queue[c] # << >>
    /\ Legible(c)
    /\ LET frame == Head(queue[c]) IN
       /\ page' = [page EXCEPT ![c] = Handle(@, frame)]
       /\ fetching' = IF frame.kind = "concat" THEN fetching
                      ELSE [fetching EXCEPT ![c] =
                              Fetches(page[c], frame.state, @)]
    /\ queue' = [queue EXCEPT ![c] = Tail(@)]
    /\ UNCHANGED <<vars, lost>>

(***************************************************************************)
(* The answer to a fetch.  A missing post is inserted, unless a message    *)
(* has done so, and given the body of the snapshot that asked for it; an   *)
(* unclosed one is overwritten, except for an image the answer lacks.      *)
(***************************************************************************)
Fetched(model, row, fetch) ==
    IF fetch.why = "missing"
      THEN LET m == IF model = Absent THEN FromRow(row) ELSE model
           IN  [m EXCEPT !.body = IF fetch.body # << >> THEN fetch.body ELSE @]
      ELSE [FromRow(row) EXCEPT !.image = @ \/ model.image]

Answer(c, p) ==
    /\ fetching[c][p] # NoFetch
    /\ page' = [page EXCEPT ![c][p] = Fetched(@, post[p], fetching[c][p])]
    /\ fetching' = [fetching EXCEPT ![c][p] = NoFetch]
    /\ UNCHANGED <<vars, queue, lost>>

ReplicaNext ==
    \/ \E c \in Clients : Join(c) \/ Leave(c)
    \/ \E c \in Readers : LoadPage(c) \/ Receive(c)
    \/ \E c \in Readers, p \in Posts : Answer(c, p)
    \/ Broadcast
    \/ (Evict \/ Clock \/ \E p \in Posts : ChangePost(p))
         /\ UNCHANGED browserVars

\* Fairness is that of the feed's own loop, which always comes back to its
\* select, where the runtime picks a ready ticker eventually.
ReplicaSpec == ReplicaInit /\ [][ReplicaNext]_allVars /\ WF_allVars(Broadcast)

-----------------------------------------------------------------------------
(* Properties.                                                             *)

\* Once everything sent and buffered is handled, the page of c shows p as the
\* feed mirrors it.
Agrees(c, p) ==
    LET model == Eventually(c)[p] IN
    \/ post[p].state = "none" /\ model = Absent
    \/ /\ recent[p] # Absent /\ model # Absent
       /\ model.body = recent[p].Body
       /\ model.editing = ~recent[p].Closed

\* A message on its way to c that may throw, and so abandon those after it
SpoilerSent(c) ==
    LET Has(msgs) == \E i \in DOMAIN msgs : msgs[i].type = "spoiler"
    IN  \/ Has(buffer)
        \/ \E i \in DOMAIN queue[c] : queue[c][i].kind = "concat" /\ Has(queue[c][i].msgs)

(***************************************************************************)
(* Agreement, once reached, lasts: no change, flush, delivery, eviction or *)
(* other client's coming and going makes the page of a subscriber differ   *)
(* from the mirror.  Excepted are clients being closed for a full queue,   *)
(* those sent a spoiler, which may throw, posts under a fetch, posts the   *)
(* mirror evicts or has evicted (a change then makes an entry out of the   *)
(* zero value), and purged posts, whose owner's next edit brings the       *)
(* purged text back into the mirror.                                       *)
(***************************************************************************)
Genuine(p) == recent[p] # Absent => recent[p].Time = post[p].time
Tracked(c, p) ==
    /\ c \in members
    /\ fetching[c][p] = NoFetch
    /\ Genuine(p)
    /\ ~Logged(p, {"purgePost"})
Evicted(p) == recent[p] # Absent /\ recent'[p] = Absent
AgreementKept ==
    [][\A c \in Readers, p \in Posts :
         Tracked(c, p) /\ Tracked(c, p)' /\ Agrees(c, p)
           /\ c \notin lost' /\ ~SpoilerSent(c)' /\ ~Evicted(p)
         => Agrees(c, p)']_allVars

\* Once everything sent is handled, every action in the mirror's log of p is
\* applied to the post on the page of c, if it has the post.
Reaches(c, p) ==
    moderation[p] # << >> =>
        LET model == Eventually(c)[p]
        IN  model # Absent => ToSet(moderation[p]) \subseteq ToSet(model.mods)

\* The log of a snapshot is compared with that of a page by its length, and is
\* mistaken for another as long.
Mistaken(c, p) ==
    /\ page[c][p] # Absent
    /\ Len(page[c][p].mods) = Len(moderation'[p])
    /\ page[c][p].mods # moderation'[p]

(***************************************************************************)
(* No reader goes on seeing what a moderator removes: every action reaches *)
(* the page of a subscriber and stays there, whether it comes as a         *)
(* message, in the snapshot, or with the row of a post fetched, and        *)
(* whatever order these come in.  Excepted are clients being closed for a  *)
(* full queue, those sent a spoiler, which may throw, and joins with       *)
(* another log as long as the mirror's.                                    *)
(***************************************************************************)
ModerationKept ==
    [][\A c \in (members' \cap Readers) \ lost', p \in Posts :
         ~Reaches(c, p)' => \/ SpoilerSent(c)'
                            \/ c \in members /\ (c \in lost \/ ~Reaches(c, p))
                            \/ c \notin members /\ Mistaken(c, p)]_allVars

(***************************************************************************)
(* cache.go:79: "Generate a message for synchronizing to the current       *)
(* status of the update feed. The client has to compare this state to it's *)
(* own and resolve any missing entries or conflicts": the actions in the   *)
(* mirror's log reach the page of every subscriber.                        *)
(***************************************************************************)
ModerationReaches ==
    \A c \in (members \cap Readers) \ lost, p \in Posts : Reaches(c, p)

(***************************************************************************)
(* What the snapshot is for (synchronization.ts:11: "Passed from the       *)
(* server to allow the client to synchronise state, before consuming any   *)
(* incoming update messages"): when a client joins with an open post on    *)
(* its page, the text it ends up with is the text of the mirror.           *)
(***************************************************************************)
JoinAgrees ==
    [][\A c \in Readers \cap (members' \ members), p \in Posts :
         /\ page[c][p] # Absent /\ page[c][p].editing
         /\ recent'[p] # Absent /\ recent'[p].Body # << >>
         /\ c \notin lost'
         => Eventually(c)'[p].body = recent'[p].Body]_allVars
=============================================================================

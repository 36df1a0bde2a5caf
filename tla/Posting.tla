------------------------------ MODULE Posting ------------------------------
(***************************************************************************)
(* Creation of posts, with what they say and the image they come with, and *)
(* the close of those that stay open: CreatePost, CreateThread, insertPost *)
(* (src/websockets/post_creation.go), the forms of src/server/             *)
(* post_creation.go, closePost (src/websockets/post_updates.go) and        *)
(* closeDanglingPosts (src/db/upkeep.go).  A post is a closed reply from a *)
(* form, an open reply from a websocket client, or a new thread, which has *)
(* a thread of its own.                                                    *)
(***************************************************************************)
EXTENDS Commands

ASSUME PostingAssumption == \A x \in PostBounds :
    /\ \A p \in DOMAIN x.posts :
          /\ p \in Post
          /\ x.posts[p].kind \in {"reply", "open", "thread"}
          /\ x.posts[p].upload \in Upload \cup {None}
    /\ x.pruned \in BOOLEAN

VARIABLES
    task,        \* Post -> how far its creation has come
    stored,      \* posts with a row in posts
    editing,     \* of those, the ones that are open
    feed,        \* posts announced to the clients of the thread
    lost,        \* history: posts whose row went with the thread
    refused,     \* posts whose author was told of an error
    withImage    \* history: posts stored with the image they came with

postVars == <<task, stored, editing, feed, lost, refused, withImage>>
vars == <<imageVars, commandVars, postVars>>

Init ==
    /\ ImagesInit /\ CommandsInit
    /\ task = [p \in Post |-> "idle"]
    /\ stored = {} /\ editing = {} /\ feed = {} /\ lost = {} /\ refused = {} /\ withImage = {}

KindOf(p) == bound.posts[p].kind
UploadOf(p) == bound.posts[p].upload
HasImage(p) == UploadOf(p) # None

Move(p, at) == task' = [task EXCEPT ![p] = at]

End(p) == Move(p, "ended") /\ refused' = refused \cup {p}

(***************************************************************************)
(* The request and its validation.                                         *)
(***************************************************************************)
\* parsePostCreationForm uploads the image itself; a websocket client has its token
\* from an upload, or none any more
Receive(p) ==
    /\ p \in DOMAIN bound.posts /\ task[p] = "idle"
    /\ HasImage(p) => upload[UploadOf(p)] \in {"answered", "failed", "unknown"}
    /\ IF HasImage(p) /\ upload[UploadOf(p)] # "answered" THEN End(p)
       ELSE Move(p, "received") /\ UNCHANGED refused
    /\ UNCHANGED <<imageVars, commandVars, stored, editing, feed, lost, withImage>>

\* constructPost parses the body of a post that is not open, before the post has an ID
ConstructPost(p) ==
    /\ task[p] = "received"
    /\ IF KindOf(p) = "open" THEN Move(p, "construct") /\ UNCHANGED cmd
       ELSE Move(p, "parsing") /\ StartParsing(p, FALSE)
    /\ UNCHANGED <<imageVars, row, own, banned, counted, together, releases, there, stored, editing,
                   feed, lost, refused, withImage>>

Parsed(p) ==
    /\ task[p] = "parsing" /\ cmd[p].at \in {"parsed", "failed"}
    /\ IF At(p, "failed") THEN End(p) ELSE Move(p, "construct") /\ UNCHANGED refused
    /\ UNCHANGED <<imageVars, commandVars, stored, editing, feed, lost, withImage>>

(***************************************************************************)
(* The transaction.                                                        *)
(***************************************************************************)
\* The transaction of CreatePost fails: EncodeMessage overwrites the error
FailTransaction(p) ==
    IF KindOf(p) = "thread" THEN End(p) ELSE Move(p, "created") /\ UNCHANGED refused

\* InsertPost or InsertThread
InsertPost(p) ==
    /\ task[p] = "construct"
    /\ IF there \/ KindOf(p) = "thread" THEN Move(p, "inserted") /\ UNCHANGED refused
       ELSE FailTransaction(p)
    /\ UNCHANGED <<imageVars, commandVars, stored, editing, feed, lost, withImage>>

\* Mutant of InsertImage: the error of an invalid token is not returned
InsertAnyImage(p) ==
    /\ task[p] = "inserted" /\ HasImage(p)
    /\ TokenFree(UploadOf(p))
    /\ user' = [user EXCEPT ![UploadOf(p)] = IF token[UploadOf(p)] = None THEN None ELSE p]
    /\ Move(p, "complete")
    /\ UNCHANGED <<refused, rowVars, files, upload, queue, cleanVars, failures, bound, commandVars,
                   stored, editing, feed, lost, withImage>>

\* insert_image deletes the token and writes its image into the row
InsertImage(p) ==
    /\ task[p] = "inserted" /\ HasImage(p)
    /\ TokenFree(UploadOf(p))
    /\ IF token[UploadOf(p)] = None THEN FailTransaction(p) /\ UNCHANGED user
       ELSE /\ user' = [user EXCEPT ![UploadOf(p)] = p]
            /\ Move(p, "complete") /\ UNCHANGED refused
    /\ UNCHANGED <<rowVars, files, upload, queue, cleanVars, failures, bound, commandVars,
                   stored, editing, feed, lost, withImage>>

\* The thread holds on to its row until the transactions that refer to it have
\* ended, and so does the image
CommitPost(p) ==
    /\ task[p] \in {"inserted", "complete"}
    /\ task[p] = "inserted" => ~HasImage(p)
    /\ holds' = [holds EXCEPT ![p] = IF HasImage(p) THEN token[UploadOf(p)] ELSE None]
    /\ token' = [u \in Upload |-> IF user[u] = p THEN None ELSE token[u]]
    /\ withImage' = IF HasImage(p) THEN withImage \cup {p} ELSE withImage
    /\ user' = [u \in Upload |-> IF user[u] = p THEN None ELSE user[u]]
    /\ stored' = stored \cup {p}
    /\ editing' = IF KindOf(p) = "open" THEN editing \cup {p} ELSE editing
    /\ Move(p, "created")
    /\ UNCHANGED <<images, files, upload, queue, cleanVars, failures, bound, commandVars, feed, lost,
                   refused>>

\* InsertPostInto, or InsertPost of the client's feed: the thread of a new thread
\* has no clients yet
Announce(p) ==
    /\ task[p] = "created"
    /\ feed' = IF KindOf(p) = "thread" THEN feed ELSE feed \cup {p}
    /\ Move(p, IF KindOf(p) = "open" THEN "open" ELSE "ended")
    /\ UNCHANGED <<imageVars, commandVars, stored, editing, lost, refused, withImage>>

(***************************************************************************)
(* The close.                                                              *)
(***************************************************************************)
\* closePost, and after an error or a disconnect closeDanglingPosts
ParseBody(p) ==
    /\ \/ task[p] = "open" /\ Move(p, "closing")
       \/ task[p] \in {"open", "dangling"} /\ p \in editing /\ Move(p, "sweeping")
    /\ StartParsing(p, TRUE)
    /\ UNCHANGED <<imageVars, row, own, banned, counted, together, releases, there, stored, editing,
                   feed, lost, refused, withImage>>

\* ClosePost, of a row that may have never been: only closePost looks for a loser
ClosePost(p) ==
    /\ task[p] \in {"closing", "sweeping"} /\ At(p, "parsed")
    /\ editing' = editing \ {p}
    /\ Move(p, "ended")
    /\ Goto(p, IF task[p] = "closing" THEN "closed" ELSE "swept")
    /\ UNCHANGED <<imageVars, row, own, banned, counted, together, releases, there, stored, feed,
                   lost, refused, withImage>>

\* ParseBody has failed: the client is disconnected and the post left open
Leave(p) ==
    /\ task[p] \in {"closing", "sweeping"} /\ At(p, "failed")
    /\ Move(p, "dangling")
    /\ UNCHANGED <<imageVars, commandVars, stored, editing, feed, lost, refused, withImage>>

\* deleteOldThreads; a post that is in a transaction holds the row of the thread
DeleteThread ==
    /\ bound.pruned /\ there
    /\ \A p \in Post : task[p] \in {"inserted", "complete"} => KindOf(p) = "thread"
    /\ \A p \in Post : "roulette" \notin Locks(p)
    /\ there' = FALSE
    /\ LET gone == {p \in stored : KindOf(p) # "thread"}
       IN  /\ stored' = stored \ gone
           /\ editing' = editing \ gone
           /\ lost' = lost \cup gone
           /\ holds' = [p \in Post |-> IF p \in gone THEN None ELSE holds[p]]
    /\ UNCHANGED <<images, token, files, upload, queue, user, cleanVars, failures, bound,
                   row, own, cmd, banned, counted, together, releases, task, feed, refused,
                   withImage>>

PostStep(p) == \/ ConstructPost(p) \/ Parsed(p) \/ InsertPost(p) \/ InsertImage(p) \/ CommitPost(p)
               \/ Announce(p) \/ ParseBody(p) \/ ClosePost(p) \/ Leave(p)

Alone == UNCHANGED <<imageVars, postVars>>
Apart == UNCHANGED <<commandVars, postVars>>

Progress(p) == PostStep(p) \/ (CommandStep(p) /\ Alone)

Upkeep == \/ (ImagesStep /\ Apart)
          \/ (FreePyuLimit /\ Alone)
          \/ DeleteThread

Next == \/ \E p \in Post : Receive(p) \/ Progress(p)
        \/ \E u \in Upload : UploadStep(u) /\ Apart
        \/ Upkeep

\* The goroutines of requests and workers run, and the database answers them; it
\* grants a row to those who wait for it in turn
Fairness ==
    /\ \A p \in Post : WF_vars(PostStep(p)) /\ SF_vars(CommandStep(p) /\ Alone)
    /\ \A u \in Upload : WF_vars(UploadStep(u) /\ Apart)
    /\ WF_vars((PurgeFiles \/ CommitPurge \/ DeleteUnused) /\ Apart)

Spec == Init /\ [][Next]_vars /\ Fairness

(***************************************************************************)
(* Properties.                                                             *)
(***************************************************************************)
TypeOK ==
    /\ ImagesTypeOK
    /\ editing \subseteq stored /\ stored \cap lost = {} /\ feed \subseteq Post
    /\ \A p \in Post : holds[p] # None => p \in stored

\* post_creation.go:72, "Must ensure image token usage is done atomically, as not
\* to cause possible data races with unused image cleanup": a post that came with an
\* image is stored with it, not at all if its token is not valid, and keeps it
\* until a moderator removes it; a token serves one post
PostsKeepImages ==
    /\ \A p \in stored : HasImage(p) => p \in withImage /\ (holds[p] # None \/ p \in removed)
    /\ \A p, q \in withImage : p # q => UploadOf(p) # UploadOf(q)

ImagesHold == TypeOK /\ PostsKeepImages /\ RowsHaveFiles

\* What holds of the counts of commands
CommandsHold == RouletteLoaded /\ LosersAreBanned /\ PyuIsLimited

\* A request that was taken is answered, a job of the queue is done, and an open
\* post is closed, though transactions wait for each other's rows
PostingEnds ==
    /\ \A p \in Post : task[p] = "received" ~> (task[p] = "ended" \/ (task[p] = "dangling" /\ p \notin editing))
    /\ \A u \in Upload : upload[u] = "hashed" ~> upload[u] \in {"answered", "failed", "unknown"}

\* post_creation.go:117, "CreatePost creates a new post and writes it to the
\* database": what the clients of the thread are shown is in the database, or was
AnnouncedIsStored == feed \subseteq stored \cup lost
=============================================================================

------------------------------- MODULE Caches -------------------------------
(***************************************************************************)
(* The copies of database rows a server keeps in memory and the Postgres   *)
(* notifications that renew them: the configuration and the boards         *)
(* (src/db/config.go), the banners (src/db/assets.go, src/assets), the     *)
(* post counts of the threads (src/db/threads.go).  Every copy is loaded,  *)
(* then its listener is opened (src/db/util.go), each on a connection of   *)
(* its own: a row written in between is not noticed, and a listener whose  *)
(* connection is lost ends.  A row is a revision number; one board and one *)
(* thread stand for all of them.                                           *)
(***************************************************************************)
EXTENDS Naturals, Sequences

CONSTANTS Poster,          \* transactions that insert a post in the thread
          MaxWrites,       \* bound: writes of the rows
          MaxDisconnects,  \* bound: connections lost
          None             \* "no value"

ASSUME CachesAssumption == /\ MaxWrites \in Nat
                           /\ MaxDisconnects \in Nat
                           /\ None \notin Nat \cup Poster
                           /\ None \notin [revision : Nat, banners : Nat \cup {None}]

Channel == {"config_updates", "board_updated", "banners_updated",
            "thread_deleted", "new_post_in_thread"}

VARIABLES
    config, board, banners,     \* the rows: a revision, and None for no board
    thread,                     \* the thread: its number of posts, None if deleted
    insert,                     \* Poster -> a step of InsertPost
    threadLock,                 \* the transaction that holds the row of the thread
    confCache, bannerStore,     \* the copies of config and banners
    boardCache,                 \* the copy of the board: its revision and its banners
    countCache,                 \* postCountCache of the thread
    phase,                      \* Channel -> how far its listener has come
    pending,                    \* Channel -> notifications it has not handled
    missed,                     \* history: channels that missed a notification
    boardUpdate, bannerPatch,   \* what the goroutines of the listeners hold
    overwritten,                \* history: a patch replaced a newer board
    writes, disconnects

rowVars == <<config, board, banners>>
threadVars == <<thread, insert, threadLock>>
copyVars == <<confCache, bannerStore, boardCache, countCache>>
goroutineVars == <<boardUpdate, bannerPatch, overwritten>>
cacheVars == <<rowVars, threadVars, copyVars, phase, pending, missed, goroutineVars,
               writes, disconnects>>

Idle == [at |-> "idle"]

CachesInit ==
    /\ config = 0 /\ board = 0 /\ banners = 0
    /\ thread = 1
    /\ insert = [p \in Poster |-> Idle]
    /\ threadLock = None
    /\ confCache = None /\ bannerStore = None /\ boardCache = None /\ countCache = None
    /\ phase = [c \in Channel |-> "cold"]
    /\ pending = [c \in Channel |-> <<>>]
    /\ missed = {}
    /\ boardUpdate = Idle /\ bannerPatch = Idle
    /\ overwritten = FALSE
    /\ writes = 0 /\ disconnects = 0

(***************************************************************************)
(* Loading: util.Parallel over the loaders, then the boards.               *)
(***************************************************************************)
Loaded(C) == phase' = [c \in Channel |-> IF c \in C THEN "loaded" ELSE phase[c]]

LoadConfigs ==
    /\ phase["config_updates"] = "cold"
    /\ confCache' = config
    /\ Loaded({"config_updates"})
    /\ UNCHANGED <<rowVars, threadVars, bannerStore, boardCache, countCache, pending,
                   missed, goroutineVars, writes, disconnects>>

LoadBanners ==
    /\ phase["banners_updated"] = "cold"
    /\ bannerStore' = banners
    /\ Loaded({"banners_updated"})
    /\ UNCHANGED <<rowVars, threadVars, confCache, boardCache, countCache, pending,
                   missed, goroutineVars, writes, disconnects>>

LoadThreadPostCounts ==
    /\ phase["thread_deleted"] = "cold"
    /\ countCache' = thread
    /\ Loaded({"thread_deleted", "new_post_in_thread"})
    /\ UNCHANGED <<rowVars, threadVars, confCache, bannerStore, boardCache, pending,
                   missed, goroutineVars, writes, disconnects>>

\* After all of the others listen
LoadBoardConfigs ==
    /\ phase["board_updated"] = "cold"
    /\ \A c \in Channel \ {"board_updated"} : phase[c] \notin {"cold", "loaded"}
    /\ boardCache' = IF board = None THEN None
                     ELSE [revision |-> board, banners |-> bannerStore]
    /\ Loaded({"board_updated"})
    /\ UNCHANGED <<rowVars, threadVars, confCache, bannerStore, countCache, pending,
                   missed, goroutineVars, writes, disconnects>>

\* Listen; loadThreadPostCounts opens its two listeners one after the other
Listen(c) ==
    /\ phase[c] = "loaded"
    /\ c = "new_post_in_thread" => phase["thread_deleted"] # "loaded"
    /\ phase' = [phase EXCEPT ![c] = "listening"]
    /\ UNCHANGED <<rowVars, threadVars, copyVars, pending, missed, goroutineVars,
                   writes, disconnects>>

\* The connection is lost.  When pq has it back it sends nil, at which the
\* goroutine leaves its loop, after what was received before.
Disconnect(c) ==
    /\ phase[c] = "listening"
    /\ disconnects < MaxDisconnects
    /\ phase' = [phase EXCEPT ![c] = "ended"]
    /\ disconnects' = disconnects + 1
    /\ UNCHANGED <<rowVars, threadVars, copyVars, pending, missed, goroutineVars, writes>>

\* pg_notify, at the commit of the writer: what nobody listens to is lost
Notify(c, payload) ==
    /\ pending' = IF phase[c] = "listening"
                  THEN [pending EXCEPT ![c] = Append(@, payload)] ELSE pending
    /\ missed' = IF phase[c] \in {"loaded", "ended"} THEN missed \cup {c} ELSE missed

(***************************************************************************)
(* Writes of the rows.                                                     *)
(***************************************************************************)
Write == writes < MaxWrites /\ writes' = writes + 1

\* WriteConfigs: update main, then notify config_updates
WriteConfigs ==
    /\ Write
    /\ config' = config + 1
    /\ Notify("config_updates", None)
    /\ UNCHANGED <<board, banners, threadVars, copyVars, phase, goroutineVars, disconnects>>

\* UpdateBoard, deleteBoard, and WriteBoard of a board of the same name: the
\* triggers of boards notify
WriteBoard ==
    /\ Write
    /\ board' \in {None, writes + 1}
    /\ board' # board
    /\ Notify("board_updated", None)
    /\ UNCHANGED <<config, banners, threadVars, copyVars, phase, goroutineVars, disconnects>>

\* setAssets replaces the rows of a board that exists
SetBanners ==
    /\ Write
    /\ board # None
    /\ banners' = banners + 1
    /\ Notify("banners_updated", None)
    /\ UNCHANGED <<config, board, threadVars, copyVars, phase, goroutineVars, disconnects>>

(***************************************************************************)
(* InsertPost: the trigger before_posts_insert bumps the thread, which     *)
(* locks its row until the commit, and only then counts the posts.         *)
(***************************************************************************)
BumpThread(p) ==
    /\ insert[p].at = "idle"
    /\ thread # None
    /\ threadLock = None
    /\ Write
    /\ threadLock' = p
    /\ insert' = [insert EXCEPT ![p] = [at |-> "bumped"]]
    /\ UNCHANGED <<rowVars, thread, copyVars, phase, pending, missed, goroutineVars,
                   disconnects>>

CountPosts(p) ==
    /\ insert[p].at = "bumped"
    /\ insert' = [insert EXCEPT ![p] = [at |-> "counted", count |-> thread + 1]]
    /\ UNCHANGED <<rowVars, thread, threadLock, copyVars, phase, pending, missed,
                   goroutineVars, writes, disconnects>>

CommitPost(p) ==
    /\ insert[p].at = "counted"
    /\ thread' = thread + 1
    /\ threadLock' = None
    /\ insert' = [insert EXCEPT ![p] = Idle]
    /\ Notify("new_post_in_thread", insert[p].count)
    /\ UNCHANGED <<rowVars, copyVars, phase, goroutineVars, writes, disconnects>>

\* deleteOldThreads, or the deletion of the board: it waits for the row
DeleteThread ==
    /\ thread # None
    /\ threadLock = None
    /\ Write
    /\ thread' = None
    /\ Notify("thread_deleted", None)
    /\ UNCHANGED <<rowVars, insert, threadLock, copyVars, phase, goroutineVars, disconnects>>

(***************************************************************************)
(* The listeners.                                                          *)
(***************************************************************************)
Received(c) == /\ pending[c] # <<>>
               /\ pending' = [pending EXCEPT ![c] = Tail(@)]

\* updateConfigs
UpdateConfigs ==
    /\ Received("config_updates")
    /\ confCache' = config
    /\ UNCHANGED <<rowVars, threadVars, bannerStore, boardCache, countCache, phase, missed,
                   goroutineVars, writes, disconnects>>

\* updateBoardConfigs reads the row and the banners of the board
ReadBoard ==
    /\ boardUpdate = Idle
    /\ Received("board_updated")
    /\ IF board = None
       THEN /\ boardCache' = None                                \* RemoveBoard
            /\ overwritten' = FALSE
            /\ UNCHANGED boardUpdate
       ELSE /\ boardUpdate' = [at |-> "read", revision |-> board]
            /\ UNCHANGED <<boardCache, overwritten>>
    /\ UNCHANGED <<rowVars, threadVars, confCache, bannerStore, countCache, phase, missed,
                   bannerPatch, writes, disconnects>>

ReadTypes ==
    /\ boardUpdate.at = "read"
    /\ boardUpdate' = [at |-> "ready", conf |-> [revision |-> boardUpdate.revision,
                                                 banners |-> bannerStore]]
    /\ UNCHANGED <<rowVars, threadVars, copyVars, phase, pending, missed, bannerPatch,
                   overwritten, writes, disconnects>>

SetBoardConfigs ==
    /\ boardUpdate.at = "ready"
    /\ boardCache' = boardUpdate.conf
    /\ boardUpdate' = Idle
    /\ overwritten' = (boardUpdate.conf.banners # bannerStore)
    /\ UNCHANGED <<rowVars, threadVars, confCache, bannerStore, countCache, phase, pending,
                   missed, bannerPatch, writes, disconnects>>

\* updateAssets: the rows go to the store, ...
UpdateBanners ==
    /\ bannerPatch = Idle
    /\ Received("banners_updated")
    /\ bannerStore' = banners
    /\ bannerPatch' = [at |-> "stored"]
    /\ UNCHANGED <<rowVars, threadVars, confCache, boardCache, countCache, phase, missed,
                   boardUpdate, overwritten, writes, disconnects>>

\* ... and BannerStore.Set copies the board's configuration, if it has one,
CopyBoard ==
    /\ bannerPatch.at = "stored"
    /\ bannerPatch' = IF boardCache = None THEN Idle
                      ELSE [at |-> "copied", conf |-> boardCache]
    /\ UNCHANGED <<rowVars, threadVars, copyVars, phase, pending, missed, boardUpdate,
                   overwritten, writes, disconnects>>

\* and puts the copy back with the new banners
PatchBoard ==
    /\ bannerPatch.at = "copied"
    /\ boardCache' = [bannerPatch.conf EXCEPT !.banners = bannerStore]
    /\ bannerPatch' = Idle
    /\ overwritten' = (overwritten \/ bannerPatch.conf # boardCache)
    /\ UNCHANGED <<rowVars, threadVars, confCache, bannerStore, countCache, phase, pending,
                   missed, boardUpdate, writes, disconnects>>

DeleteCount ==
    /\ Received("thread_deleted")
    /\ countCache' = None
    /\ UNCHANGED <<rowVars, threadVars, confCache, bannerStore, boardCache, phase, missed,
                   goroutineVars, writes, disconnects>>

\* Mutant of SetCount: the latest notification is handled first
SetCountLatest ==
    LET counts == pending["new_post_in_thread"]
    IN  /\ counts # <<>>
        /\ countCache' = counts[Len(counts)]
        /\ pending' = [pending EXCEPT !["new_post_in_thread"] = SubSeq(@, 1, Len(@) - 1)]
        /\ UNCHANGED <<rowVars, threadVars, confCache, bannerStore, boardCache, phase, missed,
                       goroutineVars, writes, disconnects>>

SetCount ==
    /\ Received("new_post_in_thread")
    /\ countCache' = Head(pending["new_post_in_thread"])
    /\ UNCHANGED <<rowVars, threadVars, confCache, bannerStore, boardCache, phase, missed,
                   goroutineVars, writes, disconnects>>

Handle == \/ UpdateConfigs \/ ReadBoard \/ ReadTypes \/ SetBoardConfigs
          \/ UpdateBanners \/ CopyBoard \/ PatchBoard \/ DeleteCount \/ SetCount

CachesLoad == \/ LoadConfigs \/ LoadBanners \/ LoadThreadPostCounts \/ LoadBoardConfigs
              \/ \E c \in Channel : Listen(c)

CachesNext ==
    \/ CachesLoad
    \/ Handle
    \/ WriteConfigs \/ WriteBoard \/ SetBanners \/ DeleteThread
    \/ \E p \in Poster : BumpThread(p) \/ CountPosts(p) \/ CommitPost(p)
    \/ \E c \in Channel : Disconnect(c)

\* The goroutines run and the database answers; nobody has to write
CachesFairness == /\ WF_cacheVars(Handle)
                  /\ WF_cacheVars(CachesLoad)
                  /\ \A p \in Poster : WF_cacheVars(CountPosts(p) \/ CommitPost(p))

CachesSpec == CachesInit /\ [][CachesNext]_cacheVars /\ CachesFairness

(***************************************************************************)
(* Properties.                                                             *)
(***************************************************************************)
\* The type of the variables
CachesTypeOK ==
    /\ config \in Nat /\ banners \in Nat /\ board \in Nat \cup {None}
    /\ thread \in Nat \cup {None}
    /\ confCache \in Nat \cup {None} /\ bannerStore \in Nat \cup {None}
    /\ countCache \in Nat \cup {None}
    /\ boardCache = None \/ boardCache.revision \in Nat
    /\ phase \in [Channel -> {"cold", "loaded", "listening", "ended"}]
    /\ missed \subseteq Channel
    /\ threadLock \in Poster \cup {None}

\* A listener that has been told of every write and has handled all it was told
Settled(c) == /\ phase[c] \in {"listening", "ended"}
              /\ c \notin missed
              /\ pending[c] = <<>>

\* Every copy agrees with its row once its listener has nothing left to handle
CopiesAgree ==
    /\ Settled("config_updates") => confCache = config
    /\ Settled("banners_updated") => bannerStore = banners

\* The configuration of a board is its row with its banners when both
\* listeners are at rest, unless the patch of BannerStore.Set and
\* updateBoardConfigs overlapped: neither holds a lock over its read and write
BoardAgrees ==
    /\ Settled("board_updated") /\ Settled("banners_updated")
    /\ boardUpdate = Idle /\ bannerPatch = Idle /\ ~overwritten
    => boardCache = IF board = None THEN None
                    ELSE [revision |-> board, banners |-> banners]

\* The count of a thread that exists is the number of its posts when its
\* listener is at rest, and never too high: the trigger counts under the lock
CountAgrees ==
    thread # None =>
        /\ Settled("new_post_in_thread") => countCache = thread
        /\ countCache # None => countCache <= thread

\* config.go:24, "Load configs from the database and update on each change": a
\* change of the configuration reaches the server
ConfigFollows == \A v \in 1..MaxWrites :
    (config = v /\ phase["config_updates"] # "cold") ~> (confCache \in Nat /\ confCache >= v)
=============================================================================

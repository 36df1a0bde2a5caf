------------------------------- MODULE Images -------------------------------
(***************************************************************************)
(* Uploaded files: the rows of images and image_tokens, the files on disk, *)
(* the queues of thumbnailing jobs that fill them (src/imager/upload.go,   *)
(* src/imager/scheduler.go, src/db/images.go), and those who remove them:  *)
(* the hourly cleanup of unused images, the expiry of tokens and PurgePost *)
(* (src/db/admin.go).  Posts take an image with a token inside of a        *)
(* transaction of their own, which Posting has.                            *)
(*                                                                         *)
(* A token is named by the upload it answers.  Transactions read committed *)
(* rows; a row that an open transaction wrote or refers to cannot be       *)
(* removed or inserted by another before it ends.                          *)
(***************************************************************************)
EXTENDS Integers, Sequences, SequencesExt, FiniteSets

CONSTANTS Image,        \* SHA1 sums
          Upload,       \* upload requests, and their tokens
          Worker,       \* goroutines with a queue of jobs, two in each server
          Post,
          None,
          PostBounds    \* bounds of the instances: what uploads upload, and by which
                        \* worker, what posts have, how many failures, what cleans up

ASSUME ImagesAssumption ==
    /\ None \notin Image \cup Upload \cup Post \cup Worker
    /\ \A x \in PostBounds :
          /\ x.uploads \in Seq([image : Image, worker : Worker \cup {None}])
          /\ {x.failures, x.cleanups} \subseteq Nat
          /\ {x.expiry, x.moderated} \subseteq BOOLEAN
    /\ Upload \subseteq Nat

VARIABLES
    images,      \* rows of images
    token,       \* Upload -> the image of its row in image_tokens, or None
    holds,       \* Post -> the SHA1 of its row in posts, or None
    files,       \* images whose files are on disk
    upload,      \* Upload -> how far the request has come
    queue,       \* Worker -> jobs, the first is being done
    user,        \* Upload -> the post whose open transaction deleted its token
    cleanup,     \* step of deleteUnusedImages
    purge,       \* step of PurgePost
    removed,     \* history: posts whose image a moderator removed, or a cleanup that had
                 \* looked before they took it
    torn,        \* history: images whose files were deleted under a row
    failures,
    cleanups,
    bound        \* the bounds of this behaviour, one of PostBounds

rowVars == <<images, token, holds>>
cleanVars == <<cleanup, purge, removed, torn, cleanups>>
moderationVars == <<cleanup, purge, removed, cleanups>>
imageVars == <<rowVars, files, upload, queue, user, cleanVars, failures, bound>>

Rest == [at |-> "idle"]

ImagesInit ==
    /\ images = {} /\ files = {}
    /\ token = [u \in Upload |-> None]
    /\ holds = [p \in Post |-> None]
    /\ upload = [u \in Upload |-> "idle"]
    /\ queue = [w \in Worker |-> <<>>]
    /\ user = [u \in Upload |-> None]
    /\ cleanup = Rest /\ purge = Rest
    /\ removed = {} /\ torn = {}
    /\ failures = 0 /\ cleanups = 0
    /\ bound \in PostBounds

ImageOf(u) == bound.uploads[u].image
WorkerOf(u) == bound.uploads[u].worker

(***************************************************************************)
(* Locks on rows.                                                          *)
(***************************************************************************)
\* Transactions that refer to the row of image i: they inserted a token for it or
\* put it into a post
Referring(i) == \/ \E u \in Upload : upload[u] = "tokened" /\ ImageOf(u) = i
                \/ \E u \in Upload : user[u] # None /\ token[u] = i

Inserting(i) == \E u \in Upload : upload[u] \in {"allocated", "written"} /\ ImageOf(u) = i
Purging(i) == purge.at = "deleted" /\ i \in purge.rows

\* What the foreign keys do when rows of images are deleted
Cascade(gone) ==
    /\ images' = images \ gone
    /\ token' = [u \in Upload |-> IF token[u] \in gone THEN None ELSE token[u]]
    /\ holds' = [p \in Post |-> IF holds[p] \in gone THEN None ELSE holds[p]]

(***************************************************************************)
(* Uploads.                                                                *)
(***************************************************************************)
Step(u, at) == upload' = [upload EXCEPT ![u] = at]

\* The job of a queue ends and the request is answered
Answer(u, at) ==
    /\ Step(u, at)
    /\ queue' = IF WorkerOf(u) = None THEN queue
                ELSE [queue EXCEPT ![WorkerOf(u)] = Tail(@)]

\* ParseUpload hands a file to its queue, UploadImageHash looks the hash up itself
Request(u) ==
    /\ u \in DOMAIN bound.uploads
    /\ upload[u] = "idle"
    /\ Step(u, "hashed")
    /\ queue' = IF WorkerOf(u) = None THEN queue
                ELSE [queue EXCEPT ![WorkerOf(u)] = Append(@, u)]
    /\ UNCHANGED <<rowVars, files, user, cleanVars, failures, bound>>

Running(u) == IF WorkerOf(u) = None THEN TRUE ELSE Head(queue[WorkerOf(u)]) = u

\* ImageExists, which is not part of the transaction it is called from
ImageExists(u) ==
    /\ upload[u] = "hashed" /\ Running(u)
    /\ IF ImageOf(u) \in images THEN Step(u, "exists") /\ UNCHANGED queue
       ELSE IF WorkerOf(u) = None THEN Answer(u, "unknown")
       ELSE Step(u, "processed") /\ UNCHANGED queue
    /\ UNCHANGED <<rowVars, files, user, cleanVars, failures, bound>>

\* NewImageToken for an image that existed: its row may be gone by now
NewImageToken(u) ==
    /\ upload[u] = "exists"
    /\ ~Purging(ImageOf(u))
    /\ IF ImageOf(u) \in images THEN Step(u, "tokened") /\ UNCHANGED queue
       ELSE Answer(u, "failed")
    /\ UNCHANGED <<rowVars, files, user, cleanVars, failures, bound>>

CommitToken(u) ==
    /\ upload[u] = "tokened"
    /\ token' = [token EXCEPT ![u] = ImageOf(u)]
    /\ Answer(u, "answered")
    /\ UNCHANGED <<images, holds, files, user, cleanVars, failures, bound>>

\* Mutant of AllocateImage: the files of an image in conflict are cleaned up, too
AllocateAnew(u) ==
    /\ upload[u] = "processed"
    /\ ~Inserting(ImageOf(u)) /\ ~Purging(ImageOf(u))
    /\ IF ImageOf(u) \in images THEN Answer(u, "failed") /\ files' = files \ {ImageOf(u)}
       ELSE Step(u, "allocated") /\ UNCHANGED <<queue, files>>
    /\ UNCHANGED <<rowVars, user, cleanVars, failures, bound>>

\* newThumbnail: AllocateImage inserts the row; where another server has, the
\* conflict is passed over, but the transaction is void and no token can be inserted
AllocateImage(u) ==
    /\ upload[u] = "processed"
    /\ ~Inserting(ImageOf(u)) /\ ~Purging(ImageOf(u))
    /\ IF ImageOf(u) \in images THEN Answer(u, "failed")
       ELSE Step(u, "allocated") /\ UNCHANGED queue
    /\ UNCHANGED <<rowVars, files, user, cleanVars, failures, bound>>

\* assets.Write, in the open transaction
WriteFiles(u) ==
    /\ upload[u] = "allocated"
    /\ files' = files \cup {ImageOf(u)}
    /\ torn' = torn \ {ImageOf(u)}
    /\ Step(u, "written")
    /\ UNCHANGED <<rowVars, queue, user, moderationVars, failures, bound>>

\* The file is no image after all, or cleanUpFailedAllocation
FailToWrite(u) ==
    /\ upload[u] \in {"processed", "allocated"}
    /\ failures < bound.failures /\ failures' = failures + 1
    /\ files' = IF upload[u] = "allocated" THEN files \ {ImageOf(u)} ELSE files
    /\ Answer(u, "failed")
    /\ UNCHANGED <<rowVars, user, cleanVars, bound>>

\* The row and its first token are committed together, ...
CommitImage(u) ==
    /\ upload[u] = "written"
    /\ images' = images \cup {ImageOf(u)}
    /\ token' = [token EXCEPT ![u] = ImageOf(u)]
    /\ Answer(u, "answered")
    /\ UNCHANGED <<holds, files, user, cleanVars, failures, bound>>

\* ... or not at all, which leaves the files
FailToCommit(u) ==
    /\ upload[u] \in {"written", "tokened"}
    /\ failures < bound.failures /\ failures' = failures + 1
    /\ Answer(u, "failed")
    /\ UNCHANGED <<rowVars, files, user, cleanVars, bound>>

\* expireRows, a minute or two later
ExpireToken(u) ==
    /\ bound.expiry
    /\ token[u] # None /\ user[u] = None
    /\ token' = [token EXCEPT ![u] = None]
    /\ UNCHANGED <<images, holds, files, upload, queue, user, cleanVars, failures, bound>>

(***************************************************************************)
(* Tokens in the transactions of posts.                                    *)
(***************************************************************************)
\* use_image_token waits for another transaction that deletes the row
TokenFree(u) == user[u] = None /\ (token[u] # None => ~Purging(token[u]))

(***************************************************************************)
(* deleteUnusedImages.                                                     *)
(***************************************************************************)
\* Mutant of Unused: an image that has no token is not used
OnlyInTokens == {i \in images : \A u \in Upload : token[u] # i}

Unused == {i \in images : (\A u \in Upload : token[u] # i) /\ (\A p \in Post : holds[p] # i)}

\* The statement sees the rows of one moment ...
ScanUnused ==
    /\ cleanups < bound.cleanups /\ cleanups' = cleanups + 1
    /\ cleanup = Rest
    /\ Unused # {}
    /\ cleanup' = [at |-> "deleting", images |-> Unused,
                   held |-> {p \in Post : holds[p] # None}]
    /\ UNCHANGED <<rowVars, files, upload, queue, user, purge, removed, torn, failures, bound>>

\* ... and deletes them when those who refer to them have ended, without looking
\* again: what a post has taken since goes, too.  Then the files are deleted, ...
DeleteUnused ==
    /\ cleanup.at = "deleting"
    /\ \A i \in cleanup.images : ~Referring(i) /\ ~Purging(i)
    /\ Cascade(cleanup.images)
    /\ cleanup' = [at |-> "files", images |-> cleanup.images \cap images]
    /\ removed' = removed \cup {p \in Post \ cleanup.held : holds[p] \in cleanup.images}
    /\ UNCHANGED <<files, upload, queue, user, purge, torn, cleanups, failures, bound>>

\* ... of an image that may have been uploaded again by now
DeleteFiles(i) ==
    /\ cleanup.at = "files" /\ i \in cleanup.images
    /\ files' = files \ {i}
    /\ torn' = IF i \in images \/ Inserting(i) THEN torn \cup {i} ELSE torn
    /\ cleanup' = IF cleanup.images = {i} THEN Rest
                  ELSE [cleanup EXCEPT !.images = @ \ {i}]
    /\ UNCHANGED <<rowVars, upload, queue, user, purge, removed, cleanups, failures, bound>>

FinishCleanup ==
    /\ cleanup.at = "files" /\ cleanup.images = {}
    /\ cleanup' = Rest
    /\ UNCHANGED <<rowVars, files, upload, queue, user, purge, removed, torn, cleanups, failures,
                   bound>>

(***************************************************************************)
(* Moderators.                                                             *)
(***************************************************************************)
\* delete_images
DeleteImage(p) ==
    /\ bound.moderated
    /\ holds[p] # None
    /\ holds' = [holds EXCEPT ![p] = None]
    /\ removed' = removed \cup {p}
    /\ UNCHANGED <<images, token, files, upload, queue, user, cleanup, purge, torn, cleanups,
                   failures, bound>>

\* PurgePost reads the post, ...
ReadPost(p) ==
    /\ bound.moderated /\ purge = Rest
    /\ holds[p] # None
    /\ purge' = [at |-> "read", image |-> holds[p], rows |-> {}]
    /\ UNCHANGED <<rowVars, files, upload, queue, user, cleanup, removed, torn, cleanups, failures,
                   bound>>

\* ... deletes the row of its image and the files before the transaction ends, ...
PurgeFiles ==
    /\ purge.at = "read" /\ ~Referring(purge.image)
    /\ purge' = [purge EXCEPT !.at = "deleted", !.rows = images \cap {purge.image}]
    /\ files' = files \ {purge.image}
    /\ torn' = IF Inserting(purge.image) THEN torn \cup {purge.image} ELSE torn
    /\ UNCHANGED <<rowVars, upload, queue, user, cleanup, removed, cleanups, failures, bound>>

\* ... which takes the image from every post, ...
CommitPurge ==
    /\ purge.at = "deleted"
    /\ Cascade(purge.rows)
    /\ removed' = removed \cup {p \in Post : holds[p] \in purge.rows}
    /\ purge' = Rest
    /\ UNCHANGED <<files, upload, queue, user, cleanup, torn, cleanups, failures, bound>>

\* ... unless the log cannot be written: the row is back, the files are not
RollBackPurge ==
    /\ purge.at = "deleted"
    /\ failures < bound.failures /\ failures' = failures + 1
    /\ torn' = torn \cup purge.rows
    /\ purge' = Rest
    /\ UNCHANGED <<rowVars, files, upload, queue, user, cleanup, removed, cleanups, bound>>

UploadStep(u) == \/ ImageExists(u) \/ NewImageToken(u) \/ CommitToken(u) \/ AllocateImage(u)
                 \/ WriteFiles(u) \/ CommitImage(u)

ImagesStep ==
    \/ \E u \in Upload : Request(u) \/ FailToWrite(u) \/ FailToCommit(u) \/ ExpireToken(u)
    \/ ScanUnused \/ DeleteUnused \/ FinishCleanup \/ \E i \in Image : DeleteFiles(i)
    \/ \E p \in Post : DeleteImage(p) \/ ReadPost(p)
    \/ PurgeFiles \/ CommitPurge \/ RollBackPurge

(***************************************************************************)
(* Properties.                                                             *)
(***************************************************************************)
ImagesTypeOK ==
    /\ images \subseteq Image /\ files \subseteq Image /\ torn \subseteq Image
    /\ \A u \in Upload : token[u] \in images \cup {None}
    /\ \A p \in Post : holds[p] \in images \cup {None}
    /\ user \in [Upload -> Post \cup {None}]
    /\ failures \in 0..bound.failures

\* images.go:100, AllocateImage: a row of images has its files, whatever uploads,
\* failures, conflicts and cleanups overlap, but for a cleanup that deletes files
\* of an image that came back and a purge that was rolled back
RowsHaveFiles == images \ torn \subseteq files \cup {i \in Image : Purging(i)}

\* images.go:100, "AllocateImage allocates an image's file resources to their
\* respective served directories and write its data to the database": files stay
\* until their row goes
FilesStay == images \subseteq files \cup {i \in Image : Purging(i)}
=============================================================================

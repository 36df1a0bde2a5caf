--------------------------- MODULE PostingProofs ---------------------------
(***************************************************************************)
(* Proofs about Posting, for any number of posts, uploads, workers and IPs *)
(* and any bounds.  The first half is about images: every reference is to  *)
(* a row, a row has its files, and what a post took it keeps, whatever     *)
(* uploads, transactions, cleanups and purges do in between.  The second   *)
(* is about hash commands, and needs of the first only that what happens   *)
(* to images leaves commands alone.  A step of a command is followed by    *)
(* column: what the transaction has written and what of it is committed.   *)
(***************************************************************************)
EXTENDS Posting, SequenceTheorems, TLAPS

(***************************************************************************)
(* The invariant of the images.                                            *)
(***************************************************************************)
UploadSteps == {"idle", "hashed", "exists", "processed", "tokened", "allocated", "written",
                "answered", "failed", "unknown"}
PastSteps == {"created", "open", "closing", "sweeping", "dangling", "ended"}
TaskSteps == {"idle", "received", "parsing", "construct", "inserted", "complete"} \cup PastSteps

ImagesTyped ==
    /\ images \subseteq Image /\ files \subseteq Image /\ torn \subseteq Image
    /\ token \in [Upload -> Image \cup {None}]
    /\ holds \in [Post -> Image \cup {None}]
    /\ user \in [Upload -> Post \cup {None}]
    /\ upload \in [Upload -> UploadSteps]
    /\ bound \in PostBounds /\ failures \in 0..bound.failures

PostsTyped ==
    /\ task \in [Post -> TaskSteps]
    /\ feed \subseteq Post
    /\ \A p \in Post : task[p] # "idle" => p \in DOMAIN bound.posts

\* Every reference is to a row.
Referred ==
    /\ \A u \in Upload : token[u] \in images \cup {None}
    /\ \A p \in Post : holds[p] \in images \cup {None}
    /\ \A u \in Upload : upload[u] = "tokened" => ImageOf(u) \in images

\* Who inserts the row of an image is alone, and has written its files unless others
\* deleted them.
Writes(u) == upload[u] \in {"allocated", "written"}
Inserts ==
    /\ \A u \in Upload : upload[u] # "idle" => u \in DOMAIN bound.uploads
    /\ \A u \in Upload : Writes(u) => ImageOf(u) \notin images
    /\ \A u, v \in Upload : Writes(u) /\ Writes(v) /\ ImageOf(u) = ImageOf(v) => u = v
    /\ \A u \in Upload : upload[u] = "written" => ImageOf(u) \in files \cup torn

\* A row that is being purged is there, and no open transaction refers to it.
Purged ==
    /\ purge \in {Rest} \cup [at : {"read", "deleted"}, image : Image, rows : SUBSET Image]
    /\ \A i \in Image : Purging(i) => i \in images /\ ~Referring(i)

\* The token that the transaction of a post has deleted is still there for the others.
Taking ==
    /\ \A p \in Post : task[p] = "complete" =>
          HasImage(p) /\ user[UploadOf(p)] = p /\ token[UploadOf(p)] # None
    /\ \A u \in Upload : user[u] # None => task[user[u]] = "complete" /\ UploadOf(user[u]) = u
    /\ \A p \in Post : task[p] \notin {"idle", "ended"} /\ HasImage(p) =>
          upload[UploadOf(p)] = "answered"

\* Only posts whose transaction is over have a row.
Past == {p \in Post : task[p] \in PastSteps}
Stored ==
    /\ stored \cup lost \cup withImage \subseteq Past
    /\ editing \subseteq stored /\ stored \cap lost = {}
    /\ \A p \in Post : holds[p] # None => p \in stored

\* A token is no more once a post was stored with its image.
Spent ==
    /\ PostsKeepImages
    /\ \A p \in withImage : /\ HasImage(p) /\ token[UploadOf(p)] = None
                            /\ upload[UploadOf(p)] = "answered"

\* What a cleanup is about to delete, no post that it saw with an image has.
Cleaned ==
    /\ cleanup \in {Rest} \cup [at : {"deleting"}, images : SUBSET Image, held : SUBSET Post]
                          \cup [at : {"files"}, images : SUBSET Image]
    /\ cleanup.at = "deleting" =>
          /\ cleanup.held \subseteq Past
          /\ \A p \in cleanup.held : holds[p] \notin cleanup.images

ImageInv == /\ ImagesTyped /\ PostsTyped /\ Referred /\ Inserts /\ Purged /\ RowsHaveFiles
            /\ Taking /\ Stored /\ Spent /\ Cleaned

\* What the bounds of a behaviour are.
LEMMA BoundUploads ==
    ASSUME ImagesTyped
    PROVE  /\ \A u \in Upload : u \in DOMAIN bound.uploads => ImageOf(u) \in Image
           /\ bound.failures \in Nat
<1>1. bound \in PostBounds
  BY DEF ImagesTyped
<1>2. bound.uploads \in Seq([image : Image, worker : Worker \cup {None}])
      /\ bound.failures \in Nat
  BY <1>1, ImagesAssumption
<1>3. \A u \in DOMAIN bound.uploads : bound.uploads[u] \in [image : Image, worker : Worker \cup {None}]
  BY <1>2, ElementOfSeq, LenProperties
<1> QED BY <1>2, <1>3 DEF ImageOf

LEMMA BoundPosts ==
    ASSUME ImagesTyped, NEW p \in Post, p \in DOMAIN bound.posts
    PROVE  /\ UploadOf(p) \in Upload \cup {None}
           /\ HasImage(p) => UploadOf(p) \in Upload
  BY PostingAssumption DEF ImagesTyped, UploadOf, HasImage

LEMMA NoneIsNothing == None \notin Image /\ None \notin Upload /\ None \notin Post
  BY ImagesAssumption

(***************************************************************************)
(* What does not change keeps what is said of it.                          *)
(***************************************************************************)
LEMMA ImagesTypedStays ==
    ASSUME ImagesTyped, UNCHANGED <<images, files, torn, token, holds, user, upload, bound, failures>>
    PROVE  ImagesTyped'
  BY DEF ImagesTyped

LEMMA PostsTypedStays ==
    ASSUME PostsTyped, UNCHANGED <<task, feed, bound>>
    PROVE  PostsTyped'
  BY DEF PostsTyped

LEMMA ReferredStays ==
    ASSUME Referred, UNCHANGED <<images, token, holds, upload, bound>>
    PROVE  Referred'
  BY DEF Referred, ImageOf

LEMMA InsertsStays ==
    ASSUME Inserts, UNCHANGED <<upload, bound, images, files, torn>>
    PROVE  Inserts'
  BY DEF Inserts, Writes, ImageOf

LEMMA PurgedStays ==
    ASSUME Purged, UNCHANGED <<purge, images, upload, user, token, bound>>
    PROVE  Purged'
  BY DEF Purged, Purging, Referring, ImageOf

LEMMA RowsHaveFilesStays ==
    ASSUME RowsHaveFiles, UNCHANGED <<images, torn, files, purge>>
    PROVE  RowsHaveFiles'
  BY DEF RowsHaveFiles, Purging

LEMMA TakingStays ==
    ASSUME Taking, UNCHANGED <<task, user, token, bound, upload>>
    PROVE  Taking'
  BY DEF Taking, HasImage, UploadOf

LEMMA StoredStays ==
    ASSUME Stored, UNCHANGED <<task, stored, lost, withImage, editing, holds>>
    PROVE  Stored'
  BY DEF Stored, Past

LEMMA SpentStays ==
    ASSUME Spent, UNCHANGED <<stored, withImage, holds, removed, token, upload, bound>>
    PROVE  Spent'
  BY DEF Spent, PostsKeepImages, HasImage, UploadOf

LEMMA CleanedStays ==
    ASSUME Cleaned, UNCHANGED <<cleanup, task, holds>>
    PROVE  Cleaned'
  BY DEF Cleaned, Past

LEMMA ImageInit == Init => ImageInv
<1> SUFFICES ASSUME Init PROVE ImageInv
  OBVIOUS
<1> USE DEF Init, ImagesInit
<1>1. ImagesTyped
  <2>1. bound.failures \in Nat
    BY ImagesAssumption
  <2> QED BY <2>1 DEF ImagesTyped, UploadSteps
<1>2. PostsTyped
  BY DEF PostsTyped, TaskSteps
<1>3. Referred /\ Inserts /\ Purged /\ RowsHaveFiles
  BY NoneIsNothing DEF Referred, Inserts, Writes, Purged, Purging, Rest, RowsHaveFiles
<1>4. Taking /\ Stored /\ Spent /\ Cleaned
  BY DEF Taking, Stored, Past, PastSteps, Spent, PostsKeepImages, Cleaned, Rest
<1> QED BY <1>1, <1>2, <1>3, <1>4 DEF ImageInv

(***************************************************************************)
(* Uploads.                                                                *)
(***************************************************************************)
\* Nobody uses the token of an upload that was not answered.
LEMMA NotTaken ==
    ASSUME ImageInv, NEW u \in Upload, upload[u] # "answered"
    PROVE  /\ user[u] = None
           /\ \A p \in withImage : UploadOf(p) # u
           /\ \A p \in Post : task[p] \notin {"idle", "ended"} => UploadOf(p) # u
<1>1. \A p \in Post : task[p] \notin {"idle", "ended"} => UploadOf(p) # u
  BY NoneIsNothing DEF ImageInv, Taking, HasImage
<1>2. \A p \in withImage : UploadOf(p) # u
  BY DEF ImageInv, Spent
<1>3. user[u] = None
  <2> SUFFICES ASSUME user[u] # None PROVE FALSE
    OBVIOUS
  <2>1. user[u] \in Post /\ task[user[u]] = "complete" /\ UploadOf(user[u]) = u
    BY DEF ImageInv, Taking, ImagesTyped
  <2> QED BY <2>1, <1>1
<1> QED BY <1>1, <1>2, <1>3

\* A step of an upload that commits nothing and writes no files.
LEMMA UploadKeeps ==
    ASSUME ImageInv, NEW u \in Upload, NEW at \in UploadSteps \ {"idle", "written"},
           u \in DOMAIN bound.uploads, upload[u] # "answered",
           at = "tokened" => ImageOf(u) \in images /\ ~Purging(ImageOf(u)),
           at = "allocated" => ImageOf(u) \notin images /\ ~Inserting(ImageOf(u)),
           upload' = [upload EXCEPT ![u] = at],
           files' = files \/ (Writes(u) /\ ~Writes(u)' /\ files' = files \ {ImageOf(u)}),
           failures' \in 0..bound.failures,
           UNCHANGED <<rowVars, user, cleanVars, bound, postVars>>
    PROVE  ImageInv'
<1>0. /\ UNCHANGED <<images, token, holds, user, cleanup, purge, removed, torn, cleanups, bound>>
      /\ UNCHANGED <<task, stored, editing, feed, lost, refused, withImage>>
  BY DEF rowVars, cleanVars, postVars
<1>1. ImagesTyped'
  BY <1>0 DEF ImageInv, ImagesTyped
<1>2. Referred'
  BY <1>0 DEF ImageInv, ImagesTyped, Referred, ImageOf
<1>3. Inserts'
  <2>1. upload'[u] = at /\ \A v \in Upload \ {u} : upload'[v] = upload[v]
    BY DEF ImageInv, ImagesTyped
  <2>2. \A v \in Upload : ImageOf(v)' = ImageOf(v)
    BY <1>0 DEF ImageOf
  <2>3. \A v \in Upload \ {u} : Writes(v)' = Writes(v)
    BY <2>1 DEF Writes
  <2>4. Writes(u)' => at = "allocated"
    BY <2>1 DEF Writes
  <2>5. \A v \in Upload : Writes(v)' => ImageOf(v)' \notin images'
    BY <1>0, <2>2, <2>3, <2>4 DEF ImageInv, Inserts
  <2>6. \A v, w \in Upload : Writes(v)' /\ Writes(w)' /\ ImageOf(v)' = ImageOf(w)' => v = w
    <3>1. \A v \in Upload \ {u} : Writes(v)' /\ at = "allocated" => ImageOf(v) # ImageOf(u)
      BY <2>3 DEF Inserting, Writes
    <3> QED BY <2>2, <2>3, <2>4, <3>1 DEF ImageInv, Inserts
  <2>7. \A v \in Upload : upload'[v] = "written" => ImageOf(v)' \in files' \cup torn'
    <3> SUFFICES ASSUME NEW v \in Upload, upload'[v] = "written"
                 PROVE  ImageOf(v) \in files' \cup torn
      BY <1>0, <2>2
    <3>1. v # u /\ upload[v] = "written" /\ Writes(v)
      BY <2>1 DEF Writes
    <3>2. Writes(u) => ImageOf(v) # ImageOf(u)
      BY <3>1 DEF ImageInv, Inserts
    <3> QED BY <3>1, <3>2 DEF ImageInv, Inserts
  <2>8. \A v \in Upload : upload'[v] # "idle" => v \in DOMAIN bound'.uploads
    BY <1>0, <2>1 DEF ImageInv, Inserts
  <2> QED BY <2>5, <2>6, <2>7, <2>8 DEF Inserts
<1>4. Purged'
  <2>1. \A i \in Image : Purging(i)' = Purging(i)
    BY <1>0 DEF Purging
  <2>2. \A i \in Image : Referring(i)' => Referring(i) \/ (at = "tokened" /\ i = ImageOf(u))
    BY <1>0 DEF Referring, ImageOf, ImageInv, ImagesTyped
  <2> QED BY <1>0, <2>1, <2>2 DEF ImageInv, Purged
<1>5. RowsHaveFiles'
  BY <1>0 DEF ImageInv, RowsHaveFiles, Purging, Inserts
<1>6. Taking'
  BY <1>0, NotTaken DEF ImageInv, ImagesTyped, Taking, HasImage, UploadOf
<1>7. Spent'
  BY <1>0, NotTaken DEF ImageInv, ImagesTyped, Spent, PostsKeepImages, HasImage, UploadOf
<1>8. PostsTyped' /\ Stored' /\ Cleaned'
  BY <1>0, PostsTypedStays, StoredStays, CleanedStays DEF ImageInv
<1> QED BY <1>1, <1>2, <1>3, <1>4, <1>5, <1>6, <1>7, <1>8 DEF ImageInv

LEMMA UploadStepsKeep ==
    ASSUME ImageInv, NEW u \in Upload, UNCHANGED postVars,
           \/ Request(u) \/ ImageExists(u) \/ NewImageToken(u) \/ AllocateImage(u)
           \/ FailToWrite(u) \/ FailToCommit(u)
    PROVE  ImageInv'
<1>1. failures \in 0..bound.failures /\ (failures < bound.failures => failures + 1 \in 0..bound.failures)
  BY BoundUploads DEF ImageInv, ImagesTyped
<1>2. upload[u] # "idle" => u \in DOMAIN bound.uploads
  BY DEF ImageInv, Inserts
<1>3. \A at : upload' = [upload EXCEPT ![u] = at] => upload'[u] = at
  BY DEF ImageInv, ImagesTyped
<1>4. CASE Request(u)
  <2>1. "hashed" \in UploadSteps
    BY DEF UploadSteps
  <2> QED BY <1>1, <1>4, <2>1, UploadKeeps DEF Request, Step
<1>5. CASE ImageExists(u)
  <2>1. PICK at \in {"exists", "unknown", "processed"} : upload' = [upload EXCEPT ![u] = at]
    BY <1>5 DEF ImageExists, Step, Answer
  <2>2. at \in UploadSteps \ {"idle", "written"}
    BY DEF UploadSteps
  <2> QED BY <1>1, <1>2, <1>5, <2>1, <2>2, UploadKeeps DEF ImageExists
<1>6. CASE NewImageToken(u)
  <2>1. PICK at \in {"tokened", "failed"} :
          upload' = [upload EXCEPT ![u] = at] /\ (at = "tokened" => ImageOf(u) \in images)
    BY <1>6 DEF NewImageToken, Step, Answer
  <2>2. at \in UploadSteps \ {"idle", "written"}
    BY DEF UploadSteps
  <2> QED BY <1>1, <1>2, <1>6, <2>1, <2>2, UploadKeeps DEF NewImageToken
<1>7. CASE AllocateImage(u)
  <2>1. PICK at \in {"allocated", "failed"} :
          upload' = [upload EXCEPT ![u] = at] /\ (at = "allocated" => ImageOf(u) \notin images)
    BY <1>7 DEF AllocateImage, Step, Answer
  <2>2. at \in UploadSteps \ {"idle", "written"}
    BY DEF UploadSteps
  <2> QED BY <1>1, <1>2, <1>7, <2>1, <2>2, UploadKeeps DEF AllocateImage
<1>8. CASE FailToWrite(u) \/ FailToCommit(u)
  <2>1. upload' = [upload EXCEPT ![u] = "failed"] /\ upload[u] \notin {"idle", "answered"}
    BY <1>8 DEF FailToWrite, FailToCommit, Step, Answer
  <2>2. "failed" \in UploadSteps \ {"idle", "written"}
    BY DEF UploadSteps
  <2>3. ~Writes(u)'
    BY <1>3, <2>1 DEF Writes
  <2>4. failures' \in 0..bound.failures
    BY <1>1, <1>8 DEF FailToWrite, FailToCommit
  <2>5. files' = files \/ (Writes(u) /\ files' = files \ {ImageOf(u)})
    BY <1>8 DEF FailToWrite, FailToCommit, Writes
  <2>6. UNCHANGED <<rowVars, user, cleanVars, bound>>
    BY <1>8 DEF FailToWrite, FailToCommit
  <2> QED BY <1>2, <2>1, <2>2, <2>3, <2>4, <2>5, <2>6, UploadKeeps
<1> QED BY <1>4, <1>5, <1>6, <1>7, <1>8

LEMMA WriteFilesKeeps ==
    ASSUME ImageInv, NEW u \in Upload, WriteFiles(u), UNCHANGED postVars
    PROVE  ImageInv'
<1>0. /\ UNCHANGED <<images, token, holds, user, cleanup, purge, removed, failures, bound>>
      /\ UNCHANGED <<task, stored, editing, feed, lost, withImage>>
      /\ upload[u] = "allocated" /\ upload' = [upload EXCEPT ![u] = "written"]
      /\ files' = files \cup {ImageOf(u)} /\ torn' = torn \ {ImageOf(u)}
  BY DEF WriteFiles, Step, rowVars, moderationVars, postVars
<1>1. u \in DOMAIN bound.uploads /\ ImageOf(u) \in Image
  BY <1>0, BoundUploads DEF ImageInv, Inserts
<1>2. ImagesTyped'
  BY <1>0, <1>1 DEF ImageInv, ImagesTyped, UploadSteps
<1>3. Referred' /\ RowsHaveFiles'
  BY <1>0 DEF ImageInv, ImagesTyped, Referred, RowsHaveFiles, Purging, ImageOf
<1>4. Inserts'
  BY <1>0, <1>1 DEF ImageInv, ImagesTyped, Inserts, Writes, ImageOf
<1>5. Purged'
  BY <1>0 DEF ImageInv, ImagesTyped, Purged, Purging, Referring, ImageOf
<1>6. Taking' /\ Spent'
  BY <1>0, NotTaken DEF ImageInv, ImagesTyped, Taking, Spent, PostsKeepImages, HasImage, UploadOf
<1>7. PostsTyped' /\ Stored' /\ Cleaned'
  BY <1>0, PostsTypedStays, StoredStays, CleanedStays DEF ImageInv
<1> QED BY <1>2, <1>3, <1>4, <1>5, <1>6, <1>7 DEF ImageInv

\* The request is answered with a token for a row that is there, or that it commits.
LEMMA CommitKeeps ==
    ASSUME ImageInv, NEW u \in Upload, UNCHANGED postVars, CommitToken(u) \/ CommitImage(u)
    PROVE  ImageInv'
<1>0. /\ UNCHANGED <<holds, files, torn, user, cleanup, purge, removed, failures, bound>>
      /\ UNCHANGED <<task, stored, editing, feed, lost, withImage>>
      /\ token' = [token EXCEPT ![u] = ImageOf(u)]
      /\ upload' = [upload EXCEPT ![u] = "answered"]
  BY DEF CommitToken, CommitImage, Answer, Step, cleanVars, postVars
<1>1. /\ upload[u] = "tokened" /\ images' = images
      \/ /\ upload[u] = "written" /\ images' = images \cup {ImageOf(u)}
  BY DEF CommitToken, CommitImage
<1>2. ImageOf(u) \in images' /\ ImageOf(u) \in Image
  BY <1>1, BoundUploads DEF ImageInv, Inserts, Referred
<1>3. ImagesTyped'
  BY <1>0, <1>1, <1>2 DEF ImageInv, ImagesTyped, UploadSteps
<1>4. Referred'
  BY <1>0, <1>1, <1>2 DEF ImageInv, ImagesTyped, Referred, ImageOf
<1>5. Inserts'
  BY <1>0, <1>1 DEF ImageInv, ImagesTyped, Inserts, Writes, ImageOf
<1>6. RowsHaveFiles'
  BY <1>0, <1>1 DEF ImageInv, Inserts, RowsHaveFiles, Purging
<1>7. Purged'
  <2>1. user[u] = None
    BY <1>1, NotTaken
  <2> QED BY <1>0, <1>1, <2>1 DEF ImageInv, ImagesTyped, Purged, Purging, Referring, ImageOf
<1>8. Taking' /\ Spent'
  BY <1>0, <1>1, <1>2, NotTaken, NoneIsNothing
     DEF ImageInv, ImagesTyped, Taking, Spent, PostsKeepImages, HasImage, UploadOf
<1>9. PostsTyped' /\ Stored' /\ Cleaned'
  BY <1>0, PostsTypedStays, StoredStays, CleanedStays DEF ImageInv
<1> QED BY <1>3, <1>4, <1>5, <1>6, <1>7, <1>8, <1>9 DEF ImageInv

LEMMA ExpireTokenKeeps ==
    ASSUME ImageInv, NEW u \in Upload, ExpireToken(u), UNCHANGED postVars
    PROVE  ImageInv'
<1>0. /\ UNCHANGED <<images, holds, files, torn, upload, user, cleanup, purge, removed, failures, bound>>
      /\ UNCHANGED <<task, stored, editing, feed, lost, withImage>>
      /\ token' = [token EXCEPT ![u] = None] /\ user[u] = None
  BY DEF ExpireToken, cleanVars, postVars
<1>1. ImagesTyped' /\ Referred'
  BY <1>0 DEF ImageInv, ImagesTyped, Referred, ImageOf
<1>2. Purged'
  BY <1>0, NoneIsNothing DEF ImageInv, ImagesTyped, Purged, Purging, Referring, ImageOf
<1>3. Taking' /\ Spent'
  BY <1>0, NoneIsNothing DEF ImageInv, ImagesTyped, Taking, Spent, PostsKeepImages, HasImage, UploadOf
<1>4. PostsTyped' /\ Inserts' /\ RowsHaveFiles' /\ Stored' /\ Cleaned'
  BY <1>0, PostsTypedStays, InsertsStays, RowsHaveFilesStays, StoredStays, CleanedStays DEF ImageInv
<1> QED BY <1>1, <1>2, <1>3, <1>4 DEF ImageInv

(***************************************************************************)
(* Those who remove images.                                                *)
(***************************************************************************)
\* Rows of images are deleted to which no open transaction refers.
LEMMA CascadeKeeps ==
    ASSUME ImageInv, NEW gone, gone \subseteq Image, \A i \in gone : ~Referring(i),
           Cascade(gone),
           \A i \in Image : Purging(i)' => Purging(i) /\ i \notin gone,
           \A i \in Image : Purging(i) /\ ~Purging(i)' => i \in gone,
           purge' \in {purge, Rest},
           removed \cup {p \in Post : holds[p] \in gone} \subseteq removed',
           UNCHANGED <<files, torn, upload, user, failures, bound, postVars>>
    PROVE  /\ ImagesTyped' /\ PostsTyped' /\ Referred' /\ Inserts' /\ Purged' /\ RowsHaveFiles'
           /\ Taking' /\ Stored' /\ Spent'
<1>0. /\ UNCHANGED <<task, stored, editing, feed, lost, withImage>>
      /\ images' = images \ gone
      /\ token' = [u \in Upload |-> IF token[u] \in gone THEN None ELSE token[u]]
      /\ holds' = [p \in Post |-> IF holds[p] \in gone THEN None ELSE holds[p]]
  BY DEF Cascade, postVars
<1>1. ImagesTyped'
  BY <1>0 DEF ImageInv, ImagesTyped
<1>2. Referred'
  BY <1>0 DEF ImageInv, ImagesTyped, Referred, Referring, ImageOf
<1>3. Inserts'
  BY <1>0 DEF ImageInv, Inserts, Writes, ImageOf
<1>4. Purged'
  <2>1. \A i \in Image : Referring(i)' => Referring(i)
    BY <1>0, NoneIsNothing DEF ImageInv, ImagesTyped, Referring, ImageOf
  <2> QED BY <1>0, <2>1 DEF ImageInv, Purged
<1>5. RowsHaveFiles'
  BY <1>0 DEF ImageInv, ImagesTyped, RowsHaveFiles
<1>6. Taking'
  <2>1. \A u \in Upload : user[u] # None => token'[u] = token[u]
    BY <1>0 DEF Referring
  <2>2. \A p \in Post : task[p] = "complete" => UploadOf(p) \in Upload
    BY BoundPosts DEF ImageInv, Taking, PostsTyped
  <2> QED BY <1>0, <2>1, <2>2, NoneIsNothing DEF ImageInv, Taking, HasImage, UploadOf
<1>7. Stored'
  BY <1>0, NoneIsNothing DEF ImageInv, Stored, Past
<1>8. Spent'
  <2>1. \A p \in stored : HasImage(p) => holds'[p] # None \/ p \in removed'
    BY <1>0 DEF ImageInv, Spent, PostsKeepImages, Stored, Past
  <2>2. \A p \in withImage : UploadOf(p) \in Upload
    BY BoundPosts DEF ImageInv, Spent, Stored, Past, PastSteps, PostsTyped
  <2> QED BY <1>0, <2>1, <2>2 DEF ImageInv, Spent, PostsKeepImages, HasImage, UploadOf
<1>9. PostsTyped'
  BY <1>0, PostsTypedStays DEF ImageInv
<1> QED BY <1>1, <1>2, <1>3, <1>4, <1>5, <1>6, <1>7, <1>8, <1>9

LEMMA ScanUnusedKeeps ==
    ASSUME ImageInv, ScanUnused, UNCHANGED postVars
    PROVE  ImageInv'
<1>0. /\ UNCHANGED <<images, token, holds, files, torn, upload, user, purge, removed, failures, bound>>
      /\ UNCHANGED <<task, stored, editing, feed, lost, withImage>>
      /\ cleanup' = [at |-> "deleting", images |-> Unused, held |-> {p \in Post : holds[p] # None}]
  BY DEF ScanUnused, rowVars, postVars
<1>1. Cleaned'
  <2>1. Unused \subseteq images /\ \A p \in Post : holds[p] \notin Unused
    BY DEF Unused
  <2>2. {p \in Post : holds[p] # None} \subseteq Past /\ Past' = Past
    BY <1>0 DEF ImageInv, Stored, Past
  <2>3. images \subseteq Image
    BY DEF ImageInv, ImagesTyped
  <2> QED BY <1>0, <2>1, <2>2, <2>3 DEF Cleaned
<1> QED BY <1>0, <1>1, ImagesTypedStays, PostsTypedStays, ReferredStays, InsertsStays, PurgedStays,
           RowsHaveFilesStays, TakingStays, StoredStays, SpentStays DEF ImageInv

LEMMA DeleteUnusedKeeps ==
    ASSUME ImageInv, DeleteUnused, UNCHANGED postVars
    PROVE  ImageInv'
<1> DEFINE gone == cleanup.images
<1>0. /\ cleanup.at = "deleting" /\ gone \subseteq Image
      /\ \A p \in cleanup.held : holds[p] \notin gone
  BY DEF DeleteUnused, ImageInv, Cleaned, Rest
<1>1. /\ ImagesTyped' /\ PostsTyped' /\ Referred' /\ Inserts' /\ Purged' /\ RowsHaveFiles'
      /\ Taking' /\ Stored' /\ Spent'
  <2>1. \A i \in gone : ~Referring(i) /\ ~Purging(i)
    BY DEF DeleteUnused
  <2>2. Cascade(gone) /\ UNCHANGED <<files, torn, upload, user, purge, failures, bound>>
    BY DEF DeleteUnused
  <2>3. removed \cup {p \in Post : holds[p] \in gone} \subseteq removed'
    BY <1>0 DEF DeleteUnused
  <2>4. \A i \in Image : Purging(i)' = Purging(i)
    BY <2>2 DEF Purging
  <2> QED BY <1>0, <2>1, <2>2, <2>3, <2>4, CascadeKeeps
<1>2. Cleaned'
  BY <1>0 DEF DeleteUnused, Cleaned
<1> QED BY <1>1, <1>2 DEF ImageInv

LEMMA DeleteFilesKeeps ==
    ASSUME ImageInv, NEW i \in Image, DeleteFiles(i), UNCHANGED postVars
    PROVE  ImageInv'
<1>0. /\ UNCHANGED <<images, token, holds, upload, user, purge, removed, failures, bound>>
      /\ UNCHANGED <<task, stored, editing, feed, lost, withImage>>
      /\ files' = files \ {i}
      /\ torn' = IF i \in images \/ Inserting(i) THEN torn \cup {i} ELSE torn
  BY DEF DeleteFiles, rowVars, postVars
<1>1. Cleaned'
  BY <1>0 DEF DeleteFiles, ImageInv, Cleaned, Rest
<1>2. ImagesTyped' /\ RowsHaveFiles'
  BY <1>0 DEF ImageInv, ImagesTyped, RowsHaveFiles, Purging
<1>3. Inserts'
  BY <1>0 DEF ImageInv, Inserts, Writes, ImageOf, Inserting
<1> QED BY <1>0, <1>1, <1>2, <1>3, PostsTypedStays, ReferredStays, PurgedStays, TakingStays,
           StoredStays, SpentStays DEF ImageInv

LEMMA FinishCleanupKeeps ==
    ASSUME ImageInv, FinishCleanup, UNCHANGED postVars
    PROVE  ImageInv'
<1>0. /\ UNCHANGED <<images, token, holds, files, torn, upload, user, purge, removed, failures, bound>>
      /\ UNCHANGED <<task, stored, editing, feed, lost, withImage>>
      /\ cleanup' = Rest
  BY DEF FinishCleanup, rowVars, postVars
<1>1. Cleaned'
  BY <1>0 DEF Cleaned, Rest
<1> QED BY <1>0, <1>1, ImagesTypedStays, PostsTypedStays, ReferredStays, InsertsStays, PurgedStays,
           RowsHaveFilesStays, TakingStays, StoredStays, SpentStays DEF ImageInv

LEMMA DeleteImageKeeps ==
    ASSUME ImageInv, NEW p \in Post, DeleteImage(p), UNCHANGED postVars
    PROVE  ImageInv'
<1>0. /\ UNCHANGED <<images, token, files, torn, upload, user, cleanup, purge, failures, bound>>
      /\ UNCHANGED <<task, stored, editing, feed, lost, withImage>>
      /\ holds' = [holds EXCEPT ![p] = None] /\ removed' = removed \cup {p}
  BY DEF DeleteImage, postVars
<1>1. ImagesTyped' /\ Referred'
  BY <1>0 DEF ImageInv, ImagesTyped, Referred, ImageOf
<1>2. Stored' /\ Spent'
  BY <1>0 DEF ImageInv, ImagesTyped, Stored, Past, Spent, PostsKeepImages, HasImage, UploadOf
<1>3. Cleaned'
  BY <1>0, NoneIsNothing DEF ImageInv, ImagesTyped, Cleaned, Past, Rest
<1> QED BY <1>0, <1>1, <1>2, <1>3, PostsTypedStays, InsertsStays, PurgedStays, RowsHaveFilesStays,
           TakingStays DEF ImageInv

LEMMA ReadPostKeeps ==
    ASSUME ImageInv, NEW p \in Post, ReadPost(p), UNCHANGED postVars
    PROVE  ImageInv'
<1>0. /\ UNCHANGED <<images, token, holds, files, torn, upload, user, cleanup, removed, failures, bound>>
      /\ UNCHANGED <<task, stored, editing, feed, lost, withImage>>
      /\ purge = Rest /\ purge' = [at |-> "read", image |-> holds[p], rows |-> {}]
      /\ holds[p] \in Image
  BY DEF ReadPost, rowVars, postVars, ImageInv, ImagesTyped
<1>1. Purged' /\ RowsHaveFiles'
  BY <1>0 DEF ImageInv, Purged, Purging, RowsHaveFiles, Rest
<1> QED BY <1>0, <1>1, ImagesTypedStays, PostsTypedStays, ReferredStays, InsertsStays, TakingStays,
           StoredStays, SpentStays, CleanedStays DEF ImageInv

LEMMA PurgeFilesKeeps ==
    ASSUME ImageInv, PurgeFiles, UNCHANGED postVars
    PROVE  ImageInv'
<1>0. /\ UNCHANGED <<images, token, holds, upload, user, cleanup, removed, failures, bound>>
      /\ UNCHANGED <<task, stored, editing, feed, lost, withImage>>
      /\ purge.at = "read" /\ ~Referring(purge.image)
      /\ purge' = [purge EXCEPT !.at = "deleted", !.rows = images \cap {purge.image}]
      /\ files' = files \ {purge.image}
      /\ torn' = IF Inserting(purge.image) THEN torn \cup {purge.image} ELSE torn
  BY DEF PurgeFiles, rowVars, postVars
<1>1. purge \in [at : {"read", "deleted"}, image : Image, rows : SUBSET Image]
  BY <1>0 DEF ImageInv, Purged, Rest
<1>2. purge' = [at |-> "deleted", image |-> purge.image, rows |-> images \cap {purge.image}]
      /\ purge.image \in Image
  BY <1>0, <1>1
<1>3. ImagesTyped'
  BY <1>0, <1>2 DEF ImageInv, ImagesTyped
<1>4. Purged'
  BY <1>0, <1>2 DEF Purged, Purging, Referring, ImageOf
<1>5. RowsHaveFiles'
  BY <1>0, <1>1, <1>2 DEF ImageInv, RowsHaveFiles, Purging
<1>6. Inserts'
  BY <1>0 DEF ImageInv, Inserts, Writes, ImageOf, Inserting
<1> QED BY <1>0, <1>3, <1>4, <1>5, <1>6, PostsTypedStays, ReferredStays, TakingStays, StoredStays,
           SpentStays, CleanedStays DEF ImageInv

LEMMA CommitPurgeKeeps ==
    ASSUME ImageInv, CommitPurge, UNCHANGED postVars
    PROVE  ImageInv'
<1> DEFINE gone == purge.rows
<1>0. /\ purge.at = "deleted" /\ purge' = Rest /\ UNCHANGED cleanup
      /\ Cascade(gone) /\ UNCHANGED <<files, torn, upload, user, failures, bound>>
      /\ removed' = removed \cup {p \in Post : holds[p] \in gone}
  BY DEF CommitPurge
<1>1. gone \subseteq Image /\ \A i \in gone : ~Referring(i)
  BY <1>0 DEF ImageInv, Purged, Purging, Rest
<1>2. \A i \in Image : ~Purging(i)' /\ (Purging(i) => i \in gone)
  BY <1>0 DEF Purging, Rest
<1>3. /\ ImagesTyped' /\ PostsTyped' /\ Referred' /\ Inserts' /\ Purged' /\ RowsHaveFiles'
      /\ Taking' /\ Stored' /\ Spent'
  BY <1>0, <1>1, <1>2, CascadeKeeps
<1>4. Cleaned'
  <2>1. holds' = [p \in Post |-> IF holds[p] \in gone THEN None ELSE holds[p]] /\ UNCHANGED task
    BY <1>0 DEF Cascade, postVars
  <2> QED BY <1>0, <2>1, NoneIsNothing DEF ImageInv, Cleaned, Past, Rest
<1> QED BY <1>3, <1>4 DEF ImageInv

LEMMA RollBackPurgeKeeps ==
    ASSUME ImageInv, RollBackPurge, UNCHANGED postVars
    PROVE  ImageInv'
<1>0. /\ UNCHANGED <<images, token, holds, files, upload, user, cleanup, removed, bound>>
      /\ UNCHANGED <<task, stored, editing, feed, lost, withImage>>
      /\ purge.at = "deleted" /\ purge' = Rest /\ torn' = torn \cup purge.rows
      /\ failures < bound.failures /\ failures' = failures + 1
  BY DEF RollBackPurge, rowVars, postVars
<1>1. ImagesTyped'
  <2>1. purge.rows \subseteq Image
    BY <1>0 DEF ImageInv, Purged, Rest
  <2> QED BY <1>0, <2>1, BoundUploads DEF ImageInv, ImagesTyped
<1>2. Purged' /\ RowsHaveFiles'
  BY <1>0 DEF ImageInv, Purged, Purging, RowsHaveFiles, Rest
<1>3. Inserts'
  BY <1>0 DEF ImageInv, Inserts, Writes, ImageOf
<1> QED BY <1>0, <1>1, <1>2, <1>3, PostsTypedStays, ReferredStays, TakingStays, StoredStays,
           SpentStays, CleanedStays DEF ImageInv

LEMMA ImagesKeep ==
    ASSUME ImageInv, UNCHANGED postVars,
           ImagesStep \/ \E u \in Upload : UploadStep(u)
    PROVE  ImageInv'
<1>1. ASSUME NEW u \in Upload, UploadStep(u)
      PROVE  ImageInv'
  BY <1>1, UploadStepsKeep, WriteFilesKeeps, CommitKeeps DEF UploadStep
<1>2. CASE ImagesStep
  BY <1>2, UploadStepsKeep, ExpireTokenKeeps, ScanUnusedKeeps, DeleteUnusedKeeps, FinishCleanupKeeps,
     DeleteFilesKeeps, DeleteImageKeeps, ReadPostKeeps, PurgeFilesKeeps, CommitPurgeKeeps,
     RollBackPurgeKeeps DEF ImagesStep
<1> QED BY <1>1, <1>2

(***************************************************************************)
(* Posts.                                                                  *)
(***************************************************************************)
\* A step of a post that is not about its image.
LEMMA TaskKeeps ==
    ASSUME ImageInv, NEW p \in Post, NEW at \in TaskSteps \ {"idle", "complete"},
           p \in DOMAIN bound.posts, task[p] # "complete",
           task[p] \in PastSteps => at \in PastSteps,
           HasImage(p) => at = "ended" \/ upload[UploadOf(p)] = "answered",
           task' = [task EXCEPT ![p] = at],
           editing' \subseteq editing, feed' \subseteq Post,
           UNCHANGED <<imageVars, stored, lost, withImage>>
    PROVE  ImageInv'
<1>0. UNCHANGED <<images, token, holds, files, upload, user, cleanup, purge, removed, torn, failures, bound>>
  BY DEF imageVars, rowVars, cleanVars
<1>1. PostsTyped'
  BY <1>0 DEF ImageInv, PostsTyped
<1>2. Taking'
  BY <1>0 DEF ImageInv, PostsTyped, ImagesTyped, Taking, HasImage, UploadOf
<1>3. Past \subseteq Past'
  BY DEF ImageInv, PostsTyped, Past
<1>4. Stored'
  BY <1>0, <1>3 DEF ImageInv, Stored
<1>5. Cleaned'
  BY <1>0, <1>3 DEF ImageInv, Cleaned
<1> QED BY <1>0, <1>1, <1>2, <1>4, <1>5, ImagesTypedStays, ReferredStays, InsertsStays, PurgedStays,
           RowsHaveFilesStays, SpentStays DEF ImageInv

LEMMA ReceiveKeeps ==
    ASSUME ImageInv, NEW p \in Post, Receive(p)
    PROVE  ImageInv'
<1>1. PICK at \in {"ended", "received"} :
         /\ task' = [task EXCEPT ![p] = at]
         /\ HasImage(p) => at = "ended" \/ upload[UploadOf(p)] = "answered"
  BY DEF Receive, End, Move
<1>2. at \in TaskSteps \ {"idle", "complete"} /\ "idle" \notin PastSteps
  BY DEF TaskSteps, PastSteps
<1>3. feed \subseteq Post
  BY DEF ImageInv, PostsTyped
<1> QED BY <1>1, <1>2, <1>3, TaskKeeps DEF Receive

\* Where each step of a post leads, but for those about its image
LEMMA TaskMoves ==
    ASSUME ImageInv, NEW p \in Post,
           \/ ConstructPost(p) \/ Parsed(p) \/ InsertPost(p) \/ Announce(p) \/ ParseBody(p)
           \/ ClosePost(p) \/ Leave(p)
           \/ InsertImage(p) /\ token[UploadOf(p)] = None
    PROVE  /\ \E at \in TaskSteps \ {"idle", "complete"} :
                /\ task' = [task EXCEPT ![p] = at]
                /\ task[p] \in PastSteps => at \in PastSteps
           /\ task[p] \notin {"idle", "complete"}
           /\ task[p] = "ended" => ~HasImage(p)
           /\ editing' \subseteq editing /\ feed' \subseteq Post
           /\ UNCHANGED <<imageVars, stored, lost, withImage>>
<1> USE DEF TaskSteps, PastSteps
<1>0. feed \subseteq Post /\ editing \subseteq stored
  BY DEF ImageInv, PostsTyped, Stored
<1>1. CASE ConstructPost(p)
  BY <1>0, <1>1 DEF ConstructPost, Move
<1>2. CASE Parsed(p)
  BY <1>0, <1>2 DEF Parsed, Move, End
<1>3. CASE InsertPost(p)
  BY <1>0, <1>3 DEF InsertPost, FailTransaction, Move, End
<1>4. CASE Announce(p)
  BY <1>0, <1>4 DEF Announce, Move
<1>5. CASE ParseBody(p)
  BY <1>0, <1>5 DEF ParseBody, Move
<1>6. CASE ClosePost(p)
  BY <1>0, <1>6 DEF ClosePost, Move
<1>7. CASE Leave(p)
  BY <1>0, <1>7 DEF Leave, Move
<1>8. CASE InsertImage(p) /\ token[UploadOf(p)] = None
  BY <1>0, <1>8 DEF InsertImage, FailTransaction, Move, End, imageVars
<1> QED BY <1>1, <1>2, <1>3, <1>4, <1>5, <1>6, <1>7, <1>8

LEMMA TaskStepsKeep ==
    ASSUME ImageInv, NEW p \in Post,
           \/ ConstructPost(p) \/ Parsed(p) \/ InsertPost(p) \/ Announce(p) \/ ParseBody(p)
           \/ ClosePost(p) \/ Leave(p)
           \/ InsertImage(p) /\ token[UploadOf(p)] = None
    PROVE  ImageInv'
<1>1. PICK at \in TaskSteps \ {"idle", "complete"} :
         task' = [task EXCEPT ![p] = at] /\ (task[p] \in PastSteps => at \in PastSteps)
  BY TaskMoves
<1>2. task[p] # "idle" /\ p \in DOMAIN bound.posts
  BY TaskMoves DEF ImageInv, PostsTyped
<1>3. HasImage(p) => upload[UploadOf(p)] = "answered"
  BY TaskMoves, <1>2 DEF ImageInv, Taking
<1> QED BY <1>1, <1>2, <1>3, TaskMoves, TaskKeeps

LEMMA InsertImageKeeps ==
    ASSUME ImageInv, NEW p \in Post, InsertImage(p), token[UploadOf(p)] # None
    PROVE  ImageInv'
<1> DEFINE t == UploadOf(p)
<1>0. /\ UNCHANGED <<images, token, holds, files, upload, cleanup, purge, removed, torn, failures, bound>>
      /\ UNCHANGED <<stored, editing, feed, lost, withImage>>
      /\ task[p] = "inserted" /\ HasImage(p) /\ user[t] = None /\ ~Purging(token[t])
      /\ user' = [user EXCEPT ![t] = p] /\ task' = [task EXCEPT ![p] = "complete"]
  BY DEF InsertImage, TokenFree, Move, rowVars, cleanVars
<1>1. p \in DOMAIN bound.posts /\ t \in Upload /\ upload[t] = "answered"
  BY <1>0, BoundPosts DEF ImageInv, PostsTyped, Taking
<1>2. ImagesTyped' /\ PostsTyped'
  BY <1>0, <1>1 DEF ImageInv, ImagesTyped, PostsTyped, TaskSteps
<1>3. Purged'
  <2>1. \A i \in Image : Purging(i)' = Purging(i)
    BY <1>0 DEF Purging
  <2>2. \A i \in Image : Referring(i)' => Referring(i) \/ i = token[t]
    BY <1>0, <1>1 DEF ImageInv, ImagesTyped, Referring, ImageOf
  <2> QED BY <1>0, <2>1, <2>2 DEF ImageInv, Purged
<1>4. Taking'
  BY <1>0, <1>1, NoneIsNothing
     DEF ImageInv, ImagesTyped, PostsTyped, Taking, HasImage, UploadOf
<1>5. Past \subseteq Past'
  BY <1>0 DEF ImageInv, PostsTyped, Past, PastSteps
<1>6. Stored' /\ Cleaned'
  BY <1>0, <1>5 DEF ImageInv, Stored, Cleaned
<1> QED BY <1>0, <1>2, <1>3, <1>4, <1>6, ReferredStays, InsertsStays, RowsHaveFilesStays, SpentStays
        DEF ImageInv

LEMMA CommitPostKeeps ==
    ASSUME ImageInv, NEW p \in Post, CommitPost(p)
    PROVE  ImageInv'
<1> DEFINE t == UploadOf(p)
<1>0. /\ UNCHANGED <<images, files, upload, cleanup, purge, removed, torn, failures, bound, feed, lost>>
      /\ task[p] \in {"inserted", "complete"} /\ (task[p] = "inserted" => ~HasImage(p))
      /\ holds' = [holds EXCEPT ![p] = IF HasImage(p) THEN token[t] ELSE None]
      /\ token' = [u \in Upload |-> IF user[u] = p THEN None ELSE token[u]]
      /\ user' = [u \in Upload |-> IF user[u] = p THEN None ELSE user[u]]
      /\ withImage' = IF HasImage(p) THEN withImage \cup {p} ELSE withImage
      /\ stored' = stored \cup {p} /\ editing' \subseteq editing \cup {p}
      /\ task' = [task EXCEPT ![p] = "created"]
  BY DEF CommitPost, cleanVars, Move
<1>1. HasImage(p) <=> task[p] = "complete"
  BY <1>0 DEF ImageInv, Taking
<1>2. HasImage(p) => /\ t \in Upload /\ user[t] = p /\ token[t] \in Image
                     /\ upload[t] = "answered"
  BY <1>0, <1>1, BoundPosts DEF ImageInv, PostsTyped, ImagesTyped, Taking
<1>3. \A u \in Upload : user[u] = p <=> HasImage(p) /\ u = t
  BY <1>1, <1>2, NoneIsNothing DEF ImageInv, Taking
<1>4. p \notin Past /\ p \notin stored \cup lost \cup withImage
  BY <1>0 DEF ImageInv, Stored, Past, PastSteps
<1>5. Past' = Past \cup {p}
  BY <1>0 DEF ImageInv, PostsTyped, Past, PastSteps
<1>6. ImagesTyped' /\ PostsTyped'
  BY <1>0, <1>2 DEF ImageInv, ImagesTyped, PostsTyped, TaskSteps, PastSteps
<1>7. Referred'
  BY <1>0, <1>2 DEF ImageInv, ImagesTyped, Referred, ImageOf
<1>8. Purged'
  <2>1. \A i \in Image : Purging(i)' = Purging(i)
    BY <1>0 DEF Purging
  <2>2. \A i \in Image : Referring(i)' => Referring(i)
    BY <1>0 DEF Referring, ImageOf
  <2> QED BY <1>0, <2>1, <2>2 DEF ImageInv, Purged
<1>9. Taking'
  <2> SUFFICES /\ \A q \in Post : task'[q] = "complete" =>
                     HasImage(q) /\ user'[UploadOf(q)] = q /\ token'[UploadOf(q)] # None
               /\ \A u \in Upload : user'[u] # None =>
                     task'[user'[u]] = "complete" /\ UploadOf(user'[u]) = u
               /\ \A q \in Post : task'[q] \notin {"idle", "ended"} /\ HasImage(q) =>
                     upload[UploadOf(q)] = "answered"
    BY <1>0 DEF Taking, HasImage, UploadOf
  <2>1. \A q \in Post \ {p} : task'[q] = task[q]
    BY <1>0 DEF ImageInv, PostsTyped
  <2>2. task'[p] = "created"
    BY <1>0 DEF ImageInv, PostsTyped
  <2>3. \A q \in Post : task'[q] = "complete" =>
           HasImage(q) /\ user'[UploadOf(q)] = q /\ token'[UploadOf(q)] # None
    <3> SUFFICES ASSUME NEW q \in Post, task'[q] = "complete"
                 PROVE  HasImage(q) /\ user'[UploadOf(q)] = q /\ token'[UploadOf(q)] # None
      OBVIOUS
    <3>1. q # p /\ task[q] = "complete"
      BY <2>1, <2>2
    <3>2. HasImage(q) /\ user[UploadOf(q)] = q /\ token[UploadOf(q)] # None
      BY <3>1 DEF ImageInv, Taking
    <3>3. UploadOf(q) \in Upload
      BY <3>1, <3>2, BoundPosts DEF ImageInv, PostsTyped
    <3> QED BY <1>0, <3>1, <3>2, <3>3
  <2>4. \A u \in Upload : user'[u] # None => user'[u] = user[u] /\ user[u] \in Post \ {p}
    BY <1>0 DEF ImageInv, ImagesTyped
  <2>5. \A u \in Upload : user'[u] # None => task'[user'[u]] = "complete" /\ UploadOf(user'[u]) = u
    BY <2>1, <2>4 DEF ImageInv, Taking
  <2> QED BY <1>2, <2>1, <2>3, <2>5 DEF ImageInv, Taking
<1>10. Stored'
  BY <1>0, <1>4, <1>5, NoneIsNothing DEF ImageInv, ImagesTyped, Stored
<1>11. Spent'
  <2>1. \A q \in withImage : /\ q # p /\ UploadOf(q) \in Upload /\ token'[UploadOf(q)] = None
                             /\ HasImage(p) => UploadOf(q) # t
    <3> SUFFICES ASSUME NEW q \in withImage
                 PROVE  /\ q # p /\ UploadOf(q) \in Upload /\ token'[UploadOf(q)] = None
                        /\ HasImage(p) => UploadOf(q) # t
      OBVIOUS
    <3>1. q # p /\ q \in Post /\ HasImage(q) /\ token[UploadOf(q)] = None
      BY <1>4 DEF ImageInv, Spent, Stored, Past
    <3>2. UploadOf(q) \in Upload
      BY <3>1, BoundPosts DEF ImageInv, Stored, Past, PastSteps, PostsTyped
    <3> QED BY <1>0, <1>2, <3>1, <3>2, NoneIsNothing
  <2>2. HasImage(p) => token'[t] = None /\ holds'[p] # None /\ p \in withImage'
    BY <1>0, <1>2, NoneIsNothing DEF ImageInv, ImagesTyped
  <2>3. \A q \in stored : holds'[q] = holds[q]
    BY <1>0, <1>4 DEF ImageInv, ImagesTyped, Stored, Past
  <2>4. /\ \A q \in stored' : HasImage(q) => q \in withImage' /\ (holds'[q] # None \/ q \in removed')
        /\ \A q, r \in withImage' : q # r => UploadOf(q) # UploadOf(r)
    BY <1>0, <2>1, <2>2, <2>3 DEF ImageInv, Spent, PostsKeepImages
  <2>5. \A q \in withImage' : HasImage(q) /\ token'[UploadOf(q)] = None /\ upload'[UploadOf(q)] = "answered"
    BY <1>0, <1>2, <2>1, <2>2 DEF ImageInv, Spent
  <2> QED BY <1>0, <2>4, <2>5 DEF Spent, PostsKeepImages, HasImage, UploadOf
<1>12. Cleaned'
  BY <1>0, <1>4, <1>5 DEF ImageInv, ImagesTyped, Cleaned, Past
<1>13. Inserts' /\ RowsHaveFiles'
  BY <1>0, InsertsStays, RowsHaveFilesStays DEF ImageInv
<1> QED BY <1>6, <1>7, <1>8, <1>9, <1>10, <1>11, <1>12, <1>13 DEF ImageInv

LEMMA DeleteThreadKeeps ==
    ASSUME ImageInv, DeleteThread
    PROVE  ImageInv'
<1> DEFINE gone == {p \in stored : KindOf(p) # "thread"}
<1>0. /\ UNCHANGED <<images, token, files, upload, user, cleanup, purge, removed, torn, failures, bound>>
      /\ UNCHANGED <<task, feed, withImage>>
      /\ stored' = stored \ gone /\ editing' = editing \ gone /\ lost' = lost \cup gone
      /\ holds' = [p \in Post |-> IF p \in gone THEN None ELSE holds[p]]
      /\ gone \subseteq stored
  BY DEF DeleteThread, cleanVars
<1> HIDE DEF gone
<1>1. ImagesTyped' /\ Referred'
  BY <1>0 DEF ImageInv, ImagesTyped, Referred, ImageOf
<1>2. Stored' /\ Spent'
  BY <1>0 DEF ImageInv, Stored, Past, Spent, PostsKeepImages, HasImage, UploadOf
<1>3. Cleaned'
  BY <1>0, NoneIsNothing DEF ImageInv, Cleaned, Past, Rest
<1> QED BY <1>0, <1>1, <1>2, <1>3, PostsTypedStays, InsertsStays, PurgedStays, RowsHaveFilesStays,
           TakingStays DEF ImageInv

LEMMA ImageStep == ImageInv /\ [Next]_vars => ImageInv'
<1> SUFFICES ASSUME ImageInv, [Next]_vars PROVE ImageInv'
  OBVIOUS
<1>1. CASE UNCHANGED vars
  BY <1>1, ImagesTypedStays, PostsTypedStays, ReferredStays, InsertsStays, PurgedStays,
     RowsHaveFilesStays, TakingStays, StoredStays, SpentStays, CleanedStays
     DEF ImageInv, vars, imageVars, rowVars, cleanVars, postVars
<1>2. ASSUME UNCHANGED <<imageVars, postVars>> PROVE ImageInv'
  BY <1>2, ImagesTypedStays, PostsTypedStays, ReferredStays, InsertsStays, PurgedStays,
     RowsHaveFilesStays, TakingStays, StoredStays, SpentStays, CleanedStays
     DEF ImageInv, imageVars, rowVars, cleanVars, postVars
<1>3. ASSUME NEW p \in Post, Receive(p) \/ PostStep(p) PROVE ImageInv'
  BY <1>3, ReceiveKeeps, TaskStepsKeep, InsertImageKeeps, CommitPostKeeps DEF PostStep
<1>4. CASE DeleteThread
  BY <1>4, DeleteThreadKeeps
<1>5. CASE (ImagesStep \/ \E u \in Upload : UploadStep(u)) /\ Apart
  BY <1>5, ImagesKeep DEF Apart
<1> QED BY <1>1, <1>2, <1>3, <1>4, <1>5 DEF Next, Progress, Upkeep, Alone

\* Posting.tla: a post that came with an image is stored with it or not at all and
\* keeps it until it is removed (post_creation.go:72), a token serves one post, and a
\* row of images has its files (images.go:100), whatever uploads, posts, cleanups,
\* purges and failures overlap.
THEOREM ImagesAreKept == Spec => []ImagesHold
<1>1. ImageInv => ImagesHold
  <2> SUFFICES ASSUME ImageInv PROVE ImagesHold
    OBVIOUS
  <2>1. ImagesTypeOK
    BY DEF ImageInv, ImagesTypeOK, ImagesTyped, Referred
  <2>2. TypeOK
    BY <2>1 DEF ImageInv, TypeOK, Stored, PostsTyped
  <2> QED BY <2>2 DEF ImageInv, ImagesHold, Spent
<1> QED BY <1>1, ImageInit, ImageStep, PTL DEF Spec

(***************************************************************************)
(* The invariant of the commands.                                          *)
(***************************************************************************)
Words == {"pyu", "pcount", "roulette", "rcount"}
PyuSteps == {"write", "limit", "restricted", "refuse", "restrict", "increment", "count", "left",
             "decrement"}

\* Steps at which the transaction of a command has written nothing
Clear == Words \cup {"parse", "parsed", "failed", "load", "closed", "swept", "lost", "tally", "done"}

Command == [at : Clear \cup PyuSteps \cup {"roll", "commit", "tallied"}, i : Nat \ {0},
            thread : BOOLEAN, slut : BOOLEAN, results : Seq(Seq(Nat)), n : Nat]
Limit == [count : 0..255, restricted : BOOLEAN]
Value == Nat \cup Limit
Transaction == UNION {[K -> Value] : K \in SUBSET Column}

CommandsTyped ==
    /\ cmd \in [Post -> {NoCommand} \cup Command]
    /\ own \in [Post -> Transaction]
    /\ row \in [Column -> Value \cup {None}]
    /\ counted \in [IP -> Nat]
    /\ together \subseteq IP

\* What a row has in each of its columns, and what a transaction writes there: the
\* revolver is empty only before it is loaded again
Committed ==
    /\ row["scount"] \in 1..Chambers /\ {row["pyu"], row["rcount"]} \subseteq Nat
    /\ \A i \in IP : row[i] \in Limit \cup {None}
Written(p, k) ==
    /\ k \in IP => own[p][k] \in Limit /\ k = IPOf[p] /\ InPyu(p)
    /\ k = "scount" => own[p][k] \in IF At(p, "roll") THEN {cmd[p].n - 1} ELSE 1..Chambers
    /\ k = "rcount" => own[p][k] \in Nat \ {0}
    /\ k = "pyu" => own[p][k] \in Nat

\* A post runs the command that comes next in its body.
Spoken(p) ==
    /\ cmd[p].at \in Words => Word(p) = cmd[p].at
    /\ cmd[p].at \in PyuSteps => Word(p) = "pyu"
    /\ cmd[p].at \in {"load", "roll"} => Word(p) = "roulette" /\ cmd[p].n \in 1..Chambers
    /\ At(p, "roll") => "scount" \in DOMAIN own[p]
    /\ cmd[p].at \in Clear \cup {"idle"} => own[p] = <<>>
    /\ \A k \in DOMAIN own[p] : Written(p, k)

\* A limit that was found or written is still there.
Known ==
    \A p \in Post : cmd[p].at \in PyuSteps \ {"write"} => View(p, IPOf[p]) # None

\* Who has lost is banned before the tally, which a transaction raises.
Tallied ==
    /\ \A p \in Post : cmd[p].at \in {"lost", "tally", "tallied"} /\ there => p \in banned
    /\ \A p \in Post : At(p, "tallied") /\ there => "rcount" \in DOMAIN own[p]
    /\ LosersAreBanned

\* The limit v of an IP before and after a use of #pyu, c of which were counted, and
\* in the middle of one
Even(v, c) == v # None /\ v.count + c = PyuLimit /\ (v.restricted <=> v.count = 0)
Used(v, c) == v # None /\ v.count + c = PyuLimit /\ v.count > 0 /\ (v.restricted <=> v.count = 1)

Limited(p, v, c) ==
    /\ cmd[p].at \in {"limit", "restricted", "refuse", "restrict", "commit"} => Even(v, c)
    /\ cmd[p].at \in {"restricted", "restrict", "decrement"} => cmd[p].n = v.count
    /\ At(p, "write") => own[p] = <<>>
    /\ At(p, "restrict") => v.count = 1
    /\ cmd[p].at \in {"increment", "count", "left", "decrement"} => Used(v, c)

\* Uses of #pyu of one IP that do not overlap
Single(i) ==
    \A p, q \in Post : IPOf[p] = i /\ IPOf[q] = i /\ InPyu(p) /\ InPyu(q) => p = q
Settled(i) ==
    (\A p \in Post : IPOf[p] = i => ~(InPyu(p) /\ At(p, "commit"))) =>
        IF row[i] = None THEN counted[i] = 0 ELSE Even(row[i], counted[i])
LimitKept(i) ==
    /\ Single(i) /\ Settled(i)
    /\ \A p \in Post : IPOf[p] = i /\ InPyu(p) => Limited(p, View(p, i), counted[i])
Limits == \A i \in IP \ together : LimitKept(i)

\* No command runs of a post that has none to run.
Quiet ==
    /\ \A p \in Post : task[p] \in {"idle", "received", "open"} => At(p, "idle")
    /\ \A p \in Post : task[p] = "dangling" => At(p, "failed")
    /\ \A p \in Post : task[p] \in {"parsing", "construct", "inserted", "complete", "created"}
                         /\ KindOf(p) = "open" => At(p, "idle")

CommandInv == /\ CommandsTyped /\ Committed /\ (\A p \in Post : Spoken(p)) /\ Known /\ Tallied
              /\ Limits /\ Quiet

(***************************************************************************)
(* Facts about constants, words and transactions.                          *)
(***************************************************************************)
LEMMA ByteRange == \A n \in Int : Byte(n) \in 0..255
  BY DEF Byte

LEMMA ByteSmall == \A n \in 0..255 : Byte(n) = n
  BY DEF Byte

LEMMA ChambersRange == Chambers \in 1..Chambers /\ Chambers \in Nat
<1>1. Chambers \in 1..255
  BY CommandsAssumption
<1> QED BY <1>1

LEMMA Columns ==
    /\ {"pyu", "scount", "rcount"} \subseteq Column /\ IP \subseteq Column
    /\ {"pyu", "scount", "rcount", None} \cap IP = {}
    /\ None \notin Limit
    /\ \A p \in Post : IPOf[p] \in IP
    /\ Column = {"pyu", "scount", "rcount"} \cup IP
  BY CommandsAssumption DEF Column, Limit

LEMMA WordIsKnown ==
    ASSUME ImageInv, CommandInv, NEW p \in Post, At(p, "parse"), ~(cmd[p].i > Len(Said(p)))
    PROVE  Word(p) \in Words
<1>1. cmd[p].i \in Nat \ {0}
  BY DEF CommandInv, CommandsTyped, Command, NoCommand, At
<1>2. p \in DOMAIN bound.posts /\ bound \in PostBounds
  BY DEF ImageInv, ImagesTyped, PostsTyped, CommandInv, Quiet, At
<1>3. Said(p) \in Seq(Words)
  BY <1>2, CommandsAssumption DEF Said, Words
<1>4. cmd[p].i \in 1..Len(Said(p))
  BY <1>1, <1>3, LenProperties
<1> QED BY <1>3, <1>4, ElementOfSeq DEF Word

LEMMA Nothing == <<>> \in Transaction /\ DOMAIN <<>> = {}
<1>1. <<>> \in [{} -> Value]
  OBVIOUS
<1> QED BY <1>1 DEF Transaction

LEMMA TransactionType ==
    ASSUME NEW t \in Transaction
    PROVE  /\ DOMAIN t \subseteq Column
           /\ \A k \in DOMAIN t : t[k] \in Value
           /\ t \in [DOMAIN t -> Value]
  BY DEF Transaction

LEMMA PutWrites ==
    ASSUME CommandsTyped, NEW p \in Post, NEW k \in Column, NEW v \in Value, Put(p, k, v)
    PROVE  /\ own' \in [Post -> Transaction]
           /\ \A q \in Post \ {p} : own'[q] = own[q]
           /\ DOMAIN own'[p] = DOMAIN own[p] \cup {k} /\ own'[p][k] = v
           /\ \A j \in DOMAIN own[p] \ {k} : own'[p][j] = own[p][j]
<1> DEFINE t == Over([j \in {k} |-> v], own[p])
<1>1. own \in [Post -> Transaction] /\ own[p] \in Transaction
  BY DEF CommandsTyped
<1>2. own' = [own EXCEPT ![p] = t]
  BY DEF Put
<1>3. t = [j \in {k} \cup DOMAIN own[p] |-> IF j = k THEN v ELSE own[p][j]]
  BY DEF Over
<1> HIDE DEF t
<1>4. DOMAIN t \subseteq Column /\ \A j \in DOMAIN t : t[j] \in Value
  BY <1>1, <1>3, TransactionType
<1>5. t \in [DOMAIN t -> Value]
  BY <1>3, <1>4
<1>6. t \in Transaction
  BY <1>4, <1>5 DEF Transaction
<1> QED BY <1>1, <1>2, <1>3, <1>6

LEMMA CommitWrites ==
    ASSUME CommandsTyped, NEW p \in Post, row' = Over(own[p], row)
    PROVE  /\ row' \in [Column -> Value \cup {None}]
           /\ \A k \in Column : row'[k] = View(p, k)
<1>1. own[p] \in Transaction /\ row \in [Column -> Value \cup {None}]
  BY DEF CommandsTyped
<1>2. DOMAIN own[p] \subseteq Column /\ \A k \in DOMAIN own[p] : own[p][k] \in Value
  BY <1>1, TransactionType
<1>3. DOMAIN own[p] \cup DOMAIN row = Column
  BY <1>1, <1>2
<1>4. row' = [k \in Column |-> IF k \in DOMAIN own[p] THEN own[p][k] ELSE row[k]]
  BY <1>3 DEF Over
<1> QED BY <1>1, <1>2, <1>4 DEF View

LEMMA AbortClears ==
    ASSUME CommandsTyped, NEW p \in Post, own' = [own EXCEPT ![p] = <<>>]
    PROVE  /\ own' \in [Post -> Transaction] /\ own'[p] = <<>>
           /\ \A q \in Post \ {p} : own'[q] = own[q]
  BY Nothing DEF CommandsTyped

LEMMA CmdType ==
    ASSUME CommandsTyped, NEW p \in Post, cmd[p].at # "idle"
    PROVE  cmd[p] \in Command
  BY DEF CommandsTyped, NoCommand

\* What a transaction sees of the columns
LEMMA ViewType ==
    ASSUME CommandInv, NEW p \in Post
    PROVE  /\ View(p, "pyu") \in Nat
           /\ View(p, "rcount") \in Nat
           /\ View(p, IPOf[p]) \in Limit \cup {None}
           /\ own[p] = <<>> => \A k : View(p, k) = row[k]
<1>1. Spoken(p) /\ Committed
  BY DEF CommandInv
<1>2. own[p] = <<>> => DOMAIN own[p] = {}
  BY Nothing
<1> QED BY <1>1, <1>2, Columns DEF View, Spoken, Written, Committed

(***************************************************************************)
(* A step of a command: p is the only post that it moves.                  *)
(***************************************************************************)
PyuStep(p) ==
    \/ PyuLimitExists(p) \/ WritePyuLimit(p) \/ GetPyuLimit(p) \/ GetPyuLimitRestricted(p)
    \/ Refuse(p) \/ SetPyuLimitRestricted(p) \/ GetPcountA(p) \/ IncrementPcount(p)
    \/ DecrementPyuLimit(p)
RollStep(p) == \/ GetRoulette(p) \/ DecrementRoulette(p) \/ Roll(p) \/ GetRcount(p) \/ GetPcount(p)
               \/ CheckRouletteBan(p) \/ IncrementRcount(p)

\* What every step keeps of the other posts
Framed(p) ==
    /\ UNCHANGED bound
    /\ cmd' \in [Post -> {NoCommand} \cup Command]
    /\ own' \in [Post -> Transaction]
    /\ \A q \in Post \ {p} : cmd'[q] = cmd[q] /\ own'[q] = own[q]

\* p runs no other command, and its transaction has written what it should have.
Sound(p) == Framed(p) /\ Spoken(p)'

LEMMA ParseSound ==
    ASSUME ImageInv, CommandInv, NEW p \in Post, Parse(p), Alone
    PROVE  Sound(p)
<1>0. /\ At(p, "parse") /\ UNCHANGED <<bound, own>>
      /\ CommandsTyped /\ Spoken(p) /\ cmd[p] \in Command /\ own[p] = <<>>
  BY CmdType DEF Parse, Alone, imageVars, CommandInv, At, Spoken, Clear
<1>1. PICK at \in Words \cup {"parsed"} :
         /\ cmd' = [cmd EXCEPT ![p] = [@ EXCEPT !.at = at]]
         /\ at \in Words => Word(p) = at
  BY WordIsKnown DEF Parse, Goto, Words
<1>2. [cmd[p] EXCEPT !.at = at] \in Command
  BY <1>0 DEF Command, Clear
<1>3. Framed(p) /\ cmd'[p] = [cmd[p] EXCEPT !.at = at]
  BY <1>0, <1>1, <1>2 DEF Framed, CommandsTyped
<1>4. cmd'[p].at = at /\ cmd'[p].i = cmd[p].i /\ own'[p] = <<>>
  BY <1>0, <1>3 DEF Command
<1>5. Spoken(p)'
  BY <1>0, <1>1, <1>4, Nothing DEF Spoken, Word, Said, At, Words, PyuSteps
<1> QED BY <1>3, <1>5 DEF Sound

LEMMA CommitSound ==
    ASSUME ImageInv, CommandInv, NEW p \in Post, Commit(p), Alone
    PROVE  Sound(p)
<1>0. /\ At(p, "commit") /\ UNCHANGED bound
      /\ CommandsTyped /\ cmd[p] \in Command
      /\ own' = [own EXCEPT ![p] = <<>>]
      /\ cmd' = [cmd EXCEPT ![p].at = "parse", ![p].i = @ + 1]
  BY CmdType DEF Commit, Alone, imageVars, CommandInv, At
<1>1. cmd' = [cmd EXCEPT ![p] = [@ EXCEPT !.at = "parse", !.i = cmd[p].i + 1]]
  BY <1>0 DEF Command, CommandsTyped
<1>2. cmd[p].i + 1 \in Nat \ {0}
  BY <1>0 DEF Command
<1>3. [cmd[p] EXCEPT !.at = "parse", !.i = cmd[p].i + 1] \in Command
  BY <1>0, <1>2 DEF Command, Clear
<1>4. cmd'[p].at = "parse" /\ cmd' \in [Post -> {NoCommand} \cup Command]
      /\ \A q \in Post \ {p} : cmd'[q] = cmd[q]
  BY <1>0, <1>1, <1>3 DEF CommandsTyped, Command
<1>5. own'[p] = <<>> /\ Framed(p)
  BY <1>0, <1>4, AbortClears DEF Framed
<1>6. Spoken(p)'
  BY <1>4, <1>5, Nothing DEF Spoken, At, Words, PyuSteps
<1> QED BY <1>5, <1>6 DEF Sound

LEMMA AbortSound ==
    ASSUME ImageInv, CommandInv, NEW p \in Post, cmd[p].at # "idle", Abort(p), UNCHANGED bound
    PROVE  Sound(p) /\ cmd'[p].at = "failed"
<1>0. /\ CommandsTyped /\ cmd[p] \in Command
      /\ own' = [own EXCEPT ![p] = <<>>]
      /\ cmd' = [cmd EXCEPT ![p] = [@ EXCEPT !.at = "failed"]]
  BY CmdType DEF Abort, CommandInv
<1>1. [cmd[p] EXCEPT !.at = "failed"] \in Command
  BY <1>0 DEF Command, Clear
<1>2. cmd'[p].at = "failed" /\ cmd' \in [Post -> {NoCommand} \cup Command]
      /\ \A q \in Post \ {p} : cmd'[q] = cmd[q]
  BY <1>0, <1>1 DEF CommandsTyped, Command
<1>3. own'[p] = <<>> /\ Framed(p)
  BY <1>0, <1>2, AbortClears DEF Framed
<1>4. Spoken(p)'
  BY <1>2, <1>3, Nothing DEF Spoken, At, Words, PyuSteps
<1> QED BY <1>2, <1>3, <1>4 DEF Sound

\* A step that writes nothing and leads to a step of the same command
LEMMA ReadSound ==
    ASSUME ImageInv, CommandInv, NEW p \in Post, UNCHANGED <<bound, own>>,
           cmd[p].at # "idle", NEW c \in Command, cmd' = [cmd EXCEPT ![p] = c],
           c.i = cmd[p].i,
           c.at \in Words => Word(p) = c.at, c.at \in PyuSteps => Word(p) = "pyu",
           c.at = "load" => Word(p) = "roulette" /\ c.n \in 1..Chambers,
           c.at \in Clear => own[p] = <<>>, c.at # "roll",
           At(p, "roll") => cmd[p].n \in 2..Chambers,
           \A k \in DOMAIN own[p] : k \in IP =>
              c.at \in PyuSteps \/ (c.at = "commit" /\ Word(p) = "pyu")
    PROVE  Sound(p) /\ cmd'[p] = c
<1>0. CommandsTyped /\ Spoken(p)
  BY DEF CommandInv
<1>1. Framed(p) /\ cmd'[p] = c /\ own'[p] = own[p]
  BY <1>0 DEF Framed, CommandsTyped
<1>2. Word(p)' = Word(p)
  BY <1>1 DEF Word, Said
<1>3. \A k \in DOMAIN own[p] : Written(p, k)'
  <2> SUFFICES ASSUME NEW k \in DOMAIN own[p] PROVE Written(p, k)'
    OBVIOUS
  <2>1. Written(p, k) /\ (At(p, "roll") => cmd[p].n - 1 \in 1..Chambers)
    <3>1. Written(p, k)
      BY <1>0 DEF Spoken
    <3>2. ASSUME NEW n \in 2..Chambers PROVE n - 1 \in 1..Chambers
      BY <3>2, ChambersRange
    <3> QED BY <3>1, <3>2
  <2>2. k \in IP => InPyu(p)'
    BY <1>1, <1>2 DEF InPyu, At, PyuSteps
  <2>3. CASE k \in IP
    BY <1>1, <2>1, <2>2, <2>3, Columns DEF Written
  <2>4. CASE k \notin IP
    BY <1>1, <2>1, <2>4 DEF Written, At
  <2> QED BY <2>3, <2>4
<1>4. Spoken(p)'
  BY <1>1, <1>2, <1>3 DEF Spoken, At, Command, Clear, Words, PyuSteps
<1> QED BY <1>1, <1>4 DEF Sound

\* A step that writes v into column k and leads to a step of the same command
LEMMA WriteSound ==
    ASSUME ImageInv, CommandInv, NEW p \in Post, UNCHANGED bound,
           cmd[p].at \notin Clear \cup {"idle"} \/ own[p] = <<>>, cmd[p].at # "idle",
           NEW k \in Column, NEW v \in Value, Put(p, k, v),
           NEW c \in Command, cmd' = [cmd EXCEPT ![p] = c], c.i = cmd[p].i,
           c.at \notin Clear,
           c.at \in PyuSteps => Word(p) = "pyu",
           c.at = "roll" => Word(p) = "roulette" /\ c.n \in 1..Chambers /\ k = "scount" /\ v = c.n - 1,
           \A j \in {k} \cup DOMAIN own[p] : j \in IP =>
              c.at \in PyuSteps \/ (c.at = "commit" /\ Word(p) = "pyu"),
           k \in IP => v \in Limit /\ k = IPOf[p],
           k = "scount" => c.at = "roll" \/ v \in 1..Chambers,
           k # "scount" => cmd[p].at # "roll",
           k = "rcount" => v \in Nat \ {0}, k = "pyu" => v \in Nat
    PROVE  Sound(p) /\ cmd'[p] = c
<1>0. CommandsTyped /\ Spoken(p)
  BY DEF CommandInv
<1>1. Framed(p) /\ cmd'[p] = c
  BY <1>0, PutWrites DEF Framed, CommandsTyped
<1>2. /\ DOMAIN own'[p] = DOMAIN own[p] \cup {k} /\ own'[p][k] = v
      /\ \A j \in DOMAIN own[p] \ {k} : own'[p][j] = own[p][j]
  BY <1>0, PutWrites
<1>3. Word(p)' = Word(p)
  BY <1>1 DEF Framed, Word, Said
<1>4. \A j \in IP \cap ({k} \cup DOMAIN own[p]) : InPyu(p)'
  BY <1>1, <1>3 DEF InPyu, At, PyuSteps
<1>5. Written(p, k)'
  BY <1>1, <1>2, <1>4, Columns DEF Written, At
<1>6. \A j \in DOMAIN own[p] \ {k} : Written(p, j)'
  <2> SUFFICES ASSUME NEW j \in DOMAIN own[p] \ {k} PROVE Written(p, j)'
    OBVIOUS
  <2>1. Written(p, j)
    BY <1>0 DEF Spoken
  <2>2. own'[p][j] = own[p][j]
    BY <1>2
  <2>3. CASE j \in IP
    BY <1>4, <2>1, <2>2, <2>3, Columns DEF Written
  <2>4. CASE j = "scount"
    BY <1>1, <2>1, <2>2, <2>4, Columns DEF Written, At
  <2>5. CASE j \notin IP \cup {"scount"}
    BY <2>1, <2>2, <2>5 DEF Written
  <2> QED BY <2>3, <2>4, <2>5
<1>7. /\ cmd'[p].at \notin Clear \cup {"idle"} /\ (At(p, "roll")' => "scount" \in DOMAIN own'[p])
      /\ \A j \in DOMAIN own'[p] : Written(p, j)'
  BY <1>1, <1>2, <1>5, <1>6 DEF At, Command, Clear, Words, PyuSteps
<1>8. Spoken(p)'
  BY <1>1, <1>3, <1>7 DEF Spoken, At, Clear
<1> QED BY <1>1, <1>8 DEF Sound

\* The steps of one #pyu, and where they lead
LEMMA PyuSound ==
    ASSUME ImageInv, CommandInv, NEW p \in Post, PyuStep(p), UNCHANGED bound
    PROVE  Sound(p)
<1> DEFINE i == IPOf[p]
<1>0. /\ CommandsTyped /\ Spoken(p) /\ i \in IP /\ i \in Column
      /\ View(p, i) \in Limit \cup {None} /\ View(p, "pyu") \in Nat
      /\ cmd[p].at \in PyuSteps \ {"write"} => View(p, i) \in Limit
      /\ cmd[p].at # "idle" => cmd[p] \in Command
      /\ \A k \in DOMAIN own[p] \cap IP : k = i
  BY ViewType, CmdType, Columns
     DEF CommandInv, Known, Spoken, Written
<1>1. CASE PyuLimitExists(p)
  <2> DEFINE c == [cmd[p] EXCEPT !.at = IF View(p, i) = None THEN "write" ELSE "limit"]
  <2>1. At(p, "pyu") /\ cmd[p] \in Command /\ Word(p) = "pyu" /\ own[p] = <<>>
        /\ UNCHANGED own /\ cmd' = [cmd EXCEPT ![p] = c]
    BY <1>0, <1>1 DEF PyuLimitExists, Goto, At, Spoken, Words, Clear
  <2>2. c \in Command /\ c.at \in {"write", "limit"} /\ c.i = cmd[p].i
    BY <2>1 DEF Command, PyuSteps
  <2> HIDE DEF c
  <2> QED BY <2>1, <2>2, ReadSound DEF At, Words, PyuSteps, Clear
<1>2. CASE WritePyuLimit(p)
  <2>1. At(p, "write") /\ cmd[p] \in Command /\ Word(p) = "pyu"
    BY <1>0, <1>2 DEF WritePyuLimit, At, Spoken, PyuSteps
  <2>2. CASE Abort(p)
    BY <2>1, <2>2, AbortSound DEF At
  <2>3. CASE Put(p, i, Fresh) /\ Goto(p, "limit")
    <3> DEFINE c == [cmd[p] EXCEPT !.at = "limit"]
    <3>1. cmd' = [cmd EXCEPT ![p] = c] /\ Put(p, i, Fresh)
      BY <2>3 DEF Goto
    <3>2. c \in Command /\ c.at = "limit" /\ c.i = cmd[p].i
      BY <2>1 DEF Command, PyuSteps
    <3>3. Fresh \in Limit /\ Fresh \in Value
      BY CommandsAssumption DEF Fresh, Limit, Value
    <3> HIDE DEF c
    <3> QED BY <1>0, <2>1, <3>1, <3>2, <3>3, Columns, WriteSound DEF At, Words, PyuSteps, Clear
  <2> QED BY <1>2, <2>2, <2>3 DEF WritePyuLimit
<1>3. CASE GetPyuLimit(p)
  <2> DEFINE at == IF At(p, "limit") THEN "restricted" ELSE "decrement"
             c == [cmd[p] EXCEPT !.at = at, !.n = View(p, i).count]
  <2>1. cmd[p].at \in {"limit", "left"} /\ UNCHANGED own
    BY <1>3 DEF GetPyuLimit, At
  <2>2. cmd[p] \in Command /\ Word(p) = "pyu" /\ View(p, i) \in Limit
    BY <1>0, <2>1 DEF Spoken, PyuSteps
  <2>3. cmd' = [cmd EXCEPT ![p] = c]
    BY <1>0, <1>3, <2>2 DEF GetPyuLimit, At, Command, CommandsTyped
  <2>4. View(p, i).count \in Nat
    BY <2>2 DEF Limit
  <2>5. c \in Command /\ c.at \in {"restricted", "decrement"} /\ c.i = cmd[p].i
    BY <2>2, <2>4 DEF Command, PyuSteps
  <2> HIDE DEF c
  <2> QED BY <2>1, <2>2, <2>3, <2>5, ReadSound DEF At, Words, PyuSteps, Clear
<1>4. CASE GetPyuLimitRestricted(p)
  <2>1. PICK at \in {"refuse", "restrict", "increment"} :
          At(p, "restricted") /\ UNCHANGED own /\ cmd' = [cmd EXCEPT ![p].at = at]
    BY <1>4 DEF GetPyuLimitRestricted, Goto
  <2> DEFINE c == [cmd[p] EXCEPT !.at = at]
  <2>2. cmd[p] \in Command /\ Word(p) = "pyu" /\ cmd' = [cmd EXCEPT ![p] = c]
    BY <1>0, <2>1 DEF Spoken, PyuSteps, At
  <2>3. c \in Command /\ c.at = at /\ c.i = cmd[p].i
    BY <2>2 DEF Command, PyuSteps
  <2> HIDE DEF c
  <2> QED BY <2>1, <2>2, <2>3, ReadSound DEF At, Words, PyuSteps, Clear
<1>5. CASE Refuse(p)
  <2> DEFINE c == [cmd[p] EXCEPT !.at = "commit", !.slut = TRUE,
                                 !.results = Append(cmd[p].results, <<View(p, "pyu")>>)]
  <2>1. At(p, "refuse") /\ UNCHANGED own
    BY <1>5 DEF Refuse
  <2>2. cmd[p] \in Command /\ Word(p) = "pyu"
    BY <1>0, <2>1 DEF Spoken, PyuSteps, At
  <2>3. cmd' = [cmd EXCEPT ![p] = c]
    BY <1>0, <1>5, <2>2 DEF Refuse, Command, CommandsTyped
  <2>4. Append(cmd[p].results, <<View(p, "pyu")>>) \in Seq(Seq(Nat))
    <3>1. cmd[p].results \in Seq(Seq(Nat)) /\ <<View(p, "pyu")>> \in Seq(Nat)
      BY <1>0, <2>2 DEF Command
    <3> QED BY <3>1, AppendProperties
  <2>5. c \in Command /\ c.at = "commit" /\ c.i = cmd[p].i
    BY <2>2, <2>4 DEF Command
  <2> HIDE DEF c
  <2> QED BY <2>1, <2>2, <2>3, <2>5, ReadSound DEF At, Words, PyuSteps, Clear
<1>6. CASE SetPyuLimitRestricted(p)
  <2> DEFINE v == [View(p, i) EXCEPT !.restricted = TRUE]
             c == [cmd[p] EXCEPT !.at = "increment"]
  <2>1. At(p, "restrict") /\ Put(p, i, v) /\ cmd' = [cmd EXCEPT ![p] = c]
    BY <1>6 DEF SetPyuLimitRestricted, Goto
  <2>2. cmd[p] \in Command /\ Word(p) = "pyu" /\ View(p, i) \in Limit
    BY <1>0, <2>1 DEF Spoken, PyuSteps, At
  <2>3. v \in Limit /\ v \in Value
    BY <2>2 DEF Limit, Value
  <2>4. c \in Command /\ c.at = "increment" /\ c.i = cmd[p].i
    BY <2>2 DEF Command, PyuSteps
  <2> HIDE DEF c, v
  <2> QED BY <1>0, <2>1, <2>2, <2>3, <2>4, Columns, WriteSound DEF At, Words, PyuSteps, Clear
<1>7. CASE GetPcountA(p)
  <2> DEFINE c == [cmd[p] EXCEPT !.at = "count", !.n = View(p, "pyu")]
  <2>1. At(p, "increment") /\ UNCHANGED own
    BY <1>7 DEF GetPcountA
  <2>2. cmd[p] \in Command /\ Word(p) = "pyu"
    BY <1>0, <2>1 DEF Spoken, PyuSteps, At
  <2>3. cmd' = [cmd EXCEPT ![p] = c]
    BY <1>0, <1>7, <2>2 DEF GetPcountA, Command, CommandsTyped
  <2>4. c \in Command /\ c.at = "count" /\ c.i = cmd[p].i
    BY <1>0, <2>2 DEF Command, PyuSteps
  <2> HIDE DEF c
  <2> QED BY <2>1, <2>2, <2>3, <2>4, ReadSound DEF At, Words, PyuSteps, Clear
<1>8. CASE IncrementPcount(p)
  <2> DEFINE v == cmd[p].n + 1
             c == [cmd[p] EXCEPT !.at = "left", !.results = Append(cmd[p].results, <<v>>)]
  <2>1. At(p, "count") /\ Put(p, "pyu", v)
    BY <1>8 DEF IncrementPcount
  <2>2. cmd[p] \in Command /\ Word(p) = "pyu"
    BY <1>0, <2>1 DEF Spoken, PyuSteps, At
  <2>3. cmd' = [cmd EXCEPT ![p] = c]
    BY <1>0, <1>8, <2>2 DEF IncrementPcount, Command, CommandsTyped
  <2>4. v \in Nat
    BY <2>2 DEF Command
  <2>5. Append(cmd[p].results, <<v>>) \in Seq(Seq(Nat))
    <3>1. cmd[p].results \in Seq(Seq(Nat)) /\ <<v>> \in Seq(Nat)
      BY <2>2, <2>4 DEF Command
    <3> QED BY <3>1, AppendProperties
  <2>6. c \in Command /\ c.at = "left" /\ c.i = cmd[p].i
    BY <2>2, <2>5 DEF Command, PyuSteps
  <2>7. "pyu" \in Column /\ "pyu" \notin IP /\ v \in Value
    BY <2>4, Columns DEF Value
  <2> HIDE DEF c, v
  <2> QED BY <1>0, <2>1, <2>2, <2>3, <2>4, <2>6, <2>7, WriteSound DEF At, Words, PyuSteps, Clear
<1>9. CASE DecrementPyuLimit(p)
  <2> DEFINE v == [View(p, i) EXCEPT !.count = Byte(cmd[p].n - 1)]
             c == [cmd[p] EXCEPT !.at = "commit"]
  <2>1. At(p, "decrement") /\ Put(p, i, v) /\ cmd' = [cmd EXCEPT ![p] = c]
    BY <1>9 DEF DecrementPyuLimit, Goto
  <2>2. cmd[p] \in Command /\ Word(p) = "pyu" /\ View(p, i) \in Limit
    BY <1>0, <2>1 DEF Spoken, PyuSteps, At
  <2>3. Byte(cmd[p].n - 1) \in 0..255
    <3>1. cmd[p].n - 1 \in Int
      BY <2>2 DEF Command
    <3> QED BY <3>1, ByteRange
  <2>4. v \in Limit /\ v \in Value
    BY <2>2, <2>3 DEF Limit, Value
  <2>5. c \in Command /\ c.at = "commit" /\ c.i = cmd[p].i
    BY <2>2 DEF Command
  <2> HIDE DEF c, v
  <2> QED BY <1>0, <2>1, <2>2, <2>4, <2>5, Columns, WriteSound DEF At, Words, PyuSteps, Clear
<1> QED BY <1>1, <1>2, <1>3, <1>4, <1>5, <1>6, <1>7, <1>8, <1>9 DEF PyuStep

\* What the revolver is turned to, and back
LEMMA ByteOfTurn ==
    ASSUME NEW n \in 1..Chambers
    PROVE  /\ Byte(n - 1) = n - 1 /\ Byte(Byte(n - 1) + 1) = n
           /\ n - 1 \in Nat
<1>1. n - 1 \in 0..255 /\ n \in 0..255 /\ (n - 1) + 1 = n
  BY CommandsAssumption
<1>2. Byte(n - 1) = n - 1 /\ Byte(n) = n
  BY <1>1, ByteSmall
<1> QED BY <1>1, <1>2

LEMMA ResultIsSeq ==
    ASSUME NEW s \in Seq(Seq(Nat)), NEW r \in Seq(Nat)
    PROVE  Append(s, r) \in Seq(Seq(Nat))
  BY AppendProperties

\* The commands that read a counter and are answered
LEMMA CountSound ==
    ASSUME ImageInv, CommandInv, NEW p \in Post, GetPcount(p) \/ GetRcount(p), UNCHANGED bound
    PROVE  Sound(p)
<1>1. /\ cmd[p].at \in {"pcount", "rcount"} /\ cmd[p] \in Command /\ Word(p) # "pyu"
      /\ own[p] = <<>> /\ CommandsTyped /\ {row["pyu"], row["rcount"]} \subseteq Nat
  BY CmdType DEF GetPcount, GetRcount, At, CommandInv, Spoken, Words, Clear, Committed
<1>2. CASE Abort(p)
  BY <1>1, <1>2, AbortSound
<1>3. ASSUME NEW n \in Nat, cmd' = Result(p, <<n>>), UNCHANGED own
      PROVE  Sound(p)
  <2> DEFINE c == [cmd[p] EXCEPT !.at = "commit", !.results = Append(cmd[p].results, <<n>>)]
  <2>1. cmd' = [cmd EXCEPT ![p] = c]
    BY <1>1, <1>3 DEF Result, Command, CommandsTyped
  <2>2. cmd[p].results \in Seq(Seq(Nat)) /\ <<n>> \in Seq(Nat)
    BY <1>1 DEF Command
  <2>3. Append(cmd[p].results, <<n>>) \in Seq(Seq(Nat))
    BY <2>2, ResultIsSeq
  <2>4. c \in Command /\ c.at = "commit" /\ c.i = cmd[p].i
    BY <1>1, <2>3 DEF Command
  <2> HIDE DEF c
  <2> QED BY <1>1, <1>3, <2>1, <2>4, Nothing, ReadSound DEF At, Words, PyuSteps, Clear
<1> QED BY <1>1, <1>2, <1>3 DEF GetPcount, GetRcount

\* The steps of one #roulette
LEMMA RouletteSound ==
    ASSUME ImageInv, CommandInv, NEW p \in Post, UNCHANGED bound,
           GetRoulette(p) \/ DecrementRoulette(p) \/ Roll(p)
    PROVE  Sound(p)
<1>0. /\ CommandsTyped /\ Spoken(p) /\ row["scount"] \in 1..Chambers
      /\ cmd[p].at # "idle" => cmd[p] \in Command
      /\ "scount" \in Column /\ "scount" \notin IP /\ 0..Chambers \subseteq Value
  BY CmdType, Columns, CommandsAssumption DEF CommandInv, Committed, Value
<1>1. ASSUME NEW k \in DOMAIN own[p], cmd[p].at \in {"load", "roll"} PROVE k \notin IP
  BY <1>0, <1>1 DEF Spoken, Written, InPyu, At
<1>2. CASE GetRoulette(p)
  <2>1. At(p, "roulette") /\ cmd[p] \in Command /\ Word(p) = "roulette" /\ own[p] = <<>>
    BY <1>0, <1>2 DEF GetRoulette, At, Spoken, Words, Clear
  <2>2. CASE Abort(p)
    BY <2>1, <2>2, AbortSound DEF At
  <2>3. CASE ~Abort(p)
    <3> DEFINE c == [cmd[p] EXCEPT !.at = "load", !.n = View(p, "scount")]
    <3>1. View(p, "scount") \in 1..Chambers /\ View(p, "scount") \in Nat
      BY <1>0, <2>1, ViewType, CommandsAssumption
    <3>2. cmd' = [cmd EXCEPT ![p] = c] /\ UNCHANGED own
      BY <1>0, <1>2, <2>1, <2>3 DEF GetRoulette, Command, CommandsTyped
    <3>3. c \in Command /\ c.at = "load" /\ c.i = cmd[p].i /\ c.n \in 1..Chambers
      BY <2>1, <3>1 DEF Command, Clear
    <3> HIDE DEF c
    <3> QED BY <2>1, <3>2, <3>3, Nothing, ReadSound DEF At, Words, PyuSteps, Clear
  <2> QED BY <2>2, <2>3
<1>3. CASE DecrementRoulette(p)
  <2>1. /\ At(p, "load") /\ cmd[p] \in Command /\ Word(p) = "roulette" /\ own[p] = <<>>
        /\ cmd[p].n \in 1..Chambers
    BY <1>0, <1>3 DEF DecrementRoulette, At, Spoken, Clear
  <2>2. CASE Abort(p)
    BY <2>1, <2>2, AbortSound DEF At
  <2>3. CASE ~Abort(p)
    <3> DEFINE n == cmd[p].n
               c == [cmd[p] EXCEPT !.at = "roll", !.n = Byte(Byte(n - 1) + 1)]
    <3>1. Byte(n - 1) = n - 1 /\ Byte(Byte(n - 1) + 1) = n /\ n - 1 \in Nat
      BY <2>1, ByteOfTurn
    <3>2. Put(p, "scount", n - 1)
      BY <1>3, <2>3, <3>1 DEF DecrementRoulette
    <3>3. cmd' = [cmd EXCEPT ![p] = c]
      BY <1>0, <1>3, <2>1, <2>3 DEF DecrementRoulette, Command, CommandsTyped
    <3>4. c \in Command /\ c.at = "roll" /\ c.i = cmd[p].i /\ c.n = n
      BY <2>1, <3>1 DEF Command
    <3>5. n - 1 \in Value /\ \A j \in {"scount"} \cup DOMAIN own[p] : j \notin IP
      BY <1>0, <1>1, <2>1, <3>1 DEF Value, At
    <3>6. /\ cmd[p].at = "load" /\ c.at \notin Clear \cup PyuSteps
          /\ "scount" \notin {"rcount", "pyu"}
      BY <2>1, <3>4 DEF At, Clear, Words, PyuSteps
    <3> HIDE DEF c, n
    <3>7. n \in 1..Chambers
      BY <2>1 DEF n
    <3> QED BY <1>0, <2>1, <3>2, <3>3, <3>4, <3>5, <3>6, <3>7, WriteSound DEF Clear
  <2> QED BY <2>2, <2>3
<1>4. CASE Roll(p)
  <2>1. /\ At(p, "roll") /\ cmd[p] \in Command /\ Word(p) = "roulette"
        /\ cmd[p].n \in 1..Chambers
    BY <1>0, <1>4 DEF Roll, At, Spoken
  <2>2. PICK roll \in 1..cmd[p].n :
          /\ cmd' = Result(p, <<roll, cmd[p].n>>)
          /\ IF roll = 1 THEN Put(p, "scount", Chambers) ELSE UNCHANGED own
    BY <1>4 DEF Roll
  <2> DEFINE c == [cmd[p] EXCEPT !.at = "commit",
                                 !.results = Append(cmd[p].results, <<roll, cmd[p].n>>)]
  <2>3. cmd' = [cmd EXCEPT ![p] = c]
    BY <1>0, <2>1, <2>2 DEF Result, Command, CommandsTyped
  <2>4. cmd[p].results \in Seq(Seq(Nat)) /\ <<roll, cmd[p].n>> \in Seq(Nat)
    BY <2>1, <2>2 DEF Command
  <2>5. Append(cmd[p].results, <<roll, cmd[p].n>>) \in Seq(Seq(Nat))
    BY <2>4, ResultIsSeq
  <2>6. c \in Command /\ c.at = "commit" /\ c.i = cmd[p].i
    BY <2>1, <2>5 DEF Command
  <2> HIDE DEF c
  <2>7. CASE roll = 1
    <3>1. Put(p, "scount", Chambers)
      BY <2>2, <2>7
    <3>2. Chambers \in 1..Chambers /\ Chambers \in Nat
      BY ChambersRange
    <3>3. Chambers \in Value /\ \A j \in {"scount"} \cup DOMAIN own[p] : j \notin IP
      BY <1>0, <1>1, <2>1, <3>2 DEF Value, At
    <3>4. /\ cmd[p].at \notin Clear \cup {"idle"} /\ c.at \notin Clear \cup PyuSteps \cup {"roll"}
          /\ "scount" \notin {"rcount", "pyu"}
      BY <2>1, <2>6 DEF At, Clear, Words, PyuSteps
    <3> QED BY <1>0, <2>1, <2>3, <2>6, <3>1, <3>2, <3>3, <3>4, WriteSound
  <2>8. CASE roll # 1
    <3>1. UNCHANGED own /\ cmd[p].n \in 2..Chambers
      BY <2>1, <2>2, <2>8, CommandsAssumption
    <3> QED BY <1>0, <1>1, <2>1, <2>3, <2>6, <3>1, ReadSound DEF At, Words, PyuSteps, Clear
  <2> QED BY <2>7, <2>8
<1> QED BY <1>2, <1>3, <1>4

\* The check of a closed post, and its tally
LEMMA CheckSound ==
    ASSUME ImageInv, CommandInv, NEW p \in Post, UNCHANGED bound,
           CheckRouletteBan(p) \/ IncrementRcount(p)
    PROVE  Sound(p)
<1>0. /\ CommandsTyped /\ Spoken(p) /\ View(p, "rcount") \in Nat
      /\ cmd[p].at # "idle" => cmd[p] \in Command
      /\ "rcount" \in Column /\ "rcount" \notin IP
  BY CmdType, ViewType, Columns DEF CommandInv
<1>1. ASSUME NEW k \in DOMAIN own[p], ~InPyu(p) PROVE k \notin IP
  BY <1>0, <1>1 DEF Spoken, Written
<1>2. CASE CheckRouletteBan(p)
  <2>1. PICK at \in {"lost", "done"} :
          At(p, "closed") /\ UNCHANGED own /\ cmd' = [cmd EXCEPT ![p].at = at]
    BY <1>2 DEF CheckRouletteBan, Goto
  <2> DEFINE c == [cmd[p] EXCEPT !.at = at]
  <2>2. cmd[p] \in Command /\ cmd' = [cmd EXCEPT ![p] = c] /\ own[p] = <<>>
    BY <1>0, <2>1 DEF At, Spoken, Clear
  <2>3. c \in Command /\ c.at = at /\ c.i = cmd[p].i
    BY <2>2 DEF Command, Clear
  <2> HIDE DEF c
  <2> QED BY <2>1, <2>2, <2>3, Nothing, ReadSound DEF At, Words, PyuSteps, Clear
<1>3. CASE IncrementRcount(p) /\ At(p, "lost")
  <2>1. cmd[p] \in Command /\ own[p] = <<>>
    BY <1>0, <1>3 DEF At, Spoken, Clear
  <2>2. CASE Abort(p)
    BY <1>3, <2>2, AbortSound DEF At
  <2>3. CASE ~Abort(p)
    <3> DEFINE c == [cmd[p] EXCEPT !.at = "tally", !.n = View(p, "rcount")]
    <3>1. cmd' = [cmd EXCEPT ![p] = c] /\ UNCHANGED own
      BY <1>0, <1>3, <2>1, <2>3 DEF IncrementRcount, At, Command, CommandsTyped
    <3>2. c \in Command /\ c.at = "tally" /\ c.i = cmd[p].i
      BY <1>0, <2>1 DEF Command, Clear
    <3> HIDE DEF c
    <3> QED BY <1>3, <2>1, <3>1, <3>2, Nothing, ReadSound DEF At, Words, PyuSteps, Clear
  <2> QED BY <2>2, <2>3
<1>4. CASE IncrementRcount(p) /\ At(p, "tally")
  <2> DEFINE c == [cmd[p] EXCEPT !.at = "tallied"]
  <2>1. /\ cmd[p] \in Command /\ own[p] = <<>> /\ cmd' = [cmd EXCEPT ![p] = c]
        /\ there => Put(p, "rcount", cmd[p].n + 1)
        /\ ~there => UNCHANGED own
    BY <1>0, <1>4 DEF IncrementRcount, At, Goto, Spoken, Clear
  <2>2. c \in Command /\ c.at = "tallied" /\ c.i = cmd[p].i
    BY <2>1 DEF Command
  <2>3. cmd[p].n + 1 \in Nat \ {0} /\ cmd[p].n + 1 \in Value
    BY <2>1 DEF Command, Value
  <2> HIDE DEF c
  <2>4. CASE there
    <3>1. Put(p, "rcount", cmd[p].n + 1) /\ \A j \in {"rcount"} \cup DOMAIN own[p] : j \notin IP
      BY <1>0, <2>1, <2>4, Nothing
    <3>2. /\ cmd[p].at = "tally" /\ c.at \notin Clear \cup PyuSteps \cup {"roll"}
          /\ "rcount" \notin {"scount", "pyu"}
      BY <1>4, <2>2 DEF At, Clear, Words, PyuSteps
    <3> QED BY <1>0, <2>1, <2>2, <2>3, <3>1, <3>2, WriteSound
  <2>5. CASE ~there
    BY <1>4, <2>1, <2>2, <2>5, Nothing, ReadSound DEF At, Words, PyuSteps, Clear
  <2> QED BY <2>4, <2>5
<1>5. CASE IncrementRcount(p) /\ At(p, "tallied")
  <2> DEFINE c == [cmd[p] EXCEPT !.at = "done"]
  <2>1. /\ cmd[p] \in Command /\ cmd' = [cmd EXCEPT ![p] = c]
        /\ own' = [own EXCEPT ![p] = <<>>]
    BY <1>0, <1>5 DEF IncrementRcount, At, Goto
  <2>2. c \in Command /\ c.at = "done"
    BY <2>1 DEF Command, Clear
  <2> HIDE DEF c
  <2>3. /\ cmd'[p].at = "done" /\ own'[p] = <<>> /\ Framed(p)
    BY <1>0, <2>1, <2>2, AbortClears DEF Framed, CommandsTyped
  <2>4. Spoken(p)'
    BY <2>3, Nothing DEF Spoken, At, Words, PyuSteps
  <2> QED BY <2>3, <2>4 DEF Sound
<1> QED BY <1>2, <1>3, <1>4, <1>5 DEF IncrementRcount

LEMMA DeadlockSound ==
    ASSUME ImageInv, CommandInv, NEW p \in Post, Deadlock(p), UNCHANGED bound
    PROVE  /\ Sound(p) /\ cmd'[p].at = "failed" /\ ~At(p, "commit")
           /\ own' = [own EXCEPT ![p] = <<>>]
<1>1. PICK q \in Post \ {p} : Wanted(p) \in Locks(q)
  BY DEF Deadlock
<1>2. None \notin Locks(q)
  <2>1. DOMAIN own[q] \subseteq Column
    BY TransactionType DEF CommandInv, CommandsTyped
  <2> QED BY <2>1, CommandsAssumption DEF Locks, RowOf, Column
<1>3. Wanted(p) # None
  BY <1>1, <1>2
<1>4. cmd[p].at \in {"write", "restrict", "decrement", "count", "load", "tally"}
  BY <1>3 DEF Wanted, At
<1> QED BY <1>4, AbortSound DEF Deadlock, Abort, At

LEMMA CommandSound ==
    ASSUME ImageInv, CommandInv, NEW p \in Post, CommandStep(p), Alone
    PROVE  Sound(p)
<1>1. UNCHANGED bound
  BY DEF Alone, imageVars
<1> QED BY <1>1, ParseSound, CommitSound, DeadlockSound, PyuSound, CountSound, RouletteSound,
           CheckSound DEF CommandStep, PyuStep

(***************************************************************************)
(* What a step of a command does to the rows and to the history.           *)
(***************************************************************************)
\* Steps at which no command can move
Stopped == {"idle", "failed", "parsed", "swept", "done"}

LEMMA CommandRuns ==
    ASSUME ImageInv, CommandInv, NEW p \in Post, CommandStep(p)
    PROVE  cmd[p].at \notin Stopped
<1>1. CASE Deadlock(p)
  <2>1. PICK q \in Post \ {p} : Wanted(p) \in Locks(q)
    BY <1>1 DEF Deadlock
  <2>2. DOMAIN own[q] \subseteq Column
    BY TransactionType DEF CommandInv, CommandsTyped
  <2>3. None \notin Locks(q)
    BY <2>2, CommandsAssumption DEF Locks, RowOf, Column
  <2> QED BY <2>1, <2>3 DEF Wanted, At, Stopped
<1>2. CASE PyuStep(p)
  BY <1>2 DEF PyuStep, PyuLimitExists, WritePyuLimit, GetPyuLimit, GetPyuLimitRestricted, Refuse,
     SetPyuLimitRestricted, GetPcountA, IncrementPcount, DecrementPyuLimit, At, Stopped
<1>3. CASE RollStep(p)
  BY <1>3 DEF RollStep, GetRoulette, DecrementRoulette, Roll, GetRcount, GetPcount,
     CheckRouletteBan, IncrementRcount, At, Stopped
<1>4. CASE Parse(p) \/ Commit(p)
  BY <1>4 DEF Parse, Commit, At, Stopped
<1> QED BY <1>1, <1>2, <1>3, <1>4 DEF CommandStep, PyuStep, RollStep

\* The rows are written when a command, or the tally, commits.
LEMMA RowsWritten ==
    ASSUME NEW p \in Post, CommandStep(p)
    PROVE  /\ there' = there /\ banned \subseteq banned'
           /\ \/ UNCHANGED row
              \/ /\ row' = Over(own[p], row) /\ cmd[p].at \in {"commit", "tallied"}
<1>1. CASE PyuStep(p)
  BY <1>1 DEF PyuStep, PyuLimitExists, WritePyuLimit, GetPyuLimit, GetPyuLimitRestricted, Refuse,
     SetPyuLimitRestricted, GetPcountA, IncrementPcount, DecrementPyuLimit, Keep
<1>2. CASE RollStep(p)
  BY <1>2 DEF RollStep, GetRoulette, DecrementRoulette, Roll, GetRcount, GetPcount,
     CheckRouletteBan, IncrementRcount, At, Keep
<1>3. CASE Parse(p) \/ Commit(p) \/ Deadlock(p)
  BY <1>3 DEF Parse, Commit, Deadlock, At, Keep
<1> QED BY <1>1, <1>2, <1>3 DEF CommandStep, PyuStep, RollStep

\* Uses are counted as the limit is decremented, and overlap where one is parsed.
LEMMA UsesCounted ==
    ASSUME NEW p \in Post, CommandStep(p)
    PROVE  /\ \/ UNCHANGED counted
              \/ DecrementPyuLimit(p) /\ counted' = [counted EXCEPT ![IPOf[p]] = @ + 1]
           /\ together \subseteq together' /\ together' \subseteq together \cup {IPOf[p]}
<1>1. CASE PyuStep(p)
  BY <1>1 DEF PyuStep, PyuLimitExists, WritePyuLimit, GetPyuLimit, GetPyuLimitRestricted, Refuse,
     SetPyuLimitRestricted, GetPcountA, IncrementPcount, DecrementPyuLimit, Keep
<1>2. CASE RollStep(p)
  BY <1>2 DEF RollStep, GetRoulette, DecrementRoulette, Roll, GetRcount, GetPcount,
     CheckRouletteBan, IncrementRcount, Keep
<1>3. CASE Parse(p) \/ Commit(p) \/ Deadlock(p)
  BY <1>3 DEF Parse, Commit, Deadlock, Keep
<1> QED BY <1>1, <1>2, <1>3 DEF CommandStep, PyuStep, RollStep

\* What is committed, of each column
LEMMA ColumnsCommitted ==
    ASSUME CommandInv, NEW p \in Post, CommandStep(p)
    PROVE  /\ row' \in [Column -> Value \cup {None}]
           /\ Committed'
           /\ \A k \in Column : \/ row'[k] = row[k]
                                \/ /\ k \in DOMAIN own[p] /\ row'[k] = View(p, k)
                                   /\ Written(p, k) /\ cmd[p].at \in {"commit", "tallied"}
<1>0. CommandsTyped /\ Committed /\ Spoken(p)
  BY DEF CommandInv
<1>1. CASE UNCHANGED row
  BY <1>0, <1>1 DEF CommandsTyped, Committed
<1>2. CASE row' = Over(own[p], row) /\ cmd[p].at \in {"commit", "tallied"}
  <2>1. row' \in [Column -> Value \cup {None}] /\ \A k \in Column : row'[k] = View(p, k)
    BY <1>0, <1>2, CommitWrites
  <2>2. \A k \in Column : k \in DOMAIN own[p] => Written(p, k)
    BY <1>0 DEF Spoken
  <2>3. Committed'
    <3>1. \A k \in Column : row'[k] = row[k] \/ (Written(p, k) /\ row'[k] = own[p][k])
      BY <2>1, <2>2 DEF View
    <3>2. row'["scount"] \in 1..Chambers
      BY <1>0, <1>2, <3>1, Columns DEF Committed, Written, At
    <3>3. row'["pyu"] \in Nat /\ row'["rcount"] \in Nat
      BY <1>0, <3>1, Columns DEF Committed, Written
    <3>4. \A i \in IP : row'[i] \in Limit \cup {None}
      BY <1>0, <3>1, Columns DEF Committed, Written
    <3> QED BY <3>2, <3>3, <3>4 DEF Committed
  <2> QED BY <1>2, <2>1, <2>2, <2>3 DEF View
<1> QED BY <1>1, <1>2, RowsWritten

LEMMA SpokenStays ==
    ASSUME NEW q \in Post, UNCHANGED bound, cmd'[q] = cmd[q], own'[q] = own[q], Spoken(q)
    PROVE  Spoken(q)'
  BY DEF Spoken, Written, InPyu, Word, Said, At

LEMMA CommandTyped ==
    ASSUME ImageInv, CommandInv, NEW p \in Post, CommandStep(p), Alone
    PROVE  CommandsTyped' /\ Committed' /\ \A q \in Post : Spoken(q)'
<1>1. Sound(p) /\ CommandsTyped /\ \A q \in Post : Spoken(q)
  BY CommandSound DEF CommandInv
<1>2. row' \in [Column -> Value \cup {None}] /\ Committed'
  BY ColumnsCommitted
<1>3. counted' \in [IP -> Nat] /\ together' \subseteq IP
  <2>1. counted \in [IP -> Nat] /\ IPOf[p] \in IP /\ together \subseteq IP
    BY <1>1, Columns DEF CommandsTyped
  <2>2. counted[IPOf[p]] + 1 \in Nat
    BY <2>1
  <2> QED BY <2>1, <2>2, UsesCounted
<1>4. CommandsTyped'
  BY <1>1, <1>2, <1>3 DEF CommandsTyped, Sound, Framed
<1>5. \A q \in Post \ {p} : Spoken(q)'
  BY <1>1, SpokenStays DEF Sound, Framed
<1> QED BY <1>1, <1>2, <1>4, <1>5 DEF Sound

LEMMA CommandQuiet ==
    ASSUME ImageInv, CommandInv, NEW p \in Post, CommandStep(p), Alone
    PROVE  Quiet'
<1>1. /\ Sound(p) /\ Quiet /\ UNCHANGED <<task, bound>>
      /\ cmd[p].at \notin {"idle", "failed"}
  BY CommandSound, CommandRuns DEF CommandInv, Alone, postVars, imageVars, Stopped
<1> QED BY <1>1 DEF Quiet, Sound, Framed, At, KindOf

(***************************************************************************)
(* A step of a command keeps the limits known.                             *)
(***************************************************************************)
LEMMA LimitsStayKnown ==
    ASSUME CommandInv, NEW p \in Post, CommandStep(p), NEW i \in IP, row[i] # None
    PROVE  row'[i] # None
<1>1. i \in Column /\ None \notin Limit
  BY Columns
<1>2. row'[i] = row[i] \/ (row'[i] = own[p][i] /\ Written(p, i))
  BY <1>1, ColumnsCommitted DEF View
<1> QED BY <1>1, <1>2 DEF Written

LEMMA CommandKnows ==
    ASSUME ImageInv, CommandInv, NEW p \in Post, CommandStep(p), Alone
    PROVE  Known'
<1> DEFINE i == IPOf[p]
<1>1. /\ Sound(p) /\ Known /\ Spoken(p) /\ CommandsTyped /\ i \in IP /\ i \in Column
      /\ cmd[p].at # "idle" => cmd[p] \in Command
  BY CommandSound, CmdType, Columns DEF CommandInv
<1>2. ASSUME NEW q \in Post \ {p}, cmd'[q].at \in PyuSteps \ {"write"}
      PROVE  View(q, IPOf[q])' # None
  <2>1. cmd'[q] = cmd[q] /\ own'[q] = own[q] /\ IPOf[q] \in IP
    BY <1>1, Columns DEF Sound, Framed
  <2>2. View(q, IPOf[q]) # None
    BY <1>1, <1>2, <2>1 DEF Known
  <2> QED BY <2>1, <2>2, LimitsStayKnown DEF View
<1>3. ASSUME cmd'[p].at \in PyuSteps \ {"write"}
      PROVE  View(p, i)' # None
  <2>1. PyuStep(p) /\ ~Abort(p)
    <3>1. ~Parse(p)
      <4> SUFFICES ASSUME Parse(p) PROVE FALSE
        OBVIOUS
      <4>1. cmd'[p].at \in Words \cup {"parsed"}
        BY <1>1, WordIsKnown DEF Parse, Goto, Command, CommandsTyped, At, Words
      <4> QED BY <1>3, <4>1 DEF Words, PyuSteps
    <3>2. ~Abort(p)
      BY <1>1, <1>3 DEF Abort, Command, CommandsTyped, PyuSteps, NoCommand
    <3>3. ~Commit(p) /\ ~Deadlock(p)
      BY <1>1, <1>3, <3>2 DEF Commit, Deadlock, Command, CommandsTyped, At, PyuSteps
    <3>4. ~RollStep(p)
      BY <1>1, <1>3, <3>2 DEF RollStep, GetRoulette, DecrementRoulette, Roll, GetRcount, GetPcount,
         CheckRouletteBan, IncrementRcount, Goto, Result, Command, CommandsTyped, At, PyuSteps
    <3> QED BY <3>1, <3>2, <3>3, <3>4 DEF CommandStep, PyuStep, RollStep
  <2>2. UNCHANGED row
    BY <2>1 DEF PyuStep, PyuLimitExists, WritePyuLimit, GetPyuLimit, GetPyuLimitRestricted, Refuse,
       SetPyuLimitRestricted, GetPcountA, IncrementPcount, DecrementPyuLimit, Keep
  <2>3. \/ UNCHANGED own /\ View(p, i) # None
        \/ i \in DOMAIN own'[p]
        \/ \E v : Put(p, "pyu", v) /\ v \in Nat /\ View(p, i) # None
    <3>1. CASE PyuLimitExists(p)
      <4>1. cmd'[p].at = IF View(p, i) = None THEN "write" ELSE "limit"
        BY <1>1, <3>1 DEF PyuLimitExists, Goto, Command, CommandsTyped, At
      <4> QED BY <1>3, <3>1, <4>1 DEF PyuLimitExists, PyuSteps
    <3>2. ASSUME NEW v \in Limit, Put(p, i, v)
          PROVE  i \in DOMAIN own'[p]
      <4>1. v \in Value
        BY DEF Value
      <4> QED BY <1>1, <3>2, <4>1, PutWrites
    <3>3. CASE WritePyuLimit(p)
      <4>1. Fresh \in Limit
        BY CommandsAssumption DEF Fresh, Limit
      <4> QED BY <2>1, <3>2, <3>3, <4>1 DEF WritePyuLimit
    <3>4. CASE ~PyuLimitExists(p) /\ ~WritePyuLimit(p)
      <4>1. cmd[p].at \in PyuSteps \ {"write"} /\ View(p, i) # None
        BY <1>1, <2>1, <3>4 DEF PyuStep, GetPyuLimit, GetPyuLimitRestricted, Refuse,
           SetPyuLimitRestricted, GetPcountA, IncrementPcount, DecrementPyuLimit, At, PyuSteps, Known
      <4>2. View(p, i) \in Limit /\ cmd[p].n \in Nat
        BY <1>1, <4>1, ViewType DEF PyuSteps, Command
      <4>3. CASE SetPyuLimitRestricted(p)
        <5>1. [View(p, i) EXCEPT !.restricted = TRUE] \in Limit
          BY <4>2 DEF Limit
        <5> QED BY <3>2, <4>3, <5>1 DEF SetPyuLimitRestricted
      <4>4. CASE DecrementPyuLimit(p)
        <5>1. Byte(cmd[p].n - 1) \in 0..255
          BY <4>2, ByteRange
        <5>2. [View(p, i) EXCEPT !.count = Byte(cmd[p].n - 1)] \in Limit
          BY <4>2, <5>1 DEF Limit
        <5> QED BY <3>2, <4>4, <5>2 DEF DecrementPyuLimit
      <4>5. CASE IncrementPcount(p)
        BY <4>1, <4>2, <4>5 DEF IncrementPcount
      <4> QED BY <2>1, <3>4, <4>1, <4>3, <4>4, <4>5 DEF PyuStep, GetPyuLimit,
              GetPyuLimitRestricted, Refuse, GetPcountA
    <3> QED BY <3>1, <3>3, <3>4
  <2>4. CASE \E v : Put(p, "pyu", v) /\ v \in Nat /\ View(p, i) # None
    <3>1. PICK v : Put(p, "pyu", v) /\ v \in Nat
      BY <2>4
    <3>2. v \in Value /\ "pyu" \in Column /\ i # "pyu"
      BY <1>1, <3>1, Columns DEF Value
    <3>3. /\ DOMAIN own'[p] = DOMAIN own[p] \cup {"pyu"}
          /\ \A j \in DOMAIN own[p] \ {"pyu"} : own'[p][j] = own[p][j]
      BY <1>1, <3>1, <3>2, PutWrites
    <3> QED BY <2>2, <2>4, <3>2, <3>3 DEF View
  <2>5. CASE i \in DOMAIN own'[p]
    <3>1. Written(p, i)'
      BY <1>1, <2>5 DEF Sound, Spoken
    <3> QED BY <1>1, <2>5, <3>1, Columns DEF View, Written
  <2> QED BY <2>2, <2>3, <2>4, <2>5 DEF View
<1> QED BY <1>2, <1>3 DEF Known

(***************************************************************************)
(* Losers and the tally.                                                   *)
(***************************************************************************)
\* What a step can do to a post that has lost, or may have
LEMMA TallyMoves ==
    ASSUME ImageInv, CommandInv, NEW p \in Post, CommandStep(p)
    PROVE  /\ cmd'[p].at \in {"lost", "tally"} => \/ cmd[p].at = "lost"
                                                 \/ (there => p \in banned')
           /\ cmd'[p].at = "tallied" =>
                 cmd[p].at = "tally" /\ (there => Put(p, "rcount", cmd[p].n + 1))
           /\ cmd'[p].at = "done" /\ Lost(cmd'[p].results) =>
                 cmd[p].at = "tallied" /\ row' = Over(own[p], row)
<1>0. /\ CommandsTyped
      /\ cmd[p].at # "idle" => cmd[p] \in Command
  BY CmdType DEF CommandInv
<1>1. CASE Abort(p)
  BY <1>0, <1>1 DEF Abort, Command, CommandsTyped, NoCommand
<1>2. CASE Parse(p)
  <2>1. cmd'[p].at \in Words \cup {"parsed"}
    BY <1>0, <1>2, WordIsKnown DEF Parse, Goto, Command, CommandsTyped, At, Words
  <2> QED BY <2>1 DEF Words
<1>3. CASE Commit(p) \/ Deadlock(p)
  BY <1>0, <1>1, <1>3 DEF Commit, Deadlock, Command, CommandsTyped, At
<1>4. CASE PyuStep(p)
  BY <1>0, <1>1, <1>4 DEF PyuStep, PyuLimitExists, WritePyuLimit, GetPyuLimit,
     GetPyuLimitRestricted, Refuse, SetPyuLimitRestricted, GetPcountA, IncrementPcount,
     DecrementPyuLimit, Goto, Command, CommandsTyped, At
<1>5. CASE GetRoulette(p) \/ DecrementRoulette(p) \/ Roll(p) \/ GetRcount(p) \/ GetPcount(p)
  BY <1>0, <1>1, <1>5 DEF GetRoulette, DecrementRoulette, Roll, GetRcount, GetPcount,
     Goto, Result, Command, CommandsTyped, At
<1>6. CASE CheckRouletteBan(p)
  <2>1. cmd[p] \in Command /\ UNCHANGED there
    BY <1>0, <1>6 DEF CheckRouletteBan, At
  <2>2. CASE Lost(cmd[p].results)
    <3>1. cmd'[p].at = "lost" /\ (there => p \in banned')
      BY <1>0, <1>6, <2>1, <2>2 DEF CheckRouletteBan, Goto, Command, CommandsTyped
    <3> QED BY <2>1, <3>1
  <2>3. CASE ~Lost(cmd[p].results)
    <3>1. cmd'[p].at = "done" /\ cmd'[p].results = cmd[p].results
      BY <1>0, <1>6, <2>1, <2>3 DEF CheckRouletteBan, Goto, Command, CommandsTyped
    <3> QED BY <2>3, <3>1
  <2> QED BY <2>2, <2>3
<1>7. CASE IncrementRcount(p)
  BY <1>0, <1>1, <1>7 DEF IncrementRcount, Goto, Command, CommandsTyped, At
<1> QED BY <1>2, <1>3, <1>4, <1>5, <1>6, <1>7 DEF CommandStep, PyuStep

LEMMA CommandTallies ==
    ASSUME ImageInv, CommandInv, NEW p \in Post, CommandStep(p), Alone
    PROVE  Tallied'
<1>1. /\ Sound(p) /\ Tallied /\ CommandsTyped /\ Spoken(p) /\ Committed
      /\ UNCHANGED there /\ banned \subseteq banned'
  BY CommandSound, RowsWritten DEF CommandInv
<1>2. \A q \in Post \ {p} : cmd'[q] = cmd[q] /\ own'[q] = own[q]
  BY <1>1 DEF Sound, Framed
<1>3. row["rcount"] > 0 => row'["rcount"] > 0
  <2>1. "rcount" \in Column /\ row["rcount"] \in Nat
    BY <1>1, Columns DEF Committed
  <2>2. row'["rcount"] = row["rcount"] \/ row'["rcount"] \in Nat \ {0}
    BY <2>1, ColumnsCommitted DEF View, Written
  <2> QED BY <2>1, <2>2
<1>4. \A q \in Post : cmd'[q].at \in {"lost", "tally", "tallied"} /\ there' => q \in banned'
  <2>1. \A q \in Post \ {p} : cmd'[q].at \in {"lost", "tally", "tallied"} /\ there' => q \in banned'
    BY <1>1, <1>2 DEF Tallied
  <2>2. cmd'[p].at \in {"lost", "tally", "tallied"} /\ there' => p \in banned'
    BY <1>1, TallyMoves DEF Tallied
  <2> QED BY <2>1, <2>2
<1>5. \A q \in Post : At(q, "tallied")' /\ there' => "rcount" \in DOMAIN own'[q]
  <2>1. \A q \in Post \ {p} : At(q, "tallied")' /\ there' => "rcount" \in DOMAIN own'[q]
    BY <1>1, <1>2 DEF Tallied, At
  <2>2. ASSUME At(p, "tallied")', there' PROVE "rcount" \in DOMAIN own'[p]
    <3>1. Put(p, "rcount", cmd[p].n + 1) /\ cmd[p].at = "tally"
      BY <1>1, <2>2, TallyMoves DEF At
    <3>2. cmd[p].n + 1 \in Value /\ "rcount" \in Column
      BY <1>1, <3>1, CmdType, Columns DEF Command, Value
    <3> QED BY <1>1, <3>1, <3>2, PutWrites
  <2> QED BY <2>1, <2>2
<1>6. ASSUME NEW q \in Post, At(q, "done")', Lost(cmd'[q].results), there'
      PROVE  q \in banned' /\ row'["rcount"] > 0
  <2>1. CASE q # p
    BY <1>1, <1>2, <1>3, <1>6, <2>1 DEF Tallied, LosersAreBanned, At
  <2>2. CASE q = p
    <3>1. cmd[p].at = "tallied" /\ row' = Over(own[p], row)
      BY <1>6, <2>2, TallyMoves DEF At
    <3>2. p \in banned /\ "rcount" \in DOMAIN own[p]
      BY <1>1, <1>6, <3>1 DEF Tallied, At
    <3>3. row'["rcount"] = own[p]["rcount"] /\ own[p]["rcount"] \in Nat \ {0}
      <4>1. "rcount" \in Column /\ Written(p, "rcount")
        BY <1>1, <3>2, Columns DEF Spoken
      <4> QED BY <1>1, <3>1, <3>2, <4>1, CommitWrites DEF Written, View
    <3>4. row'["rcount"] > 0
      BY <3>3
    <3> QED BY <1>1, <2>2, <3>2, <3>4
  <2> QED BY <2>1, <2>2
<1> QED BY <1>4, <1>5, <1>6 DEF Tallied, LosersAreBanned

(***************************************************************************)
(* The limit of an IP.                                                     *)
(***************************************************************************)
\* A step that leaves the limit of i as it is, and no use of it begins or commits.
LEMMA OutsideKept ==
    ASSUME NEW p \in Post, Framed(p), NEW i \in IP, LimitKept(i),
           row'[i] = row[i], counted'[i] = counted[i],
           IPOf[p] = i => ~InPyu(p)' /\ (InPyu(p) => ~At(p, "commit"))
    PROVE  LimitKept(i)'
<1>1. \A q \in Post : IPOf[q] = i /\ InPyu(q)' =>
          q # p /\ cmd'[q] = cmd[q] /\ InPyu(q) /\ View(q, i)' = View(q, i)
  BY DEF Framed, InPyu, At, Word, Said, View
<1>2. Single(i)'
  BY <1>1 DEF LimitKept, Single
<1>3. Settled(i)'
  <2> SUFFICES ASSUME \A q \in Post : IPOf[q] = i => ~(InPyu(q)' /\ At(q, "commit")')
               PROVE  IF row'[i] = None THEN counted'[i] = 0 ELSE Even(row'[i], counted'[i])
    BY DEF Settled, Even
  <2>1. \A q \in Post : IPOf[q] = i => ~(InPyu(q) /\ At(q, "commit"))
    BY DEF Framed, InPyu, At, Word, Said
  <2> QED BY <2>1 DEF LimitKept, Settled
<1>4. \A q \in Post : IPOf[q] = i /\ InPyu(q)' => Limited(q, View(q, i), counted[i])'
  <2> SUFFICES ASSUME NEW q \in Post, IPOf[q] = i, InPyu(q)'
               PROVE  Limited(q, View(q, i), counted[i])'
    OBVIOUS
  <2>1. Limited(q, View(q, i), counted[i]) /\ own'[q] = own[q]
    BY <1>1 DEF LimitKept, Framed
  <2> QED BY <1>1, <2>1 DEF Limited, At, Even, Used
<1> QED BY <1>2, <1>3, <1>4 DEF LimitKept

\* A step of the only use of the limit of i, which is not a commit
LEMMA InsideKept ==
    ASSUME NEW p \in Post, Framed(p), NEW i \in IP, IPOf[p] = i,
           \A q \in Post \ {p} : IPOf[q] = i => ~InPyu(q),
           InPyu(p)', Limited(p, View(p, i), counted[i])',
           \/ At(p, "commit")'
           \/ /\ row'[i] = row[i] /\ counted'[i] = counted[i] /\ LimitKept(i)
              /\ ~(InPyu(p) /\ At(p, "commit"))
    PROVE  LimitKept(i)'
<1>1. \A q \in Post \ {p} : IPOf[q] = i => ~InPyu(q)'
  BY DEF Framed, InPyu, At, Word, Said
<1>2. Single(i)'
  BY <1>1 DEF Single
<1>3. Settled(i)'
  <2>1. CASE At(p, "commit")'
    BY <2>1 DEF Settled
  <2>2. CASE ~At(p, "commit")'
    <3>1. \A q \in Post : IPOf[q] = i => ~(InPyu(q) /\ At(q, "commit"))
      BY <2>2
    <3>2. row'[i] = row[i] /\ counted'[i] = counted[i] /\ LimitKept(i)
      BY <2>2
    <3>3. IF row[i] = None THEN counted[i] = 0 ELSE Even(row[i], counted[i])
      BY <3>1, <3>2 DEF LimitKept, Settled
    <3> QED BY <3>2, <3>3 DEF Settled, Even
  <2> QED BY <2>1, <2>2
<1>4. \A q \in Post : IPOf[q] = i /\ InPyu(q)' => Limited(q, View(q, i), counted[i])'
  BY <1>1
<1> QED BY <1>2, <1>3, <1>4 DEF LimitKept

\* What is committed of a column that p has not written, or of another's IP
LEMMA RowOfOthers ==
    ASSUME ImageInv, CommandInv, NEW p \in Post, CommandStep(p), NEW i \in IP,
           i # IPOf[p] \/ ~InPyu(p)
    PROVE  row'[i] = row[i]
<1>1. i \in Column
  BY Columns
<1> QED BY <1>1, ColumnsCommitted DEF Written

\* No step but that of the parser begins a #pyu.
LEMMA OnlyParseBegins ==
    ASSUME ImageInv, CommandInv, NEW p \in Post, CommandStep(p), Alone, ~InPyu(p), InPyu(p)'
    PROVE  Parse(p) /\ cmd'[p].at = "pyu" /\ Word(p) = "pyu"
<1>1. /\ CommandsTyped /\ Spoken(p) /\ UNCHANGED bound
      /\ cmd[p].at # "idle" => cmd[p] \in Command
  BY CmdType DEF CommandInv, Alone, imageVars
<1>2. ~PyuStep(p)
  BY DEF PyuStep, PyuLimitExists, WritePyuLimit, GetPyuLimit, GetPyuLimitRestricted, Refuse,
     SetPyuLimitRestricted, GetPcountA, IncrementPcount, DecrementPyuLimit, At, InPyu
<1>3. ~Abort(p) /\ ~Deadlock(p)
  BY <1>1 DEF Abort, Deadlock, Command, CommandsTyped, InPyu, At, NoCommand
<1>4. ~Commit(p)
  BY <1>1 DEF Commit, Command, CommandsTyped, InPyu, At
<1>5. ~RollStep(p)
  <2>1. ASSUME RollStep(p) PROVE (Word(p)' = Word(p) /\ Word(p) # "pyu") \/ ~At(p, "commit")'
    <3>1. CASE GetRoulette(p) \/ CheckRouletteBan(p) \/ IncrementRcount(p) \/ DecrementRoulette(p)
      BY <1>1, <1>3, <3>1 DEF GetRoulette, DecrementRoulette, CheckRouletteBan, IncrementRcount,
         Goto, Command, CommandsTyped, At
    <3>2. CASE Roll(p) \/ GetRcount(p) \/ GetPcount(p)
      <4>1. cmd[p].at \in {"roll", "rcount", "pcount"} /\ cmd'[p].i = cmd[p].i
        BY <1>1, <1>3, <3>2 DEF Roll, GetRcount, GetPcount, Result, Command, CommandsTyped, At
      <4> QED BY <1>1, <4>1 DEF Spoken, Words, Word, Said
    <3> QED BY <2>1, <3>1, <3>2 DEF RollStep
  <2>2. ASSUME RollStep(p) PROVE cmd'[p].at \notin PyuSteps \cup {"pyu"}
    BY <1>1, <1>3, <2>2 DEF RollStep, GetRoulette, DecrementRoulette, Roll, GetRcount, GetPcount,
       CheckRouletteBan, IncrementRcount, Goto, Result, Command, CommandsTyped, At, PyuSteps
  <2> QED BY <2>1, <2>2 DEF InPyu, At, PyuSteps
<1>6. Parse(p)
  BY <1>2, <1>3, <1>4, <1>5 DEF CommandStep, PyuStep, RollStep
<1>7. cmd'[p].at = "pyu" /\ Word(p) = "pyu"
  <2>1. /\ cmd'[p].at \in Words \cup {"parsed"} /\ (cmd'[p].at \in Words => Word(p) = cmd'[p].at)
    BY <1>1, <1>6, WordIsKnown DEF Parse, Goto, Command, CommandsTyped, At, Words
  <2> QED BY <2>1 DEF InPyu, At, Words
<1> QED BY <1>6, <1>7

\* Where p runs no #pyu, or begins one that overlaps with no other
LEMMA LimitKeptOutside ==
    ASSUME ImageInv, CommandInv, NEW p \in Post, CommandStep(p), Alone, NEW i \in IP \ together',
           i # IPOf[p] \/ ~InPyu(p)
    PROVE  LimitKept(i)'
<1>1. /\ Framed(p) /\ CommandsTyped
      /\ i \notin together /\ LimitKept(i) /\ row'[i] = row[i]
  BY CommandSound, UsesCounted, RowOfOthers DEF CommandInv, Limits, Sound
<1>2. counted'[i] = counted[i]
  <2>1. DecrementPyuLimit(p) => InPyu(p)
    BY DEF DecrementPyuLimit, InPyu, At
  <2> QED BY <1>1, <2>1, UsesCounted DEF CommandsTyped
<1>3. CASE i = IPOf[p] /\ InPyu(p)'
  <2>1. Parse(p) /\ cmd'[p].at = "pyu" /\ Word(p) = "pyu" /\ ~InPyu(p)
    BY <1>3, OnlyParseBegins
  <2>2. At(p, "parse") /\ ~(cmd[p].i > Len(Said(p)))
    BY <1>1, <2>1, CmdType DEF Parse, Goto, At, Command, CommandsTyped, NoCommand
  <2>3. \A q \in Post \ {p} : IPOf[q] = i => ~InPyu(q)
    BY <1>3, <2>1, <2>2 DEF Parse
  <2>4. Limited(p, View(p, i), counted[i])'
    BY <2>1 DEF Limited, At
  <2> QED BY <1>1, <1>2, <1>3, <2>1, <2>3, <2>4, InsideKept
<1>4. CASE ~(i = IPOf[p] /\ InPyu(p)')
  BY <1>1, <1>2, <1>4, OutsideKept
<1> QED BY <1>3, <1>4

\* Arithmetic of a limit
LEMMA LimitRange == PyuLimit \in Nat /\ PyuLimit \in 0..255 /\ PyuLimit # 0
<1>1. PyuLimit \in 1..254
  BY CommandsAssumption
<1> QED BY <1>1

LEMMA DecrementIsEven ==
    ASSUME NEW v \in Limit, NEW c \in Nat, Used(v, c)
    PROVE  Even([v EXCEPT !.count = Byte(v.count - 1)], c + 1)
<1>1. v.count \in 1..255 /\ v.restricted \in BOOLEAN /\ v.count + c = PyuLimit
  BY DEF Limit, Used
<1>2. v.count - 1 \in 0..255 /\ (v.count - 1) + (c + 1) = PyuLimit
  BY <1>1, LimitRange
<1>3. Byte(v.count - 1) = v.count - 1
  BY <1>2, ByteSmall
<1>4. v.count = 1 <=> v.count - 1 = 0
  BY <1>1
<1> DEFINE w == [v EXCEPT !.count = v.count - 1]
<1>5. w.count = v.count - 1 /\ w.restricted = v.restricted /\ w \in Limit
  BY <1>1, <1>2 DEF Limit
<1> HIDE DEF w
<1>6. Even(w, c + 1)
  BY <1>2, <1>4, <1>5, Columns DEF Even, Used
<1> QED BY <1>3, <1>6 DEF w

LEMMA LastUseIsUsed ==
    ASSUME NEW v \in Limit, NEW c \in Nat, Even(v, c), v.count = 1
    PROVE  Used([v EXCEPT !.restricted = TRUE], c)
<1> DEFINE w == [v EXCEPT !.restricted = TRUE]
<1>1. w.count = 1 /\ w.restricted = TRUE /\ w \in Limit /\ v.count + c = PyuLimit
  BY DEF Limit, Even
<1> HIDE DEF w
<1>2. Used(w, c)
  BY <1>1, Columns DEF Used
<1> QED BY <1>2 DEF w

LEMMA UnrestrictedIsUsed ==
    ASSUME NEW v \in Limit, NEW c \in Nat, Even(v, c), ~v.restricted, v.count # 1
    PROVE  Used(v, c)
<1>1. v.count \in Nat /\ v.restricted = FALSE /\ v.count # 0
  BY DEF Limit, Even
<1> QED BY <1>1 DEF Used, Even

LEMMA FreshIsEven == Fresh \in Limit /\ Even(Fresh, 0)
<1>1. PyuLimit \in 0..255 /\ PyuLimit # 0 /\ PyuLimit + 0 = PyuLimit
  BY LimitRange
<1>2. Fresh.count = PyuLimit /\ Fresh.restricted = FALSE /\ Fresh \in Limit
  BY <1>1 DEF Fresh, Limit
<1> QED BY <1>1, <1>2, Columns DEF Even

\* What p sees after it has written column k
LEMMA ViewWritten ==
    ASSUME CommandsTyped, NEW p \in Post, NEW k \in Column, NEW v \in Value, Put(p, k, v),
           UNCHANGED row, NEW i \in Column
    PROVE  View(p, i)' = IF i = k THEN v ELSE View(p, i)
  BY PutWrites DEF View

\* A step of a #pyu that overlaps with no other of its IP
LEMMA PyuKeepsLimit ==
    ASSUME ImageInv, CommandInv, NEW p \in Post, PyuStep(p), UNCHANGED bound,
           NEW i \in IP \ together, i = IPOf[p], Framed(p)
    PROVE  LimitKept(i)'
<1> DEFINE v == View(p, i)
           c == counted[i]
<1>0. /\ CommandsTyped /\ Spoken(p) /\ i \in Column /\ LimitKept(i) /\ c \in Nat
      /\ v \in Limit \cup {None} /\ None \notin Limit
      /\ cmd[p].at \in PyuSteps \ {"write"} => v \in Limit
  BY ViewType, Columns DEF CommandInv, CommandsTyped, Limits, Known
<1>1. /\ InPyu(p) /\ ~At(p, "commit") /\ cmd[p].at # "idle"
      /\ cmd[p].at \in PyuSteps \cup {"pyu"} /\ UNCHANGED row
  BY DEF PyuStep, PyuLimitExists, WritePyuLimit, GetPyuLimit, GetPyuLimitRestricted, Refuse,
     SetPyuLimitRestricted, GetPcountA, IncrementPcount, DecrementPyuLimit, At, InPyu, Keep, PyuSteps
<1>2. /\ cmd[p] \in Command /\ Word(p) = "pyu"
      /\ Word(p)' = Word(p) \/ cmd'[p].i # cmd[p].i
  BY <1>0, <1>1, CmdType DEF Spoken, Words, PyuSteps, Word, Said
<1>3. /\ \A q \in Post \ {p} : IPOf[q] = i => ~InPyu(q)
      /\ Limited(p, v, c)
      /\ IF row[i] = None THEN c = 0 ELSE Even(row[i], c)
  BY <1>0, <1>1 DEF LimitKept, Single, Settled
<1>4. ASSUME cmd'[p].at \in PyuSteps, counted'[i] = c, Limited(p, View(p, i), counted[i])'
      PROVE  LimitKept(i)'
  <2>1. InPyu(p)'
    BY <1>4 DEF InPyu, At, PyuSteps
  <2> QED BY <1>0, <1>1, <1>3, <1>4, <2>1, InsideKept
<1>5. CASE PyuLimitExists(p)
  <2>1. /\ own[p] = <<>> /\ UNCHANGED own /\ v = row[i] /\ counted'[i] = c
        /\ cmd'[p].at = IF v = None THEN "write" ELSE "limit"
    BY <1>0, <1>2, <1>5, ViewType
       DEF PyuLimitExists, Goto, Keep, At, Spoken, Words, Clear, Command, CommandsTyped
  <2>2. View(p, i)' = v
    BY <1>1, <2>1 DEF View
  <2>3. Limited(p, View(p, i), counted[i])'
    BY <1>3, <2>1, <2>2 DEF Limited, Even, At
  <2> QED BY <1>4, <2>1, <2>3 DEF PyuSteps
<1>6. CASE WritePyuLimit(p)
  <2>0. At(p, "write") /\ counted'[i] = c
    BY <1>6 DEF WritePyuLimit, Keep
  <2>1. CASE Abort(p)
    <3>1. cmd'[p].at = "failed"
      BY <1>0, <1>2, <2>1 DEF Abort, Command, CommandsTyped
    <3>2. ~InPyu(p)'
      BY <3>1 DEF InPyu, At
    <3> QED BY <1>0, <1>1, <2>0, <3>2, OutsideKept
  <2>2. CASE row[i] = None /\ Put(p, i, Fresh) /\ Goto(p, "limit")
    <3>1. cmd'[p].at = "limit"
      BY <1>0, <1>2, <2>2 DEF Goto, Command, CommandsTyped
    <3>2. Fresh \in Value /\ Even(Fresh, 0) /\ c = 0
      BY <1>3, <2>2, FreshIsEven DEF Value
    <3>3. View(p, i)' = Fresh
      BY <1>0, <1>1, <2>2, <3>2, ViewWritten
    <3>4. Limited(p, View(p, i), counted[i])'
      BY <2>0, <3>1, <3>2, <3>3 DEF Limited, At, Even
    <3> QED BY <1>4, <2>0, <3>1, <3>4 DEF PyuSteps
  <2> QED BY <1>6, <2>1, <2>2 DEF WritePyuLimit
<1>7. CASE GetPyuLimit(p)
  <2>1. /\ cmd[p].at \in {"limit", "left"} /\ UNCHANGED own /\ counted'[i] = c
        /\ cmd'[p].at = IF At(p, "limit") THEN "restricted" ELSE "decrement"
        /\ cmd'[p].n = v.count
    <3>1. CASE At(p, "limit")
      BY <1>0, <1>2, <1>7, <3>1 DEF GetPyuLimit, At, Keep, Command, CommandsTyped
    <3>2. CASE At(p, "left")
      BY <1>0, <1>2, <1>7, <3>2 DEF GetPyuLimit, At, Keep, Command, CommandsTyped
    <3> QED BY <1>7, <3>1, <3>2 DEF GetPyuLimit, At
  <2>2. View(p, i)' = v
    BY <1>1, <2>1 DEF View
  <2>3. Limited(p, View(p, i), counted[i])'
    BY <1>3, <2>1, <2>2 DEF Limited, Even, Used, At
  <2> QED BY <1>4, <2>1, <2>3 DEF PyuSteps
<1>8. CASE GetPyuLimitRestricted(p)
  <2>1. /\ At(p, "restricted") /\ UNCHANGED own /\ counted'[i] = c /\ cmd'[p].n = cmd[p].n
        /\ cmd'[p].at = IF v.restricted THEN "refuse"
                        ELSE IF cmd[p].n = 1 THEN "restrict" ELSE "increment"
    BY <1>0, <1>2, <1>8 DEF GetPyuLimitRestricted, Goto, Keep, Command, CommandsTyped, At
  <2>2. v \in Limit /\ Even(v, c) /\ cmd[p].n = v.count
    BY <1>0, <1>3, <2>1 DEF Limited, At, PyuSteps
  <2>3. View(p, i)' = v
    BY <1>1, <2>1 DEF View
  <2>4. ~v.restricted /\ cmd[p].n # 1 => Used(v, c)
    BY <1>0, <2>2, UnrestrictedIsUsed
  <2>5. Limited(p, View(p, i), counted[i])'
    BY <2>1, <2>2, <2>3, <2>4 DEF Limited, Even, Used, At
  <2> QED BY <1>4, <2>1, <2>5 DEF PyuSteps
<1>9. CASE Refuse(p)
  <2>1. /\ At(p, "refuse") /\ UNCHANGED own /\ counted'[i] = c
        /\ cmd'[p].at = "commit" /\ cmd'[p].i = cmd[p].i
    BY <1>0, <1>2, <1>9 DEF Refuse, Command, CommandsTyped, At
  <2>2. View(p, i)' = v /\ Even(v, c)
    BY <1>1, <1>3, <2>1 DEF View, Limited, At
  <2>3. InPyu(p)' /\ At(p, "commit")'
    BY <1>2, <2>1 DEF InPyu, At, Word, Said
  <2>4. Limited(p, View(p, i), counted[i])'
    BY <2>1, <2>2 DEF Limited, Even, Used, At
  <2> QED BY <1>3, <2>3, <2>4, InsideKept
<1>10. CASE SetPyuLimitRestricted(p)
  <2> DEFINE w == [v EXCEPT !.restricted = TRUE]
  <2>1. At(p, "restrict") /\ Put(p, i, w) /\ counted'[i] = c /\ cmd'[p].at = "increment"
    BY <1>0, <1>2, <1>10 DEF SetPyuLimitRestricted, Goto, Keep, Command, CommandsTyped
  <2>2. v \in Limit /\ Even(v, c) /\ v.count = 1
    BY <1>0, <1>3, <2>1 DEF Limited, At, PyuSteps
  <2>3. Used(w, c) /\ w \in Value
    BY <1>0, <2>2, LastUseIsUsed DEF Limit, Value
  <2> HIDE DEF w
  <2>4. View(p, i)' = w
    BY <1>0, <1>1, <2>1, <2>3, ViewWritten
  <2>5. Limited(p, View(p, i), counted[i])'
    BY <2>1, <2>3, <2>4 DEF Limited, Used, At
  <2> QED BY <1>4, <2>1, <2>5 DEF PyuSteps
<1>11. CASE GetPcountA(p)
  <2>1. At(p, "increment") /\ UNCHANGED own /\ counted'[i] = c /\ cmd'[p].at = "count"
    BY <1>0, <1>2, <1>11 DEF GetPcountA, Keep, Command, CommandsTyped
  <2>2. View(p, i)' = v /\ Used(v, c)
    BY <1>1, <1>3, <2>1 DEF View, Limited, At
  <2>3. Limited(p, View(p, i), counted[i])'
    BY <2>1, <2>2 DEF Limited, Used, At
  <2> QED BY <1>4, <2>1, <2>3 DEF PyuSteps
<1>12. CASE IncrementPcount(p)
  <2>1. /\ At(p, "count") /\ Put(p, "pyu", cmd[p].n + 1) /\ counted'[i] = c
        /\ cmd'[p].at = "left"
    BY <1>0, <1>2, <1>12 DEF IncrementPcount, Keep, Command, CommandsTyped
  <2>2. cmd[p].n + 1 \in Value /\ "pyu" \in Column /\ i # "pyu"
    <3>1. cmd[p].n \in Nat
      BY <1>2 DEF Command
    <3> QED BY <3>1, Columns DEF Value
  <2>3. View(p, i)' = v
    BY <1>0, <1>1, <2>1, <2>2, ViewWritten
  <2>4. Used(v, c)
    BY <1>3, <2>1 DEF Limited, At
  <2>5. Limited(p, View(p, i), counted[i])'
    BY <2>1, <2>3, <2>4 DEF Limited, Used, At
  <2> QED BY <1>4, <2>1, <2>5 DEF PyuSteps
<1>13. CASE DecrementPyuLimit(p)
  <2> DEFINE w == [v EXCEPT !.count = Byte(cmd[p].n - 1)]
  <2>1. /\ At(p, "decrement") /\ Put(p, i, w) /\ counted'[i] = c + 1
        /\ cmd'[p].at = "commit" /\ cmd'[p].i = cmd[p].i
    BY <1>0, <1>2, <1>13 DEF DecrementPyuLimit, Goto, Command, CommandsTyped
  <2>2. v \in Limit /\ Used(v, c) /\ cmd[p].n = v.count
    BY <1>0, <1>3, <2>1 DEF Limited, At, PyuSteps
  <2>3. Even(w, c + 1)
    BY <1>0, <2>2, DecrementIsEven
  <2>4. w \in Value
    <3>1. v.count - 1 \in Int
      BY <2>2 DEF Limit
    <3>2. Byte(v.count - 1) \in 0..255
      BY <3>1, ByteRange
    <3> QED BY <2>2, <3>2 DEF Limit, Value
  <2> HIDE DEF w
  <2>5. View(p, i)' = w
    BY <1>0, <1>1, <2>1, <2>4, ViewWritten
  <2>6. InPyu(p)' /\ At(p, "commit")'
    BY <1>2, <2>1 DEF InPyu, At, Word, Said
  <2>7. Limited(p, View(p, i), counted[i])'
    BY <2>1, <2>3, <2>5 DEF Limited, Even, At
  <2> QED BY <1>3, <2>6, <2>7, InsideKept
<1> QED BY <1>5, <1>6, <1>7, <1>8, <1>9, <1>10, <1>11, <1>12, <1>13 DEF PyuStep

\* The commit of a #pyu that overlaps with no other of its IP
LEMMA CommitKeepsLimit ==
    ASSUME ImageInv, CommandInv, NEW p \in Post, Commit(p), Alone, InPyu(p),
           NEW i \in IP \ together, i = IPOf[p], Framed(p)
    PROVE  LimitKept(i)'
<1>1. /\ CommandsTyped /\ LimitKept(i) /\ i \in Column /\ At(p, "commit")
      /\ UNCHANGED <<bound, counted>>
  BY Columns DEF CommandInv, Limits, Commit, Alone, imageVars
<1>2. row'[i] = View(p, i) /\ Even(row'[i], counted[i])
  BY <1>1, CommitWrites DEF Commit, LimitKept, Limited, At
<1>3. cmd'[p].at = "parse"
  BY <1>1, CmdType DEF Commit, At, Command, CommandsTyped
<1>4. \A q \in Post : IPOf[q] = i => ~InPyu(q)'
  <2>1. ~InPyu(p)'
    BY <1>3 DEF InPyu, At
  <2>2. \A q \in Post \ {p} : IPOf[q] = i => ~InPyu(q)'
    BY <1>1 DEF LimitKept, Single, Framed, InPyu, At, Word, Said
  <2> QED BY <2>1, <2>2
<1>5. Settled(i)'
  BY <1>1, <1>2 DEF Settled, Even
<1> QED BY <1>4, <1>5 DEF LimitKept, Single

LEMMA CommandLimits ==
    ASSUME ImageInv, CommandInv, NEW p \in Post, CommandStep(p), Alone
    PROVE  Limits'
<1> SUFFICES ASSUME NEW i \in IP \ together' PROVE LimitKept(i)'
  BY DEF Limits
<1>1. Framed(p) /\ UNCHANGED bound /\ i \notin together /\ LimitKept(i) /\ CommandsTyped
  BY CommandSound, UsesCounted DEF Sound, Framed, CommandInv, Limits
<1>2. CASE i # IPOf[p] \/ ~InPyu(p)
  BY <1>2, LimitKeptOutside
<1>3. CASE i = IPOf[p] /\ InPyu(p)
  <2>1. CASE PyuStep(p)
    BY <1>1, <1>3, <2>1, PyuKeepsLimit
  <2>2. CASE Commit(p)
    BY <1>1, <1>3, <2>2, CommitKeepsLimit
  <2>3. CASE Deadlock(p)
    <3>1. cmd'[p].at = "failed" /\ ~At(p, "commit")
      BY <1>1, <2>3, DeadlockSound
    <3>2. ~InPyu(p)'
      BY <3>1 DEF InPyu, At
    <3>3. row'[i] = row[i] /\ counted'[i] = counted[i]
      BY <2>3 DEF Deadlock, Keep
    <3> QED BY <1>1, <3>1, <3>2, <3>3, OutsideKept
  <2>4. ~Parse(p) /\ ~RollStep(p)
    <3>1. Spoken(p)
      BY DEF CommandInv
    <3> QED BY <1>3, <3>1 DEF Parse, RollStep, GetRoulette, DecrementRoulette, Roll, GetRcount,
            GetPcount, CheckRouletteBan, IncrementRcount, At, InPyu
  <2> QED BY <2>1, <2>2, <2>3, <2>4 DEF CommandStep, PyuStep, RollStep
<1> QED BY <1>2, <1>3

LEMMA CommandKeeps ==
    ASSUME ImageInv, CommandInv, NEW p \in Post, CommandStep(p), Alone
    PROVE  CommandInv'
  BY CommandTyped, CommandKnows, CommandTallies, CommandLimits, CommandQuiet DEF CommandInv

(***************************************************************************)
(* The other steps.                                                        *)
(***************************************************************************)
LEMMA BoundIsKept ==
    ASSUME ImagesStep \/ \E u \in Upload : UploadStep(u)
    PROVE  UNCHANGED bound
<1>1. ASSUME NEW u \in Upload, UploadStep(u) PROVE UNCHANGED bound
  BY <1>1 DEF UploadStep, ImageExists, NewImageToken, CommitToken, AllocateImage, WriteFiles,
     CommitImage
<1>2. ASSUME ImagesStep PROVE UNCHANGED bound
  BY <1>2 DEF ImagesStep, Request, FailToWrite, FailToCommit, ExpireToken, ScanUnused, DeleteUnused,
     FinishCleanup, DeleteFiles, DeleteImage, ReadPost, PurgeFiles, CommitPurge, RollBackPurge
<1> QED BY <1>1, <1>2

LEMMA NothingSaid ==
    ASSUME CommandInv, UNCHANGED <<commandVars, bound>>
    PROVE  /\ CommandsTyped' /\ Committed' /\ (\A p \in Post : Spoken(p)') /\ Known' /\ Tallied'
           /\ Limits'
<1>1. /\ UNCHANGED <<row, own, cmd, banned, counted, together, there, bound>>
      /\ CommandsTyped /\ Committed /\ (\A p \in Post : Spoken(p)) /\ Known /\ Tallied /\ Limits
  BY DEF commandVars, CommandInv
<1>2. CommandsTyped' /\ Committed' /\ Tallied' /\ Known'
  BY <1>1 DEF CommandsTyped, Committed, Tallied, LosersAreBanned, At, Known, View
<1>3. \A p \in Post : Spoken(p)'
  BY <1>1, SpokenStays
<1>4. Limits'
  <2> SUFFICES ASSUME NEW i \in IP \ together' PROVE LimitKept(i)'
    BY DEF Limits
  <2>1. LimitKept(i)
    BY <1>1 DEF Limits
  <2>2. Single(i)' /\ Settled(i)'
    BY <1>1, <2>1 DEF LimitKept, Single, Settled, Even, InPyu, Word, Said, At
  <2>3. \A p \in Post : IPOf[p] = i /\ InPyu(p)' => Limited(p, View(p, i), counted[i])'
    BY <1>1, <2>1 DEF LimitKept, Limited, View, Even, Used, InPyu, Word, Said, At
  <2> QED BY <2>2, <2>3 DEF LimitKept
<1> QED BY <1>1, <1>2, <1>3, <1>4

LEMMA Unheard ==
    ASSUME CommandInv, UNCHANGED <<commandVars, postVars, bound>>
    PROVE  CommandInv'
<1>1. Quiet'
  BY DEF CommandInv, Quiet, commandVars, postVars, At, KindOf
<1> QED BY <1>1, NothingSaid DEF CommandInv

\* The limits are released while no transaction has written one.
LEMMA ReleaseKeeps ==
    ASSUME CommandInv, FreePyuLimit, Alone
    PROVE  CommandInv'
<1>0. /\ UNCHANGED <<own, cmd, banned, there, bound, task>>
      /\ CommandsTyped /\ Committed /\ (\A p \in Post : Spoken(p)) /\ Known /\ Tallied /\ Quiet
      /\ row' = [k \in Column |-> IF k \in IP /\ row[k] # None THEN Fresh ELSE row[k]]
  BY DEF CommandInv, FreePyuLimit, Alone, imageVars, postVars
<1>1. /\ \A k \in {"pyu", "scount", "rcount"} : row'[k] = row[k]
      /\ \A i \in IP : row'[i] = IF row[i] # None THEN Fresh ELSE None
      /\ row' \in [Column -> Value \cup {None}]
  <2>1. Fresh \in Value
    BY FreshIsEven DEF Value
  <2> QED BY <1>0, <2>1, Columns DEF CommandsTyped
<1>2. CommandsTyped' /\ Committed'
  <2>1. counted' \in [IP -> Nat] /\ together' \subseteq IP
    BY Columns DEF FreePyuLimit
  <2>2. CommandsTyped'
    BY <1>0, <1>1, <2>1 DEF CommandsTyped
  <2>3. Committed'
    BY <1>0, <1>1, FreshIsEven DEF Committed
  <2> QED BY <2>2, <2>3
<1>3. \A p \in Post : Spoken(p)'
  BY <1>0, SpokenStays
<1>4. Known'
  BY <1>0, <1>1, FreshIsEven, Columns DEF Known, View
<1>5. Tallied' /\ Quiet'
  BY <1>0, <1>1 DEF Tallied, LosersAreBanned, Quiet, At, KindOf
<1>6. Limits'
  <2> SUFFICES ASSUME NEW i \in IP \ together' PROVE LimitKept(i)'
    BY DEF Limits
  <2>1. \A p \in Post : IPOf[p] = i => ~InPyu(p)'
    BY <1>0 DEF FreePyuLimit, InPyu, Word, Said, At
  <2>2. counted'[i] = 0 /\ (row'[i] = None \/ Even(row'[i], 0))
    BY <1>1, FreshIsEven DEF FreePyuLimit
  <2>3. Settled(i)'
    BY <2>2 DEF Settled, Even
  <2> QED BY <2>1, <2>3 DEF LimitKept, Single
<1> QED BY <1>2, <1>3, <1>4, <1>5, <1>6 DEF CommandInv

\* With the thread go its losers.
LEMMA DeleteKeeps ==
    ASSUME CommandInv, DeleteThread
    PROVE  CommandInv'
<1>0. /\ UNCHANGED <<row, own, cmd, banned, counted, together, bound, task>> /\ there' = FALSE
      /\ CommandsTyped /\ Committed /\ (\A p \in Post : Spoken(p)) /\ Known /\ Quiet /\ Limits
  BY DEF CommandInv, DeleteThread
<1>1. CommandsTyped' /\ Committed' /\ Tallied' /\ Known' /\ Quiet'
  BY <1>0 DEF CommandsTyped, Committed, Tallied, LosersAreBanned, At, Known, View, Quiet, KindOf
<1>2. \A p \in Post : Spoken(p)'
  BY <1>0, SpokenStays
<1>3. Limits'
  <2> SUFFICES ASSUME NEW i \in IP \ together' PROVE LimitKept(i)'
    BY DEF Limits
  <2>1. LimitKept(i)
    BY <1>0 DEF Limits
  <2>2. Single(i)' /\ Settled(i)'
    BY <1>0, <2>1 DEF LimitKept, Single, Settled, Even, InPyu, Word, Said, At
  <2>3. \A p \in Post : IPOf[p] = i /\ InPyu(p)' => Limited(p, View(p, i), counted[i])'
    BY <1>0, <2>1 DEF LimitKept, Limited, View, Even, Used, InPyu, Word, Said, At
  <2> QED BY <2>2, <2>3 DEF LimitKept
<1> QED BY <1>1, <1>2, <1>3 DEF CommandInv

\* A step of the creation or the close of p that puts its commands at a step at which
\* none runs
LEMMA Restarted ==
    ASSUME CommandInv, NEW p \in Post, own[p] = <<>>, ~InPyu(p),
           UNCHANGED <<row, own, banned, counted, together, there, bound>>,
           NEW c \in Command, cmd' = [cmd EXCEPT ![p] = c], c.at \in {"parse", "closed", "swept"},
           Quiet'
    PROVE  CommandInv'
<1>0. /\ CommandsTyped /\ Committed /\ (\A q \in Post : Spoken(q)) /\ Known /\ Tallied /\ Limits
      /\ cmd'[p] = c /\ \A q \in Post \ {p} : cmd'[q] = cmd[q]
  BY DEF CommandInv, CommandsTyped
<1>1. Framed(p) /\ CommandsTyped' /\ Committed'
  BY <1>0 DEF Framed, CommandsTyped, Committed
<1>2. \A q \in Post : Spoken(q)'
  <2>1. \A q \in Post \ {p} : Spoken(q)'
    BY <1>0, SpokenStays
  <2>2. Spoken(p)'
    BY <1>0, Nothing DEF Spoken, At, Words, PyuSteps
  <2> QED BY <2>1, <2>2
<1>3. Known' /\ Tallied'
  BY <1>0 DEF Known, View, Tallied, LosersAreBanned, At, PyuSteps
<1>4. ~InPyu(p)'
  BY <1>0 DEF InPyu, At
<1>5. Limits'
  BY <1>0, <1>1, <1>4, OutsideKept DEF Limits
<1> QED BY <1>1, <1>2, <1>3, <1>5 DEF CommandInv

LEMMA StartKeeps ==
    ASSUME ImageInv, CommandInv, NEW p \in Post, (ConstructPost(p) /\ KindOf(p) # "open") \/ ParseBody(p)
    PROVE  CommandInv'
<1>1. PICK th \in BOOLEAN : StartParsing(p, th)
  BY DEF ConstructPost, ParseBody
<1> DEFINE c == [at |-> "parse", i |-> 1, thread |-> th, slut |-> FALSE, results |-> <<>>, n |-> 0]
<1>2. cmd' = [cmd EXCEPT ![p] = c] /\ c \in Command /\ c.at = "parse"
  BY <1>1 DEF StartParsing, Command, Clear
<1> HIDE DEF c
<1>3. /\ UNCHANGED <<row, own, banned, counted, together, there, bound>> /\ Quiet
      /\ CommandsTyped /\ Spoken(p)
  BY DEF ConstructPost, ParseBody, imageVars, CommandInv
<1>4. task[p] \in {"received", "open", "dangling"} /\ PostsTyped
  BY DEF ConstructPost, ParseBody, ImageInv
<1>5. cmd[p].at \in {"idle", "failed"}
  BY <1>3, <1>4 DEF Quiet, At
<1>6. own[p] = <<>> /\ ~InPyu(p)
  BY <1>3, <1>5 DEF Spoken, Clear, InPyu, At
<1>7. Quiet'
  <2>1. \/ task' = [task EXCEPT ![p] = "parsing"] /\ KindOf(p) # "open"
        \/ task' = [task EXCEPT ![p] = "closing"]
        \/ task' = [task EXCEPT ![p] = "sweeping"]
    BY DEF ConstructPost, ParseBody, Move
  <2>2. \A q \in Post \ {p} : task'[q] = task[q] /\ cmd'[q] = cmd[q]
    BY <1>2, <1>3, <1>4, <2>1 DEF PostsTyped, CommandsTyped
  <2>3. task'[p] \in {"closing", "sweeping"} \/ (task'[p] = "parsing" /\ KindOf(p) # "open")
    BY <1>4, <2>1 DEF PostsTyped
  <2> QED BY <1>3, <2>2, <2>3 DEF Quiet, At, KindOf
<1> QED BY <1>2, <1>3, <1>6, <1>7, Restarted

LEMMA CloseKeeps ==
    ASSUME ImageInv, CommandInv, NEW p \in Post, ClosePost(p)
    PROVE  CommandInv'
<1>1. /\ UNCHANGED <<row, own, banned, counted, together, there, bound>> /\ Quiet
      /\ CommandsTyped /\ Spoken(p) /\ At(p, "parsed") /\ PostsTyped
      /\ task' = [task EXCEPT ![p] = "ended"]
  BY DEF ClosePost, imageVars, CommandInv, ImageInv, Move
<1>2. PICK at \in {"closed", "swept"} : cmd' = [cmd EXCEPT ![p].at = at]
  BY DEF ClosePost, Goto
<1> DEFINE c == [cmd[p] EXCEPT !.at = at]
<1>3. cmd[p] \in Command
  BY <1>1, CmdType DEF At
<1>4. c \in Command /\ c.at \in {"closed", "swept"} /\ cmd' = [cmd EXCEPT ![p] = c]
  BY <1>2, <1>3 DEF Command, Clear
<1> HIDE DEF c
<1>5. own[p] = <<>> /\ ~InPyu(p)
  BY <1>1 DEF Spoken, Clear, InPyu, At
<1>6. Quiet'
  <2>1. /\ \A q \in Post \ {p} : task'[q] = task[q] /\ cmd'[q] = cmd[q]
        /\ task'[p] = "ended"
    BY <1>1, <1>4 DEF PostsTyped, CommandsTyped
  <2> QED BY <1>1, <2>1 DEF Quiet, At, KindOf
<1> QED BY <1>1, <1>4, <1>5, <1>6, Restarted

\* The steps of a post while no command of it runs
LEMMA PostKeeps ==
    ASSUME ImageInv, CommandInv, NEW p \in Post,
           \/ Receive(p) \/ (ConstructPost(p) /\ KindOf(p) = "open") \/ Parsed(p) \/ InsertPost(p)
           \/ InsertImage(p) \/ CommitPost(p) \/ Announce(p) \/ Leave(p)
    PROVE  CommandInv'
<1>1. UNCHANGED <<commandVars, bound>>
  BY DEF Receive, ConstructPost, Parsed, InsertPost, InsertImage, CommitPost, Announce, Leave,
     imageVars, commandVars
<1>2. Quiet /\ PostsTyped /\ UNCHANGED cmd
  BY <1>1 DEF CommandInv, ImageInv, commandVars
<1> DEFINE at == task'[p]
           Fits == /\ task' = [task EXCEPT ![p] = at]
                   /\ at \notin {"idle", "parsing"}
                   /\ at = "received" => task[p] = "idle"
                   /\ at = "open" => KindOf(p) = "open" /\ task[p] = "created"
                   /\ at = "dangling" => At(p, "failed")
                   /\ at \in {"construct", "inserted", "complete", "created"} =>
                         \/ task[p] \in {"received", "construct", "inserted", "complete"}
                         \/ task[p] = "parsing" /\ ~At(p, "idle")
<1>3. Fits
  <2>1. CASE Receive(p)
    BY <1>2, <2>1 DEF Receive, Move, End, PostsTyped
  <2>2. CASE ConstructPost(p) /\ KindOf(p) = "open"
    BY <1>2, <2>2 DEF ConstructPost, Move, PostsTyped
  <2>3. CASE Parsed(p)
    BY <1>2, <2>3 DEF Parsed, Move, End, At, PostsTyped
  <2>4. CASE InsertPost(p) \/ InsertImage(p)
    BY <1>2, <2>4 DEF InsertPost, InsertImage, FailTransaction, Move, End, PostsTyped
  <2>5. CASE CommitPost(p)
    BY <1>2, <2>5 DEF CommitPost, Move, PostsTyped
  <2>6. CASE Announce(p)
    BY <1>2, <2>6 DEF Announce, Move, PostsTyped
  <2>7. CASE Leave(p)
    BY <1>2, <2>7 DEF Leave, Move, PostsTyped
  <2> QED BY <2>1, <2>2, <2>3, <2>4, <2>5, <2>6, <2>7
<1>4. \A q \in Post \ {p} : task'[q] = task[q]
  BY <1>2, <1>3 DEF PostsTyped
<1>5. Quiet'
  BY <1>1, <1>2, <1>3, <1>4 DEF Quiet, At, KindOf
<1> QED BY <1>1, <1>5, NothingSaid DEF CommandInv

LEMMA CommandInit == Init => CommandInv
<1> SUFFICES ASSUME Init PROVE CommandInv
  OBVIOUS
<1>1. /\ row = [k \in Column |-> CASE k = "scount" -> Chambers
                                 [] k \in {"pyu", "rcount"} -> 0
                                 [] OTHER -> None]
      /\ own = [p \in Post |-> <<>>] /\ cmd = [p \in Post |-> NoCommand]
      /\ counted = [i \in IP |-> 0] /\ together = {}
      /\ task = [p \in Post |-> "idle"]
  BY DEF Init, CommandsInit
<1>2. \A p \in Post : cmd[p].at = "idle" /\ own[p] = <<>> /\ task[p] = "idle"
  BY <1>1 DEF NoCommand
<1>3. row["scount"] = Chambers /\ row["pyu"] = 0 /\ row["rcount"] = 0 /\ \A i \in IP : row[i] = None
  <2>1. \A i \in IP : i \in Column /\ i \notin {"scount", "pyu", "rcount"}
    BY Columns
  <2> QED BY <1>1, <2>1, Columns
<1>4. Committed
  BY <1>3, ChambersRange DEF Committed
<1>5. CommandsTyped
  <2>1. row \in [Column -> Value \cup {None}]
    <3>1. 0 \in Value /\ Chambers \in Value
      BY ChambersRange DEF Value
    <3>2. \A k \in Column : row[k] \in Value \cup {None}
      BY <1>3, <3>1, Columns
    <3> QED BY <1>1, <3>2
  <2> QED BY <1>1, <2>1, Nothing DEF CommandsTyped
<1>6. \A p \in Post : Spoken(p)
  BY <1>2, Nothing DEF Spoken, At, Words, PyuSteps
<1>7. Known /\ Tallied /\ Quiet
  BY <1>2 DEF Known, Tallied, LosersAreBanned, Quiet, At, PyuSteps
<1>8. Limits
  <2> SUFFICES ASSUME NEW i \in IP PROVE LimitKept(i)
    BY DEF Limits
  <2>1. \A p \in Post : ~InPyu(p)
    BY <1>2 DEF InPyu, At
  <2> QED BY <1>1, <1>3, <2>1 DEF LimitKept, Single, Settled
<1> QED BY <1>4, <1>5, <1>6, <1>7, <1>8 DEF CommandInv

LEMMA CommandStepKeeps == ImageInv /\ CommandInv /\ [Next]_vars => CommandInv'
<1> SUFFICES ASSUME ImageInv, CommandInv, [Next]_vars PROVE CommandInv'
  OBVIOUS
<1>1. CASE UNCHANGED vars
  BY <1>1, Unheard DEF vars, imageVars
<1>2. ASSUME NEW p \in Post, Receive(p) \/ PostStep(p) PROVE CommandInv'
  BY <1>2, PostKeeps, StartKeeps, CloseKeeps DEF PostStep
<1>3. ASSUME NEW p \in Post, CommandStep(p), Alone PROVE CommandInv'
  BY <1>3, CommandKeeps
<1>4. ASSUME NEW u \in Upload, UploadStep(u), Apart PROVE CommandInv'
  BY <1>4, BoundIsKept, Unheard DEF Apart
<1>5. CASE ImagesStep /\ Apart
  BY <1>5, BoundIsKept, Unheard DEF Apart
<1>6. CASE FreePyuLimit /\ Alone
  BY <1>6, ReleaseKeeps
<1>7. CASE DeleteThread
  BY <1>7, DeleteKeeps
<1> QED BY <1>1, <1>2, <1>3, <1>4, <1>5, <1>6, <1>7 DEF Next, Progress, Upkeep

\* Commands.tla: the revolver of a thread is never empty when it is rolled
\* (commands.go:128), whoever has lost is banned and counted once the check of the closed
\* post has ended (post_updates.go:198), and the uses of #pyu of an IP that do not overlap
\* are counted up to the limit, and it is restricted (commands.go:85), in every
\* interleaving of the statements of the commands.
THEOREM CommandsAreKept == Spec => []CommandsHold
<1>1. CommandInv => CommandsHold
  <2> SUFFICES ASSUME CommandInv PROVE CommandsHold
    OBVIOUS
  <2>1. RouletteLoaded
    BY DEF CommandInv, RouletteLoaded, Committed, Spoken, At
  <2>2. LosersAreBanned
    BY DEF CommandInv, Tallied
  <2>3. PyuIsLimited
    <3> SUFFICES ASSUME NEW i \in IP, row[i] # None, i \notin together,
                        \A p \in Post : IPOf[p] = i => ~InPyu(p)
                 PROVE  /\ row[i].count + counted[i] = PyuLimit
                        /\ row[i].restricted <=> row[i].count = 0
      BY DEF PyuIsLimited
    <3>1. Settled(i)
      BY DEF CommandInv, Limits, LimitKept
    <3>2. Even(row[i], counted[i])
      BY <3>1 DEF Settled
    <3> QED BY <3>2 DEF Even
  <2> QED BY <2>1, <2>2, <2>3 DEF CommandsHold
<1>2. Spec => []ImageInv
  BY ImageInit, ImageStep, PTL DEF Spec
<1> QED BY <1>1, <1>2, CommandInit, CommandStepKeeps, PTL DEF Spec
=============================================================================

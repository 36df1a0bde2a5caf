--------------------------- MODULE ThreadFeedProofs ---------------------------
(***************************************************************************)
(* Proofs about ThreadFeed and FeedReplica, for any clients, posts, texts  *)
(* and bounds: first the feed by itself, then what its queues and browsers *)
(* make of it.                                                             *)
(***************************************************************************)
EXTENDS FeedReplica, FiniteSetTheorems, SequenceTheorems,
        WellFoundedInduction, TLAPS

-----------------------------------------------------------------------------
(* What the operators of the loop return.                                  *)

\* The addresses of finitely many subscribers can be counted.
LEMMA TotalType ==
    ASSUME NEW ms \in SUBSET Clients
    PROVE  Total(ms) \in Nat
<1>1. IsFiniteSet(ms)
  BY FS_Subset, ConstantsAssumption
<1> DEFINE f == [c \in ms |-> IP[c]]
           T == {IP[c] : c \in ms}
<1>2. f \in Surjection(ms, T)
  BY DEF Surjection
<1>3. IsFiniteSet(T)
  BY ONLY <1>1, <1>2, FS_Surjection
<1> QED BY <1>3, FS_CardinalityType DEF Total

\* The cache keeps a cachedPost of every row.
LEMMA CachedType ==
    ASSUME NEW r \in PostRow
    PROVE  Cached(r) \in CachedPost
BY DEF Cached, PostRow, CachedPost

\* Two entries are one if their fields are.
LEMMA CachedEqual ==
    ASSUME NEW e \in CachedPost, NEW f \in CachedPost,
           e.HasImage = f.HasImage, e.Spoilered = f.Spoilered,
           e.Closed = f.Closed, e.Time = f.Time, e.Body = f.Body
    PROVE  e = f
BY DEF CachedPost

\* A read of the mirror gives a cachedPost, the zero one for a missing key.
LEMMA EntryType ==
    ASSUME TypeOK, NEW p \in Posts
    PROVE  Entry(p) \in CachedPost
<1>1. ZeroPost \in CachedPost
  BY DEF ZeroPost, CachedPost
<1> QED BY <1>1 DEF TypeOK, Entry

\* A new row is a row.
LEMMA NewRowType ==
    ASSUME TypeOK, NEW r \in NewRows
    PROVE  r \in PostRow
<1>1. Bodies \subseteq Seq(Chars)
  BY SeqDef, ConstantsAssumption DEF Bodies
<1>2. <<"deletePost">> \in Seq(ModActions) /\ << >> \in Seq(ModActions)
  BY DEF ModActions
<1> QED BY <1>1, <1>2 DEF NewRows, PostRow, TypeOK

\* Moderation turns an entry of the mirror into one, and keeps its time.
LEMMA ModeratedEntryType ==
    ASSUME NEW e \in CachedPost, NEW action \in ModActions
    PROVE  /\ ModeratedEntry(e, action) \in CachedPost
           /\ ModeratedEntry(e, action).Time = e.Time
<1>1. CASE action = "deletePost"
  BY <1>1 DEF ModeratedEntry
<1>2. CASE action = "deleteImage"
  BY <1>2 DEF ModeratedEntry, CachedPost
<1>3. CASE action = "spoilerImage"
  BY <1>3 DEF ModeratedEntry, CachedPost
<1>4. CASE action = "purgePost"
  <2>1. ModeratedEntry(e, action) = [e EXCEPT !.Body = << >>, !.HasImage = FALSE,
                                              !.Spoilered = FALSE]
    BY <1>4 DEF ModeratedEntry
  <2>2. << >> \in Seq(Chars)
    OBVIOUS
  <2> QED BY <2>1, <2>2 DEF CachedPost
<1> QED BY <1>1, <1>2, <1>3, <1>4 DEF ModActions

\* It turns a row into one with the action at the end of its log.
LEMMA ModeratedRowType ==
    ASSUME NEW r \in PostRow, NEW action \in ModActions
    PROVE  /\ ModeratedRow(r, action) \in PostRow
           /\ ModeratedRow(r, action).mods = Append(r.mods, action)
           /\ ModeratedRow(r, action).state = r.state
           /\ ModeratedRow(r, action).time = r.time
<1> DEFINE logged == [r EXCEPT !.mods = Append(@, action)]
<1>1. /\ logged \in PostRow
      /\ logged.mods = Append(r.mods, action)
      /\ logged.state = r.state
      /\ logged.time = r.time
  <2>1. Append(r.mods, action) \in Seq(ModActions)
    BY DEF PostRow
  <2> QED BY <2>1 DEF PostRow
<1>2. CASE action = "deletePost"
  BY <1>1, <1>2 DEF ModeratedRow
<1>3. CASE action = "deleteImage"
  BY <1>1, <1>3 DEF ModeratedRow, PostRow
<1>4. CASE action = "spoilerImage"
  BY <1>1, <1>4 DEF ModeratedRow, PostRow
<1>5. CASE action = "purgePost"
  <2> DEFINE body == IF r.state = "closed" THEN << >> ELSE r.body
  <2>1. ModeratedRow(r, action) = [logged EXCEPT !.image = FALSE, !.body = body]
    BY <1>1, <1>5 DEF ModeratedRow
  <2>2. body \in Seq(Chars)
    BY DEF PostRow
  <2> HIDE DEF logged, body
  <2> QED BY <1>1, <2>1, <2>2 DEF PostRow
<1> QED BY <1>2, <1>3, <1>4, <1>5 DEF ModActions

\* Modifying a post keeps the types of what the feed holds.
LEMMA ModifyPostType ==
    ASSUME TypeOK, NEW p \in Posts, NEW entry \in CachedPost,
           NEW msg \in Message, ModifyPost(p, entry, msg)
    PROVE  /\ recent' \in [Posts -> CachedPost \cup {Absent}]
           /\ moderation' \in [Posts -> Seq(ModActions)]
           /\ memoized' \in Snapshot \cup {NoSnapshot}
           /\ buffer' \in Seq(Message)
           /\ ticking' \in BOOLEAN
           /\ lastSyncCount' \in Nat
BY DEF ModifyPost, SetEntry, TypeOK

\* Sending the count does, too.
LEMMA SendIPCountType ==
    ASSUME TypeOK, NEW ms \in SUBSET Clients, NEW b \in Seq(Message),
           NEW t \in BOOLEAN, SendIPCount(ms, b, t)
    PROVE  /\ buffer' \in Seq(Message)
           /\ ticking' \in BOOLEAN
           /\ lastSyncCount' \in Nat
<1>1. [type |-> "syncCount"] \in Message
  BY DEF Message
<1>2. Append(b, [type |-> "syncCount"]) \in Seq(Message)
  BY <1>1
<1> QED BY <1>2, TotalType DEF SendIPCount

-----------------------------------------------------------------------------
(* What the browser's handlers return.                                     *)

Models == [Posts -> Model \cup {Absent}]
Acc == [v : Models, thrown : BOOLEAN]

\* A message has what its type calls for.
LEMMA MessageParts ==
    ASSUME NEW m \in Message
    PROVE  /\ m.type \in {"append", "backspace", "closePost", "spoiler", "splice",
                          "insertPost", "insertImage", "moderatePost", "syncCount"}
           /\ m.type # "syncCount" => m.id \in Posts
           /\ m.type = "append" => m.char \in Chars
           /\ m.type = "splice" => /\ m.start \in Nat /\ m.len \in Nat
                                   /\ m.text \in Seq(Chars)
           /\ m.type = "insertPost" => /\ m.post \in CachedPost
                                       /\ m.mods \in Seq(ModActions)
           /\ m.type = "insertImage" => m.spoilered \in BOOLEAN
           /\ m.type = "moderatePost" => m.entry \in ModActions
BY DEF Message

\* The lesser of two numbers
LEMMA MinOfTwo ==
    ASSUME NEW m \in Nat, NEW n \in Nat
    PROVE  Min({m, n}) = IF m <= n THEN m ELSE n
<1> DEFINE k == IF m <= n THEN m ELSE n
<1>1. k \in {m, n} /\ \A y \in {m, n} : k <= y
  OBVIOUS
<1>2. \A x \in {m, n} : (\A y \in {m, n} : x <= y) => x = k
  OBVIOUS
<1> HIDE DEF k
<1>3. Min({m, n}) = k
  BY <1>1, <1>2 DEF Min
<1> QED BY <1>3 DEF k

\* What splice takes of a text is text.
LEMMA BeforeType ==
    ASSUME NEW body \in Seq(Chars), NEW n \in Nat
    PROVE  Before(body, n) \in Seq(Chars) /\ After(body, n) \in Seq(Chars)
<1>1. Len(body) \in Nat
  OBVIOUS
<1>2. Min({n, Len(body)}) \in 0..Len(body)
  BY <1>1, MinOfTwo
<1>3. SubSeq(body, 1, Min({n, Len(body)})) \in Seq(Chars)
  <2> DEFINE k == Min({n, Len(body)})
  <2>1. k \in Nat /\ k <= Len(body)
    BY <1>1, <1>2
  <2> HIDE DEF k
  <2>2. SubSeq(body, 1, k) \in Seq(Chars)
    BY <1>1, <2>1, SubSeqProperties
  <2> QED BY <2>2 DEF k
<1>4. SubSeq(body, n + 1, Len(body)) \in Seq(Chars)
  BY <1>1, SubSeqProperties
<1> QED BY <1>3, <1>4 DEF Before, After

LEMMA SplicedType ==
    ASSUME NEW body \in Seq(Chars), NEW m \in Message, m.type = "splice"
    PROVE  Spliced(body, m) \in Seq(Chars)
<1>1. m.start \in Nat /\ m.len \in Nat /\ m.text \in Seq(Chars)
  BY MessageParts
<1>2. m.start + m.len \in Nat
  BY <1>1
<1>3. Before(body, m.start) \in Seq(Chars) /\ After(body, m.start + m.len) \in Seq(Chars)
  BY <1>1, <1>2, BeforeType
<1> QED BY <1>1, <1>3 DEF Spliced

\* Moderation turns a model into one, and a log grows by the action.
LEMMA ModeratedType ==
    ASSUME NEW model \in Model, NEW action \in ModActions
    PROVE  /\ Moderated(model, action) \in Model
           /\ Moderated(model, action).mods = Append(model.mods, action)
           /\ Moderated(model, action).editing = model.editing
           /\ action # "purgePost" => Moderated(model, action).body = model.body
<1> DEFINE logged == [model EXCEPT !.mods = Append(@, action)]
<1>1. /\ logged \in Model
      /\ logged.mods = Append(model.mods, action)
      /\ logged.editing = model.editing
      /\ logged.body = model.body
  <2>1. Append(model.mods, action) \in Seq(ModActions)
    BY DEF Model
  <2> QED BY <2>1 DEF Model
<1>2. CASE action = "deletePost"
  BY <1>1, <1>2 DEF Moderated
<1>3. CASE action = "deleteImage"
  <2>1. Moderated(model, action) = [logged EXCEPT !.image = FALSE, !.spoiler = FALSE]
    BY <1>3 DEF Moderated
  <2> HIDE DEF logged
  <2> QED BY <1>1, <1>3, <2>1 DEF Model
<1>4. CASE action = "spoilerImage"
  <2>1. Moderated(model, action) = [logged EXCEPT !.spoiler = logged.image]
    BY <1>4 DEF Moderated
  <2> HIDE DEF logged
  <2> QED BY <1>1, <1>4, <2>1 DEF Model
<1>5. CASE action = "purgePost"
  <2>1. Moderated(model, action) = [logged EXCEPT !.image = FALSE, !.spoiler = FALSE,
                                                  !.body = << >>]
    BY <1>5 DEF Moderated
  <2>2. << >> \in Seq(Chars)
    OBVIOUS
  <2> HIDE DEF logged
  <2> QED BY <1>1, <1>5, <2>1, <2>2 DEF Model
<1> QED BY <1>2, <1>3, <1>4, <1>5 DEF ModActions

\* A message turns the model of its post into a model.
LEMMA UpdatedType ==
    ASSUME NEW model \in Model, NEW m \in Message, m.type \notin {"syncCount", "insertPost"}
    PROVE  Updated(model, m) \in Model
<1>0. model.body \in Seq(Chars)
  BY DEF Model
<1>1. CASE m.type = "append"
  <2>1. Append(model.body, m.char) \in Seq(Chars)
    BY <1>0, <1>1, MessageParts
  <2>2. Updated(model, m) = [model EXCEPT !.body = Append(model.body, m.char)]
    BY <1>1 DEF Updated
  <2> QED BY <2>1, <2>2 DEF Model
<1>2. CASE m.type = "backspace"
  <2>1. SubSeq(model.body, 1, Len(model.body) - 1) \in Seq(Chars)
    <3>1. Len(model.body) \in Nat
      BY <1>0
    <3>2. CASE model.body = << >>
      <4>1. Len(model.body) - 1 = -1
        BY <3>2
      <4> QED BY <1>0, <4>1, SubSeqProperties
    <3>3. CASE model.body # << >>
      <4>1. Len(model.body) - 1 \in Nat
        BY <1>0, <3>3, EmptySeq
      <4> QED BY <1>0, <4>1, SubSeqProperties
    <3> QED BY <3>2, <3>3
  <2>2. Updated(model, m) = [model EXCEPT !.body = SubSeq(model.body, 1, Len(model.body) - 1)]
    BY <1>2 DEF Updated
  <2> QED BY <2>1, <2>2 DEF Model
<1>3. CASE m.type = "splice"
  <2>1. Spliced(model.body, m) \in Seq(Chars)
    BY <1>0, <1>3, SplicedType
  <2>2. Updated(model, m) = [model EXCEPT !.body = Spliced(model.body, m)]
    BY <1>3 DEF Updated
  <2> QED BY <2>1, <2>2 DEF Model
<1>4. CASE m.type = "closePost"
  <2>1. Updated(model, m) = [model EXCEPT !.editing = FALSE]
    BY <1>4 DEF Updated
  <2> QED BY <2>1 DEF Model
<1>5. CASE m.type = "insertImage"
  <2>1. Updated(model, m) = [model EXCEPT !.image = TRUE, !.spoiler = m.spoilered]
    BY <1>5 DEF Updated
  <2>2. m.spoilered \in BOOLEAN
    BY <1>5, MessageParts
  <2> QED BY <2>1, <2>2 DEF Model
<1>6. CASE m.type = "spoiler"
  <2>1. Updated(model, m) = [model EXCEPT !.spoiler = TRUE]
    BY <1>6 DEF Updated
  <2> QED BY <2>1 DEF Model
<1>7. CASE m.type = "moderatePost"
  <2>1. Updated(model, m) = Moderated(model, m.entry)
    BY <1>7 DEF Updated
  <2>2. m.entry \in ModActions
    BY <1>7, MessageParts
  <2> QED BY <2>1, <2>2, ModeratedType
<1>8. m.type \in {"append", "backspace", "splice", "closePost", "insertImage", "spoiler",
                  "moderatePost"}
  BY MessageParts
<1> QED BY <1>1, <1>2, <1>3, <1>4, <1>5, <1>6, <1>7, <1>8

\* What the snapshot, the feed and the database have of a post is a model.
LEMMA FromType ==
    /\ \A r \in PostRow : FromRow(r) \in Model
    /\ \A m \in Message : m.type = "insertPost" => FromMessage(m) \in Model
<1>1. ASSUME NEW r \in PostRow PROVE FromRow(r) \in Model
  BY DEF FromRow, PostRow, Model
<1>2. ASSUME NEW m \in Message, m.type = "insertPost" PROVE FromMessage(m) \in Model
  <2>1. m.post \in CachedPost /\ m.mods \in Seq(ModActions)
    BY <1>2, MessageParts
  <2> QED BY <2>1 DEF FromMessage, CachedPost, Model
<1> QED BY <1>1, <1>2

LEMMA HandledType ==
    ASSUME NEW v \in Models, NEW m \in Message
    PROVE  /\ Handled(v, m) \in Models
           /\ \A p \in Posts : m.type = "syncCount" \/ m.id # p => Handled(v, m)[p] = v[p]
<1>1. CASE m.type = "syncCount"
  BY <1>1 DEF Handled
<1>2. CASE m.type = "insertPost"
  <2>1. m.id \in Posts /\ FromMessage(m) \in Model
    BY <1>2, MessageParts, FromType
  <2>2. Handled(v, m) = IF v[m.id] = Absent THEN [v EXCEPT ![m.id] = FromMessage(m)] ELSE v
    BY <1>2 DEF Handled
  <2> QED BY <1>2, <2>1, <2>2 DEF Models
<1>3. CASE m.type \notin {"syncCount", "insertPost"}
  <2>1. m.id \in Posts
    BY <1>3, MessageParts
  <2>2. Handled(v, m) = IF v[m.id] = Absent THEN v
                        ELSE [v EXCEPT ![m.id] = Updated(v[m.id], m)]
    BY <1>3 DEF Handled
  <2>3. v[m.id] # Absent => Updated(v[m.id], m) \in Model
    BY <1>3, <2>1, UpdatedType DEF Models
  <2> QED BY <1>3, <2>1, <2>2, <2>3 DEF Models
<1> QED BY <1>1, <1>2, <1>3

LEMMA TakenType ==
    ASSUME NEW acc \in Acc, NEW m \in Message
    PROVE  Taken(acc, m) \in Acc
<1>1. Handled(acc.v, m) \in Models
  BY HandledType DEF Acc
<1> QED BY <1>1 DEF Acc, Taken

-----------------------------------------------------------------------------
(* Type correctness.                                                       *)

\* What a change of a post leaves to be shown: it concerns neither the loop
\* nor its subscribers nor the clock, and keeps the types of the rest.
ChangeTypeOK ==
    /\ recent' \in [Posts -> CachedPost \cup {Absent}]
    /\ moderation' \in [Posts -> Seq(ModActions)]
    /\ memoized' \in Snapshot \cup {NoSnapshot}
    /\ buffer' \in Seq(Message)
    /\ ticking' \in BOOLEAN
    /\ lastSyncCount' \in Nat
    /\ post' \in [Posts -> PostRow]

\* An edit of a body, whatever the message about it.
LEMMA SetOpenBodyType ==
    ASSUME TypeOK, NEW p \in Posts, NEW body \in Seq(Chars),
           NEW msg \in Message, SetOpenBody(p, body, msg)
    PROVE  ChangeTypeOK
<1> DEFINE entry == [Entry(p) EXCEPT !.Body = body]
<1>1. entry \in CachedPost
  BY EntryType DEF CachedPost
<1>2. ModifyPost(p, entry, msg)
  BY DEF SetOpenBody
<1>3. post' \in [Posts -> PostRow]
  BY DEF SetOpenBody, TypeOK, PostRow
<1> HIDE DEF entry
<1> QED BY <1>1, <1>2, <1>3, ModifyPostType DEF ChangeTypeOK

\* A browser that has the body of p is told of the new one by the message.
Tells(p, body, msg) ==
    /\ msg.type \in {"append", "backspace", "splice"} /\ msg.id = p
    /\ \A model \in Model : model.body = post[p].body
         => Updated(model, msg).body = body /\ Updated(model, msg).editing = model.editing

\* The three edits of an open body: each sets it to some text and sends a
\* message that tells of it.
EditBody(p) ==
    \/ \E ch \in Chars : AppendRune(p, ch)
    \/ Backspace(p)
    \/ \E start, len \in 0..MaxLenBody, text \in Texts :
         SpliceText(p, start, len, text)

LEMMA EditBodyType ==
    ASSUME TypeOK, NEW p \in Posts, EditBody(p)
    PROVE  \E body \in Seq(Chars), msg \in Message :
             SetOpenBody(p, body, msg) /\ Tells(p, body, msg)
<1> DEFINE SetsBody == \E body \in Seq(Chars), msg \in Message :
                         SetOpenBody(p, body, msg) /\ Tells(p, body, msg)
<1>1. ASSUME NEW ch \in Chars, AppendRune(p, ch)
      PROVE  SetsBody
  <2> DEFINE msg == [type |-> "append", id |-> p, char |-> ch]
             body == Append(post[p].body, ch)
  <2>1. msg \in Message
    BY DEF Message
  <2>2. body \in Seq(Chars)
    BY DEF TypeOK, PostRow
  <2>3. SetOpenBody(p, body, msg)
    BY <1>1 DEF AppendRune
  <2>4. Tells(p, body, msg)
    <3>1. \A model \in Model : Updated(model, msg) = [model EXCEPT !.body = Append(model.body, ch)]
      BY DEF Updated
    <3> QED BY <3>1 DEF Tells, Model
  <2> HIDE DEF msg, body
  <2> QED BY <2>1, <2>2, <2>3, <2>4
<1>2. CASE Backspace(p)
  <2> DEFINE msg == [type |-> "backspace", id |-> p]
             body == SubSeq(post[p].body, 1, Len(post[p].body) - 1)
  <2>1. msg \in Message
    BY DEF Message
  <2>2. body \in Seq(Chars)
    BY DEF TypeOK, PostRow
  <2>3. SetOpenBody(p, body, msg)
    BY <1>2 DEF Backspace
  <2>4. Tells(p, body, msg)
    <3>1. \A model \in Model : Updated(model, msg) =
            [model EXCEPT !.body = SubSeq(model.body, 1, Len(model.body) - 1)]
      BY DEF Updated
    <3> QED BY <3>1 DEF Tells, Model
  <2> HIDE DEF msg, body
  <2> QED BY <2>1, <2>2, <2>3, <2>4
<1>3. ASSUME NEW start \in 0..MaxLenBody, NEW len \in 0..MaxLenBody,
             NEW text \in Texts, SpliceText(p, start, len, text)
      PROVE  SetsBody
  <2> DEFINE old == post[p].body
             end == text \o SubSeq(old, start + len + 1, Len(old))
             fits == start + Len(end) <= MaxLenBody
             kept == IF fits THEN end ELSE SubSeq(end, 1, MaxLenBody - start)
             msg == [type |-> "splice", id |-> p, start |-> start,
                     len |-> IF fits THEN len ELSE Len(old) - start,
                     text |-> IF fits THEN text ELSE kept]
  <2>1. old \in Seq(Chars)
    BY DEF TypeOK, PostRow
  <2>2. text \in Seq(Chars)
    <3>1. CASE text = << >>
      BY <3>1
    <3>2. ASSUME NEW ch \in Chars, text = <<ch>>
          PROVE  text \in Seq(Chars)
      BY <3>2
    <3> QED BY <3>1, <3>2 DEF Texts
  <2>3. start + len <= Len(old) /\ SetOpenBody(p, SubSeq(old, 1, start) \o kept, msg)
    BY <1>3 DEF SpliceText
  <2> HIDE DEF old, msg
  <2>4. end \in Seq(Chars)
    <3>1. SubSeq(old, start + len + 1, Len(old)) \in Seq(Chars)
      BY <2>1
    <3> QED BY <2>2, <3>1
  <2> HIDE DEF end
  <2>5. kept \in Seq(Chars)
    <3>1. CASE fits
      BY <2>4, <3>1
    <3>2. CASE ~fits
      <4>1. MaxLenBody - start \in 0..Len(end)
        BY <2>4, <3>2, ConstantsAssumption
      <4>2. SubSeq(end, 1, MaxLenBody - start) \in Seq(Chars)
        BY <2>4, <4>1
      <4> QED BY <3>2, <4>2
    <3> QED BY <3>1, <3>2
  <2>6. SubSeq(old, 1, start) \o kept \in Seq(Chars)
    <3> HIDE DEF kept
    <3>1. SubSeq(old, 1, start) \in Seq(Chars)
      BY <2>1, <2>3
    <3> QED BY <2>5, <3>1
  <2>7. msg \in Message
    <3> HIDE DEF kept, fits
    <3> QED BY <2>1, <2>2, <2>3, <2>5 DEF msg, Message
  <2>8. Spliced(old, msg) = SubSeq(old, 1, start) \o kept
    <3>1. /\ msg.start = start
          /\ msg.len = IF fits THEN len ELSE Len(old) - start
          /\ msg.text = IF fits THEN text ELSE kept
      BY DEF msg
    <3>2. Before(old, start) = SubSeq(old, 1, start)
      <4>1. Len(old) \in Nat /\ start \in Nat /\ start <= Len(old)
        BY <2>1, <2>3
      <4>2. Min({start, Len(old)}) = start
        BY <4>1, MinOfTwo
      <4> QED BY <4>2 DEF Before
    <3>3. SubSeq(old, 1, start) \in Seq(Chars)
      BY <2>1, <2>3
    <3>4. CASE fits
      <4> DEFINE head == SubSeq(old, 1, start)
                 tail == SubSeq(old, start + len + 1, Len(old))
      <4>1. After(old, start + len) = tail
        BY DEF After
      <4>2. head \in Seq(Chars) /\ tail \in Seq(Chars)
        BY <2>1, <3>3
      <4>3. Spliced(old, msg) = (head \o text) \o tail
        BY <3>1, <3>2, <3>4, <4>1 DEF Spliced
      <4>4. kept = text \o tail
        BY <3>4 DEF end
      <4> HIDE DEF kept, fits, head, tail
      <4>5. (head \o text) \o tail = head \o (text \o tail)
        BY <2>2, <4>2, ConcatAssociative
      <4>6. Spliced(old, msg) = head \o kept
        BY <4>3, <4>4, <4>5
      <4> QED BY <4>6 DEF head
    <3>5. CASE ~fits
      <4>1. After(old, start + (Len(old) - start)) = << >>
        <5>1. Len(old) \in Nat /\ start + (Len(old) - start) = Len(old)
          BY <2>1
        <5>2. SubSeq(old, Len(old) + 1, Len(old)) = << >>
          BY <5>1, SubSeqEmpty
        <5> QED BY <5>1, <5>2 DEF After
      <4> HIDE DEF kept
      <4>2. Spliced(old, msg) = (SubSeq(old, 1, start) \o kept) \o << >>
        BY <3>1, <3>2, <3>5, <4>1 DEF Spliced
      <4> QED BY <2>6, <4>2, ConcatEmptySeq
    <3> QED BY <3>4, <3>5
  <2>9. Tells(p, SubSeq(old, 1, start) \o kept, msg)
    <3>1. msg.type = "splice" /\ msg.id = p
      BY DEF msg
    <3>2. \A model \in Model :
            Updated(model, msg) = [model EXCEPT !.body = Spliced(model.body, msg)]
      BY <3>1 DEF Updated
    <3> HIDE DEF kept
    <3> QED BY <2>8, <3>1, <3>2 DEF Tells, Model, old
  <2> HIDE DEF kept
  <2> QED BY <2>3, <2>6, <2>7, <2>9
<1> QED BY <1>1, <1>2, <1>3 DEF EditBody

\* Every change of a post keeps the types.
LEMMA ChangePostType ==
    ASSUME TypeOK, NEW p \in Posts, ChangePost(p)
    PROVE  ChangeTypeOK
<1>1. ASSUME NEW row \in NewRows, InsertPost(p, row)
      PROVE  ChangeTypeOK
  <2>1. row \in PostRow /\ Cached(row) \in CachedPost
    BY NewRowType, CachedType
  <2>2. post' \in [Posts -> PostRow]
    BY <1>1, <2>1 DEF InsertPost, TypeOK
  <2>3. CASE running
    <3> DEFINE msg == [type |-> "insertPost", id |-> p, post |-> Cached(row),
                       mods |-> row.mods]
    <3>1. msg \in Message
      BY <2>1 DEF Message, PostRow
    <3>2. /\ SetEntry(p, Cached(row))
          /\ moderation' = IF row.mods = << >> THEN moderation
                           ELSE [moderation EXCEPT ![p] = row.mods]
          /\ SendIPCount(members, Append(buffer, msg), TRUE)
      BY <1>1, <2>3 DEF InsertPost, IfRunning
    <3>3. Append(buffer, msg) \in Seq(Message)
      BY <3>1 DEF TypeOK
    <3> HIDE DEF msg
    <3>4. /\ buffer' \in Seq(Message)
          /\ ticking' \in BOOLEAN
          /\ lastSyncCount' \in Nat
      BY <3>2, <3>3, SendIPCountType DEF TypeOK
    <3>5. row.mods \in Seq(ModActions)
      BY <2>1 DEF PostRow
    <3> QED BY <2>1, <2>2, <3>2, <3>4, <3>5
            DEF ChangeTypeOK, SetEntry, TypeOK
  <2>4. CASE ~running
    BY <1>1, <2>2, <2>4 DEF InsertPost, IfRunning, ChangeTypeOK, TypeOK
  <2> QED BY <2>3, <2>4
<1>2. CASE Reclaim(p)
  <2>1. post[p] \in PostRow
    BY DEF TypeOK
  <2>2. Cached(post[p]) \in CachedPost /\ post[p].mods \in Seq(ModActions)
    BY <2>1, CachedType DEF PostRow
  <2>3. /\ buffer' \in Seq(Message)
        /\ ticking' \in BOOLEAN
        /\ lastSyncCount' \in Nat
    BY <1>2, SendIPCountType DEF Reclaim, TypeOK
  <2> QED BY <1>2, <2>2, <2>3 DEF Reclaim, SetEntry, ChangeTypeOK, TypeOK
<1>3. CASE EditBody(p)
  BY <1>3, EditBodyType, SetOpenBodyType
<1>6. ASSUME NEW spoiler \in BOOLEAN, InsertImage(p, spoiler)
      PROVE  ChangeTypeOK
  <2> DEFINE msg == [type |-> "insertImage", id |-> p, spoilered |-> spoiler]
             entry == [Entry(p) EXCEPT !.HasImage = TRUE, !.Spoilered = spoiler]
  <2>1. msg \in Message
    BY DEF Message
  <2>2. entry \in CachedPost
    BY EntryType DEF CachedPost
  <2>3. ModifyPost(p, entry, msg)
    BY <1>6 DEF InsertImage
  <2>4. post' \in [Posts -> PostRow]
    <3>1. [post[p] EXCEPT !.image = TRUE, !.spoiler = spoiler] \in PostRow
      BY DEF TypeOK, PostRow
    <3>2. post' = [post EXCEPT ![p] = [post[p] EXCEPT !.image = TRUE, !.spoiler = spoiler]]
      BY <1>6 DEF InsertImage, TypeOK, PostRow
    <3> QED BY <3>1, <3>2 DEF TypeOK
  <2> HIDE DEF msg, entry
  <2> QED BY <2>1, <2>2, <2>3, <2>4, ModifyPostType DEF ChangeTypeOK
<1>7. CASE SpoilerImage(p)
  <2> DEFINE msg == [type |-> "spoiler", id |-> p]
             entry == [Entry(p) EXCEPT !.Spoilered = TRUE]
  <2>1. msg \in Message
    BY DEF Message
  <2>2. entry \in CachedPost
    BY EntryType DEF CachedPost
  <2>3. ModifyPost(p, entry, msg)
    BY <1>7 DEF SpoilerImage
  <2>4. post' \in [Posts -> PostRow]
    BY <1>7 DEF SpoilerImage, TypeOK, PostRow
  <2> HIDE DEF msg, entry
  <2> QED BY <2>1, <2>2, <2>3, <2>4, ModifyPostType DEF ChangeTypeOK
<1>8. CASE ClosePost(p)
  <2> DEFINE msg == [type |-> "closePost", id |-> p]
             entry == [Entry(p) EXCEPT !.Closed = TRUE]
  <2>1. msg \in Message
    BY DEF Message
  <2>2. entry \in CachedPost
    BY EntryType DEF CachedPost
  <2>3. post' \in [Posts -> PostRow]
    BY <1>8 DEF ClosePost, TypeOK, PostRow
  <2>4. CASE running
    <3>1. ModifyPost(p, entry, msg)
      BY <1>8, <2>4 DEF ClosePost, IfRunning
    <3> HIDE DEF msg, entry
    <3> QED BY <2>1, <2>2, <2>3, <3>1, ModifyPostType DEF ChangeTypeOK
  <2>5. CASE ~running
    BY <1>8, <2>3, <2>5 DEF ClosePost, IfRunning, ChangeTypeOK, TypeOK
  <2> QED BY <2>4, <2>5
<1>9. ASSUME NEW action \in ModActions, ModeratePost(p, action)
      PROVE  ChangeTypeOK
  <2> DEFINE msg == [type |-> "moderatePost", id |-> p, entry |-> action]
             entry == ModeratedEntry(Entry(p), action)
             row == ModeratedRow(post[p], action)
  <2>1. msg \in Message
    BY DEF Message
  <2>2. entry \in CachedPost
    BY EntryType, ModeratedEntryType
  <2>3. row \in PostRow
    BY ModeratedRowType DEF TypeOK
  <2>4. post' \in [Posts -> PostRow]
    BY <1>9, <2>3 DEF ModeratePost, TypeOK
  <2>5. Append(buffer, msg) \in Seq(Message)
    BY <2>1 DEF TypeOK
  <2>6. CASE running
    <3>1. /\ SetEntry(p, entry)
          /\ moderation' = [moderation EXCEPT ![p] = Append(@, action)]
          /\ buffer' = Append(buffer, msg)
          /\ ticking' = TRUE
          /\ UNCHANGED lastSyncCount
      BY <1>9, <2>6 DEF ModeratePost, IfRunning
    <3> HIDE DEF msg, entry, row
    <3>2. moderation' \in [Posts -> Seq(ModActions)]
      BY <3>1 DEF TypeOK
    <3> QED BY <2>2, <2>4, <2>5, <3>1, <3>2 DEF SetEntry, ChangeTypeOK, TypeOK
  <2>7. CASE ~running
    BY <1>9, <2>4, <2>7 DEF ModeratePost, IfRunning, ChangeTypeOK, TypeOK
  <2> QED BY <2>6, <2>7
<1> QED BY ConstantsAssumption, <1>1, <1>2, <1>3, <1>6, <1>7, <1>8, <1>9
        DEF ChangePost, EditBody

\* What every change of a post does to the feed: it neither starts nor ends the
\* loop, wakes the ticker if it buffers, counts the subscribers if it counts,
\* and forgets the memoized snapshot if it touches the mirror.
ChangeFrame ==
    /\ UNCHANGED <<running, members, now>>
    /\ ticking' = TRUE \/ UNCHANGED <<buffer, ticking>>
    /\ lastSyncCount' = Total(members) \/ UNCHANGED lastSyncCount
    /\ memoized' = NoSnapshot \/ UNCHANGED <<recent, moderation, memoized>>
    /\ running \/ UNCHANGED memoized

LEMMA ChangePostFrame ==
    ASSUME NEW p \in Posts, ChangePost(p)
    PROVE  ChangeFrame
<1>1. ASSUME NEW row \in NewRows, InsertPost(p, row)
      PROVE  ChangeFrame
  BY <1>1 DEF ChangeFrame, InsertPost, IfRunning, SetEntry, SendIPCount
<1>2. CASE Reclaim(p)
  BY <1>2 DEF ChangeFrame, Reclaim, SetEntry, SendIPCount
<1>3. ASSUME NEW body, NEW msg, SetOpenBody(p, body, msg)
      PROVE  ChangeFrame
  BY <1>3 DEF ChangeFrame, SetOpenBody, ModifyPost, SetEntry
<1>4. CASE EditBody(p)
  <2>1. ASSUME NEW ch \in Chars, AppendRune(p, ch)
        PROVE  ChangeFrame
    BY <1>3, <2>1 DEF AppendRune
  <2>2. CASE Backspace(p)
    BY <1>3, <2>2 DEF Backspace
  <2>3. ASSUME NEW start \in 0..MaxLenBody, NEW len \in 0..MaxLenBody,
               NEW text \in Texts, SpliceText(p, start, len, text)
        PROVE  ChangeFrame
    BY <1>3, <2>3 DEF SpliceText
  <2> QED BY <1>4, <2>1, <2>2, <2>3 DEF EditBody
<1>7. ASSUME NEW spoiler \in BOOLEAN, InsertImage(p, spoiler)
      PROVE  ChangeFrame
  BY <1>7 DEF ChangeFrame, InsertImage, ModifyPost, SetEntry
<1>8. CASE SpoilerImage(p)
  BY <1>8 DEF ChangeFrame, SpoilerImage, ModifyPost, SetEntry
<1>9. CASE ClosePost(p)
  BY <1>9 DEF ChangeFrame, ClosePost, IfRunning, ModifyPost, SetEntry
<1>10. ASSUME NEW action \in ModActions, ModeratePost(p, action)
       PROVE  ChangeFrame
  BY <1>10 DEF ChangeFrame, ModeratePost, IfRunning, SetEntry
<1> QED BY ConstantsAssumption, <1>1, <1>2, <1>4, <1>7, <1>8, <1>9, <1>10
        DEF ChangePost, EditBody

\* A snapshot of what the feed loads is one.
LEMMA LoadType ==
    ASSUME TypeOK
    PROVE  /\ LoadRecent \in [Posts -> CachedPost \cup {Absent}]
           /\ LoadModeration \in [Posts -> Seq(ModActions)]
<1>1. ASSUME NEW p \in Posts
      PROVE  /\ Cached(post[p]) \in CachedPost
             /\ post[p].mods \in Seq(ModActions)
  <2>1. post[p] \in PostRow
    BY DEF TypeOK
  <2> QED BY <2>1, CachedType DEF PostRow
<1>2. LoadRecent \in [Posts -> CachedPost \cup {Absent}]
  BY <1>1 DEF LoadRecent
<1>3. LoadModeration \in [Posts -> Seq(ModActions)]
  BY <1>1 DEF LoadModeration
<1> QED BY <1>2, <1>3

LEMMA TypeInit == Init => TypeOK
<1> SUFFICES ASSUME Init PROVE TypeOK
  OBVIOUS
<1> DEFINE op == [NoRow EXCEPT !.state = "closed", !.image = ~TextOnly,
                               !.time = Retention + 1]
<1>1. NoRow \in PostRow
  BY DEF NoRow, PostRow
<1>2. op \in PostRow
  <2>1. (~TextOnly) \in BOOLEAN
    OBVIOUS
  <2>2. Retention + 1 \in Nat
    BY ConstantsAssumption
  <2>3. \A image \in BOOLEAN : \A time \in Nat :
          [NoRow EXCEPT !.state = "closed", !.image = image, !.time = time]
            \in PostRow
    BY <1>1 DEF PostRow
  <2> QED BY <2>1, <2>2, <2>3
<1>3. post \in [Posts -> PostRow]
  <2>1. post = [p \in Posts |-> IF p = OP THEN op ELSE NoRow]
    BY DEF Init
  <2> HIDE DEF op
  <2> QED BY <1>1, <1>2, <2>1
<1>4. /\ running \in BOOLEAN
      /\ members \subseteq Clients
      /\ memoized \in Snapshot \cup {NoSnapshot}
      /\ ticking \in BOOLEAN
      /\ lastSyncCount \in Nat
  BY DEF Init
<1>5. /\ recent \in [Posts -> CachedPost \cup {Absent}]
      /\ moderation \in [Posts -> Seq(ModActions)]
      /\ buffer \in Seq(Message)
  BY DEF Init
<1>6. now \in Nat
  BY ConstantsAssumption DEF Init
<1> QED BY <1>3, <1>4, <1>5, <1>6 DEF TypeOK

LEMMA TypeStep == TypeOK /\ [Next]_vars => TypeOK'
<1> SUFFICES ASSUME TypeOK, [Next]_vars PROVE TypeOK'
  OBVIOUS
<1>1. ASSUME NEW c \in Clients, AddToFeed(c)
      PROVE  TypeOK'
  <2>1. members' \in SUBSET Clients /\ running' \in BOOLEAN
    BY <1>1 DEF AddToFeed, TypeOK
  <2>2. /\ recent' \in [Posts -> CachedPost \cup {Absent}]
        /\ moderation' \in [Posts -> Seq(ModActions)]
    BY <1>1, LoadType DEF AddToFeed, TypeOK
  <2>3. memoized' \in Snapshot \cup {NoSnapshot}
    BY <1>1, <2>2 DEF AddToFeed, State, Snapshot, TypeOK
  <2>4. /\ buffer' \in Seq(Message)
        /\ ticking' \in BOOLEAN
        /\ lastSyncCount' \in Nat
    BY <1>1, <2>1, SendIPCountType DEF AddToFeed, TypeOK
  <2> QED BY <1>1, <2>1, <2>2, <2>3, <2>4 DEF AddToFeed, TypeOK
<1>2. ASSUME NEW c \in Clients, RemoveFromFeed(c)
      PROVE  TypeOK'
  <2>1. members' \in SUBSET Clients
    BY <1>2 DEF RemoveFromFeed, TypeOK
  <2>2. CASE LoopExits(members')
    <3>1. ResetFeed /\ running' = FALSE
      BY <1>2, <2>2 DEF RemoveFromFeed
    <3>2. /\ << >> \in Seq(ModActions)
          /\ << >> \in Seq(Message)
      OBVIOUS
    <3>4. /\ recent' \in [Posts -> CachedPost \cup {Absent}]
          /\ moderation' \in [Posts -> Seq(ModActions)]
      BY <3>1, <3>2 DEF ResetFeed
    <3>5. /\ buffer' \in Seq(Message)
          /\ memoized' \in Snapshot \cup {NoSnapshot}
      BY <3>1, <3>2 DEF ResetFeed
    <3>6. ticking' \in BOOLEAN /\ lastSyncCount' \in Nat
      BY <3>1 DEF ResetFeed
    <3>3. UNCHANGED <<now, post>>
      BY <1>2 DEF RemoveFromFeed
    <3> QED BY <2>1, <3>1, <3>3, <3>4, <3>5, <3>6 DEF TypeOK
  <2>3. CASE ~LoopExits(members')
    <3>1. /\ buffer' \in Seq(Message)
          /\ ticking' \in BOOLEAN
          /\ lastSyncCount' \in Nat
      BY <1>2, <2>1, <2>3, SendIPCountType DEF RemoveFromFeed, TypeOK
    <3> QED BY <1>2, <2>1, <2>3, <3>1 DEF RemoveFromFeed, TypeOK
  <2> QED BY <2>2, <2>3
<1>3. CASE Flush
  BY <1>3 DEF Flush, TypeOK
<1>4. CASE Evict
  BY <1>4 DEF Evict, TypeOK
<1>5. CASE Clock
  BY <1>5 DEF Clock, TypeOK
<1>6. ASSUME NEW p \in Posts, ChangePost(p)
      PROVE  TypeOK'
  <2>1. ChangeTypeOK /\ ChangeFrame
    BY <1>6, ChangePostFrame, ChangePostType
  <2> QED BY <2>1 DEF ChangeTypeOK, ChangeFrame, TypeOK
<1>7. CASE UNCHANGED vars
  BY <1>7 DEF vars, TypeOK
<1> QED BY <1>1, <1>2, <1>3, <1>4, <1>5, <1>6, <1>7
        DEF Next, Subscribe, Unsubscribe

\* The state of a feed (feed.go:41-68) always has its types: what it mirrors,
\* memoizes, buffers and counts, whatever clients and posts there are.
THEOREM TypeCorrect == Spec => []TypeOK
BY TypeInit, TypeStep, PTL DEF Spec

-----------------------------------------------------------------------------
(* The ticker, the subscribers and their count.                            *)

\* What a case of the loop has buffered wakes the ticker (feed.go:187-209),
\* and only a tick that finds nothing pauses it.
THEOREM BufferedMessagesTick == Spec => []BufferedImpliesTicking
<1>1. Init => BufferedImpliesTicking
  BY DEF Init, BufferedImpliesTicking
<1>2. BufferedImpliesTicking /\ [Next]_vars => BufferedImpliesTicking'
  <2> SUFFICES ASSUME BufferedImpliesTicking, [Next]_vars
               PROVE  BufferedImpliesTicking'
    OBVIOUS
  <2> USE DEF BufferedImpliesTicking
  <2>1. ASSUME NEW c \in Clients, AddToFeed(c)
        PROVE  BufferedImpliesTicking'
    BY <2>1 DEF AddToFeed, SendIPCount
  <2>2. ASSUME NEW c \in Clients, RemoveFromFeed(c)
        PROVE  BufferedImpliesTicking'
    BY <2>2 DEF RemoveFromFeed, ResetFeed, SendIPCount
  <2>3. CASE Flush
    BY <2>3 DEF Flush
  <2>4. CASE Evict \/ Clock \/ UNCHANGED vars
    BY <2>4 DEF Evict, Clock, vars
  <2>5. ASSUME NEW p \in Posts, ChangePost(p)
        PROVE  BufferedImpliesTicking'
    BY <2>5, ChangePostFrame DEF ChangeFrame
  <2> QED BY <2>1, <2>2, <2>3, <2>4, <2>5 DEF Next, Subscribe, Unsubscribe
<1> QED BY <1>1, <1>2, PTL DEF Spec

\* A feed runs from its first subscriber to its last (feeds.go:35-69, :101-107).
THEOREM LoopRunsForSubscribers == Spec => []RunsIffSubscribed
<1>1. Init => RunsIffSubscribed
  BY DEF Init, RunsIffSubscribed
<1>2. RunsIffSubscribed /\ [Next]_vars => RunsIffSubscribed'
  <2> SUFFICES ASSUME RunsIffSubscribed, [Next]_vars
               PROVE  RunsIffSubscribed'
    OBVIOUS
  <2> USE DEF RunsIffSubscribed
  <2>1. ASSUME NEW c \in Clients, AddToFeed(c)
        PROVE  RunsIffSubscribed'
    BY <2>1 DEF AddToFeed
  <2>2. ASSUME NEW c \in Clients, RemoveFromFeed(c)
        PROVE  RunsIffSubscribed'
    BY <2>2 DEF RemoveFromFeed, LoopExits
  <2>3. CASE Flush \/ Evict \/ Clock \/ UNCHANGED vars
    BY <2>3 DEF Flush, Evict, Clock, vars
  <2>4. ASSUME NEW p \in Posts, ChangePost(p)
        PROVE  RunsIffSubscribed'
    BY <2>4, ChangePostFrame DEF ChangeFrame
  <2> QED BY <2>1, <2>2, <2>3, <2>4 DEF Next, Subscribe, Unsubscribe
<1> QED BY <1>1, <1>2, PTL DEF Spec

\* The count last sent to the subscribers (feed.go:212-234) is never behind
\* their comings and goings.
THEOREM CountFollowsSubscribers == Spec => []CountIsCurrent
<1>1. Init => CountIsCurrent
  BY DEF Init, CountIsCurrent
<1>2. CountIsCurrent /\ [Next]_vars => CountIsCurrent'
  <2> SUFFICES ASSUME CountIsCurrent, [Next]_vars
               PROVE  CountIsCurrent'
    OBVIOUS
  <2> USE DEF CountIsCurrent, Total
  <2>1. ASSUME NEW c \in Clients, AddToFeed(c)
        PROVE  CountIsCurrent'
    BY <2>1 DEF AddToFeed, SendIPCount
  <2>2. ASSUME NEW c \in Clients, RemoveFromFeed(c)
        PROVE  CountIsCurrent'
    BY <2>2 DEF RemoveFromFeed, ResetFeed, SendIPCount
  <2>3. CASE Flush \/ Evict \/ Clock \/ UNCHANGED vars
    BY <2>3 DEF Flush, Evict, Clock, vars
  <2>4. ASSUME NEW p \in Posts, ChangePost(p)
        PROVE  CountIsCurrent'
    BY <2>4, ChangePostFrame DEF ChangeFrame
  <2> QED BY <2>1, <2>2, <2>3, <2>4 DEF Next, Subscribe, Unsubscribe
<1> QED BY <1>1, <1>2, PTL DEF Spec

-----------------------------------------------------------------------------
(* The mirror.                                                             *)

\* A feed that does not run has memoized nothing: with this, the invariant of
\* the memoized snapshot is inductive.
MemoizedInv ==
    /\ MemoizedIsCurrent
    /\ ~running => memoized = NoSnapshot

LEMMA MemoizedHolds == Spec => []MemoizedInv
<1>1. Init => MemoizedInv
  BY DEF Init, MemoizedInv, MemoizedIsCurrent
<1>2. MemoizedInv /\ [Next]_vars => MemoizedInv'
  <2> SUFFICES ASSUME MemoizedInv, [Next]_vars
               PROVE  MemoizedInv'
    OBVIOUS
  <2> USE DEF MemoizedInv, MemoizedIsCurrent, State
  <2>1. ASSUME NEW c \in Clients, AddToFeed(c)
        PROVE  MemoizedInv'
    BY <2>1 DEF AddToFeed
  <2>2. ASSUME NEW c \in Clients, RemoveFromFeed(c)
        PROVE  MemoizedInv'
    BY <2>2 DEF RemoveFromFeed, ResetFeed
  <2>3. CASE Flush \/ Clock \/ UNCHANGED vars
    BY <2>3 DEF Flush, Clock, vars
  <2>4. CASE Evict
    BY <2>4 DEF Evict
  <2>5. ASSUME NEW p \in Posts, ChangePost(p)
        PROVE  MemoizedInv'
    BY <2>5, ChangePostFrame DEF ChangeFrame
  <2> QED BY <2>1, <2>2, <2>3, <2>4, <2>5 DEF Next, Subscribe, Unsubscribe
<1> QED BY <1>1, <1>2, PTL DEF Spec

\* A new subscriber is sent the mirror and the moderation log as they are, never
\* a snapshot memoized before a change (feed.go:93-102, :187-198, cache.go:84-98).
THEOREM SnapshotIsCurrent == Spec => []MemoizedIsCurrent
<1>1. MemoizedInv => MemoizedIsCurrent
  BY DEF MemoizedInv
<1> QED BY <1>1, MemoizedHolds, PTL

\* A post that does not exist has not been moderated: with this, the invariant
\* of the moderation log is inductive.
ModerationInv ==
    /\ ModerationMirrored
    /\ \A p \in Posts : post[p].state = "none" => post[p].mods = << >>

\* What a change of one post does to the moderation logs: the others stay, and
\* its own, in a running feed, is again the database's.
ModerationFrame(p) ==
    /\ \A q \in Posts \ {p} : post'[q] = post[q] /\ moderation'[q] = moderation[q]
    /\ post'[p].state = "none" => post'[p].mods = << >>
    /\ running /\ p # OP => moderation'[p] = post'[p].mods

LEMMA ChangePostModeration ==
    ASSUME TypeOK, ModerationInv, NEW p \in Posts, ChangePost(p)
    PROVE  ModerationFrame(p)
<1> USE DEF ModerationFrame
<1>1. /\ post[p] \in PostRow
      /\ post[p].state = "none" => post[p].mods = << >>
      /\ running /\ p # OP => moderation[p] = post[p].mods
  BY DEF TypeOK, ModerationInv, ModerationMirrored
<1>2. ASSUME NEW row \in NewRows, InsertPost(p, row)
      PROVE  ModerationFrame(p)
  <2>1. row.state # "none"
    BY DEF NewRows
  <2>2. post' = [post EXCEPT ![p] = row] /\ post[p].mods = << >>
    BY <1>1, <1>2 DEF InsertPost
  <2>3. moderation' = IF running /\ row.mods # << >>
                        THEN [moderation EXCEPT ![p] = row.mods]
                        ELSE moderation
    BY <1>2 DEF InsertPost, IfRunning
  <2> QED BY <1>1, <2>1, <2>2, <2>3 DEF TypeOK
<1>3. CASE Reclaim(p)
  <2>1. /\ moderation' = IF Deleted(p)
                           THEN [moderation EXCEPT ![p] = post[p].mods]
                           ELSE moderation
        /\ UNCHANGED post
    BY <1>3 DEF Reclaim
  <2> QED BY <1>1, <2>1 DEF TypeOK
<1>4. ASSUME NEW body, NEW msg, SetOpenBody(p, body, msg)
      PROVE  ModerationFrame(p)
  BY <1>1, <1>4 DEF SetOpenBody, ModifyPost, TypeOK, PostRow
<1>5. CASE EditBody(p)
  BY <1>4, <1>5, EditBodyType
<1>8. ASSUME NEW spoiler \in BOOLEAN, InsertImage(p, spoiler)
      PROVE  ModerationFrame(p)
  BY <1>1, <1>8 DEF InsertImage, ModifyPost, TypeOK, PostRow
<1>9. CASE SpoilerImage(p)
  BY <1>1, <1>9 DEF SpoilerImage, ModifyPost, TypeOK, PostRow
<1>10. CASE ClosePost(p)
  <2>1. UNCHANGED moderation
    BY <1>10 DEF ClosePost, IfRunning, ModifyPost
  <2> QED BY <1>1, <1>10, <2>1 DEF ClosePost, TypeOK, PostRow
<1>11. ASSUME NEW action \in ModActions, ModeratePost(p, action)
       PROVE  ModerationFrame(p)
  <2> DEFINE row == ModeratedRow(post[p], action)
  <2>1. post' = [post EXCEPT ![p] = row] /\ post[p].state # "none"
    BY <1>11 DEF ModeratePost
  <2>2. row.mods = Append(post[p].mods, action) /\ row.state = post[p].state
    BY <1>1, ModeratedRowType
  <2>3. moderation' = IF running
                        THEN [moderation EXCEPT ![p] = Append(moderation[p], action)]
                        ELSE moderation
    BY <1>11 DEF ModeratePost, IfRunning
  <2> HIDE DEF row
  <2> QED BY <1>1, <2>1, <2>2, <2>3 DEF TypeOK
<1> QED BY ConstantsAssumption, <1>2, <1>3, <1>5, <1>8, <1>9, <1>10, <1>11
        DEF ChangePost, EditBody

LEMMA ModerationHolds == Spec => []ModerationInv
<1>1. Init => ModerationInv
  BY DEF Init, NoRow, ModerationInv, ModerationMirrored
<1>2. TypeOK /\ ModerationInv /\ [Next]_vars => ModerationInv'
  <2> SUFFICES ASSUME TypeOK, ModerationInv, [Next]_vars
               PROVE  ModerationInv'
    OBVIOUS
  <2> USE DEF ModerationInv, ModerationMirrored
  <2>1. ASSUME NEW c \in Clients, AddToFeed(c)
        PROVE  ModerationInv'
    BY <2>1 DEF AddToFeed, LoadModeration
  <2>2. ASSUME NEW c \in Clients, RemoveFromFeed(c)
        PROVE  ModerationInv'
    BY <2>2 DEF RemoveFromFeed
  <2>3. CASE Flush \/ Evict \/ Clock \/ UNCHANGED vars
    BY <2>3 DEF Flush, Evict, Clock, vars
  <2>4. ASSUME NEW p \in Posts, ChangePost(p)
        PROVE  ModerationInv'
    <3>1. ModerationFrame(p) /\ UNCHANGED running
      BY <2>4, ChangePostModeration, ChangePostFrame DEF ChangeFrame
    <3> QED BY <3>1 DEF ModerationFrame
  <2> QED BY <2>1, <2>2, <2>3, <2>4 DEF Next, Subscribe, Unsubscribe
<1> QED BY <1>1, <1>2, TypeCorrect, PTL DEF Spec

\* The mirror keeps, in order, every moderation the database has logged of a
\* reply (cache.go:45-47, feed.go:137-139, :178-179), whenever the feed was
\* started and however the post was inserted or reclaimed.
THEOREM ModerationIsMirrored == Spec => []ModerationMirrored
<1>1. ModerationInv => ModerationMirrored
  BY DEF ModerationInv
<1> QED BY <1>1, ModerationHolds, PTL

\* A young reply has an entry in the mirror, of its own creation time and, unless
\* it has been moderated, equal to it.
FreshMirror(p) ==
    post[p].state # "none" /\ post[p].time > now - Retention
      => /\ recent[p] # Absent
         /\ recent[p].Time = post[p].time
         /\ Mirrors(p)

\* The inductive form of FreshPostsMirrored: without the creation time, an entry
\* that a moderation changed could be taken for an old one and evicted.
FreshInv == running => \A p \in Posts \ {OP} : FreshMirror(p)

\* Changing the entry and the row alike keeps the mirror of the post.
LEMMA ChangeAlike ==
    ASSUME TypeOK, NEW p \in Posts, FreshMirror(p),
           NEW e \in CachedPost, NEW r \in PostRow,
           recent' = [recent EXCEPT ![p] = e],
           post' = [post EXCEPT ![p] = r],
           UNCHANGED now,
           post[p].state = "none" => r.state = "none",
           r.time = post[p].time, e.Time = Entry(p).Time,
           r.mods = << >> => /\ post[p].mods = << >>
                             /\ Entry(p) = Cached(post[p]) => e = Cached(r)
    PROVE  FreshMirror(p)'
<1>1. recent'[p] = e /\ post'[p] = r
  BY DEF TypeOK
<1>2. e # Absent
  BY ConstantsAssumption
<1> SUFFICES ASSUME r.state # "none", r.time > now - Retention
             PROVE  e.Time = r.time /\ (r.mods = << >> => e = Cached(r))
  BY <1>1, <1>2 DEF FreshMirror, Mirrors, Cached
<1>3. /\ Entry(p) = recent[p]
      /\ recent[p].Time = post[p].time
      /\ post[p].mods = << >> => recent[p] = Cached(post[p])
  BY DEF FreshMirror, Mirrors, Entry
<1> QED BY <1>3

\* What a change of one post does to the mirror: the entries of the others stay,
\* and its own is again like the post, if the feed runs.
FreshFrame(p) ==
    /\ \A q \in Posts \ {p} : post'[q] = post[q] /\ recent'[q] = recent[q]
    /\ running /\ p # OP => FreshMirror(p)'

LEMMA ChangePostFresh ==
    ASSUME TypeOK, FreshInv, NEW p \in Posts, ChangePost(p)
    PROVE  FreshFrame(p)
<1> DEFINE e == Entry(p)
           r == post[p]
<1>1. e \in CachedPost /\ r \in PostRow
  BY EntryType DEF TypeOK
<1>2. running /\ p # OP => FreshMirror(p)
  BY DEF FreshInv
<1>3. ASSUME NEW entry \in CachedPost, NEW row \in PostRow,
             recent' = [recent EXCEPT ![p] = entry],
             post' = [post EXCEPT ![p] = row],
             UNCHANGED now,
             r.state = "none" => row.state = "none",
             row.time = r.time, entry.Time = e.Time,
             row.mods = << >> => /\ r.mods = << >>
                                 /\ e = Cached(r) => entry = Cached(row)
      PROVE  FreshFrame(p)
  <2>1. running /\ p # OP => FreshMirror(p)'
    BY <1>2, <1>3, ChangeAlike
  <2>2. \A q \in Posts \ {p} : post'[q] = post[q] /\ recent'[q] = recent[q]
    BY <1>3 DEF TypeOK
  <2> QED BY <2>1, <2>2 DEF FreshFrame
<1>4. ASSUME NEW row \in PostRow, running,
             recent' = [recent EXCEPT ![p] = Cached(row)],
             post' = [post EXCEPT ![p] = row]
      PROVE  FreshFrame(p)
  <2>1. /\ Cached(row) # Absent
        /\ Cached(row).Time = row.time
    BY CachedType, ConstantsAssumption DEF Cached
  <2>2. recent'[p] = Cached(row) /\ post'[p] = row
    BY <1>4 DEF TypeOK
  <2>3. Cached(post[p])' = Cached(row)
    BY <2>2 DEF Cached
  <2>4. FreshMirror(p)'
    BY <2>1, <2>2, <2>3 DEF FreshMirror, Mirrors
  <2>5. \A q \in Posts \ {p} : post'[q] = post[q] /\ recent'[q] = recent[q]
    BY <1>4 DEF TypeOK
  <2> QED BY <2>4, <2>5 DEF FreshFrame
<1>5. ASSUME ~running, NEW row, post' = [post EXCEPT ![p] = row], UNCHANGED recent
      PROVE  FreshFrame(p)
  BY <1>5 DEF FreshFrame, TypeOK
<1>6. ASSUME NEW row \in NewRows, InsertPost(p, row)
      PROVE  FreshFrame(p)
  <2>1. post' = [post EXCEPT ![p] = row] /\ row \in PostRow
    BY <1>6, NewRowType DEF InsertPost
  <2>2. CASE running
    BY <1>4, <1>6, <2>1, <2>2 DEF InsertPost, IfRunning, SetEntry
  <2>3. CASE ~running
    BY <1>5, <1>6, <2>1, <2>3 DEF InsertPost, IfRunning
  <2> QED BY <2>2, <2>3
<1>7. CASE Reclaim(p)
  <2>1. post' = [post EXCEPT ![p] = r]
    BY <1>7 DEF Reclaim, TypeOK
  <2>2. recent' = [recent EXCEPT ![p] = Cached(r)] /\ running
    BY <1>7 DEF Reclaim, SetEntry
  <2> HIDE DEF r
  <2> QED BY <1>1, <1>4, <2>1, <2>2
<1>8. ASSUME NEW body \in Seq(Chars), NEW msg, SetOpenBody(p, body, msg)
      PROVE  FreshFrame(p)
  <2> DEFINE entry == [e EXCEPT !.Body = body]
             row == [r EXCEPT !.body = body]
  <2>1. /\ recent' = [recent EXCEPT ![p] = entry]
        /\ post' = [post EXCEPT ![p] = row]
        /\ UNCHANGED now
    BY <1>8 DEF SetOpenBody, ModifyPost, SetEntry, TypeOK
  <2> HIDE DEF e, r
  <2>2. /\ entry \in CachedPost /\ entry.Time = e.Time
        /\ row \in PostRow /\ row.state = r.state /\ row.time = r.time
        /\ row.mods = r.mods
    BY <1>1, <1>8 DEF CachedPost, PostRow
  <2>3. e = Cached(r) => entry = Cached(row)
    BY <1>1, <1>8 DEF CachedPost, PostRow, Cached
  <2> HIDE DEF entry, row
  <2> QED BY <1>3, <2>1, <2>2, <2>3
<1>9. CASE EditBody(p)
  BY <1>8, <1>9, EditBodyType
<1>10. ASSUME NEW spoiler \in BOOLEAN, InsertImage(p, spoiler)
       PROVE  FreshFrame(p)
  <2> DEFINE entry == [e EXCEPT !.HasImage = TRUE, !.Spoilered = spoiler]
             row == [r EXCEPT !.image = TRUE, !.spoiler = spoiler]
  <2>1. /\ recent' = [recent EXCEPT ![p] = entry]
        /\ post' = [post EXCEPT ![p] = row]
        /\ UNCHANGED now
    BY <1>10 DEF InsertImage, ModifyPost, SetEntry, TypeOK
  <2> HIDE DEF e, r
  <2>2. /\ entry \in CachedPost /\ entry.Time = e.Time
        /\ row \in PostRow /\ row.state = r.state /\ row.time = r.time
        /\ row.mods = r.mods
    BY <1>1, <1>10 DEF CachedPost, PostRow
  <2>3. e = Cached(r) => entry = Cached(row)
    <3>1. /\ entry.HasImage = TRUE /\ entry.Spoilered = spoiler
          /\ entry.Closed = e.Closed /\ entry.Time = e.Time /\ entry.Body = e.Body
      BY <1>1 DEF CachedPost
    <3>2. /\ row.image = TRUE /\ row.spoiler = spoiler
          /\ row.state = r.state /\ row.time = r.time /\ row.body = r.body
      BY <1>1 DEF PostRow
    <3> HIDE DEF entry, row
    <3>3. /\ Cached(row).HasImage = TRUE
          /\ Cached(row).Spoilered = spoiler
      BY <1>10, <3>2 DEF Cached
    <3>4. /\ Cached(row).Closed = Cached(r).Closed
          /\ Cached(row).Time = Cached(r).Time
          /\ Cached(row).Body = Cached(r).Body
      BY <3>2 DEF Cached
    <3> QED BY <2>2, <3>1, <3>3, <3>4, CachedType, CachedEqual
  <2> HIDE DEF entry, row
  <2> QED BY <1>3, <2>1, <2>2, <2>3
<1>11. CASE SpoilerImage(p)
  <2> DEFINE entry == [e EXCEPT !.Spoilered = TRUE]
             row == [r EXCEPT !.spoiler = TRUE]
  <2>1. /\ recent' = [recent EXCEPT ![p] = entry]
        /\ post' = [post EXCEPT ![p] = row]
        /\ UNCHANGED now
    BY <1>11 DEF SpoilerImage, ModifyPost, SetEntry, TypeOK
  <2>2. r.mods = << >> => r.image
    BY <1>11 DEF SpoilerImage, Logged
  <2> HIDE DEF e, r
  <2>3. /\ entry \in CachedPost /\ entry.Time = e.Time
        /\ row \in PostRow /\ row.state = r.state /\ row.time = r.time
        /\ row.mods = r.mods
    BY <1>1 DEF CachedPost, PostRow
  <2>4. r.mods = << >> /\ e = Cached(r) => entry = Cached(row)
    <3>1. Cached(row) = [Cached(r) EXCEPT !.Spoilered = row.image /\ row.spoiler]
      BY <1>1 DEF PostRow, Cached
    <3>2. row.image = r.image /\ row.spoiler = TRUE
      BY <1>1 DEF PostRow
    <3>3. r.mods = << >> => (row.image /\ row.spoiler) = TRUE
      BY <2>2, <3>2
    <3> QED BY <3>1, <3>3
  <2> HIDE DEF entry, row
  <2> QED BY <1>3, <2>1, <2>3, <2>4
<1>12. CASE ClosePost(p)
  <2> DEFINE entry == [e EXCEPT !.Closed = TRUE]
             row == [r EXCEPT !.state = "closed"]
  <2>1. post' = [post EXCEPT ![p] = row] /\ UNCHANGED now
    BY <1>12 DEF ClosePost, TypeOK
  <2>2. CASE ~running
    BY <1>5, <1>12, <2>1, <2>2 DEF ClosePost, IfRunning
  <2>3. CASE running
    <3>1. recent' = [recent EXCEPT ![p] = entry]
      BY <1>12, <2>3 DEF ClosePost, IfRunning, ModifyPost, SetEntry
    <3> HIDE DEF e, r
    <3>2. /\ entry \in CachedPost /\ entry.Time = e.Time
          /\ row \in PostRow /\ row.time = r.time /\ row.mods = r.mods
      BY <1>1 DEF CachedPost, PostRow
    <3>3. e = Cached(r) => entry = Cached(row)
      <4>1. /\ entry.HasImage = e.HasImage /\ entry.Spoilered = e.Spoilered
            /\ entry.Closed = TRUE /\ entry.Time = e.Time /\ entry.Body = e.Body
        BY <1>1 DEF CachedPost
      <4>2. /\ row.image = r.image /\ row.spoiler = r.spoiler
            /\ row.state = "closed" /\ row.time = r.time /\ row.body = r.body
        BY <1>1 DEF PostRow
      <4> HIDE DEF entry, row
      <4>3. Cached(row).Closed = TRUE
        BY <4>2 DEF Cached
      <4>4. /\ Cached(row).HasImage = Cached(r).HasImage
            /\ Cached(row).Spoilered = Cached(r).Spoilered
            /\ Cached(row).Time = Cached(r).Time
            /\ Cached(row).Body = Cached(r).Body
        BY <4>2 DEF Cached
      <4> QED BY <3>2, <4>1, <4>3, <4>4, CachedType, CachedEqual
    <3>4. r.state = "open"
      BY <1>12 DEF ClosePost, r
    <3> HIDE DEF entry, row
    <3> QED BY <1>3, <2>1, <3>1, <3>2, <3>3, <3>4
  <2> QED BY <2>2, <2>3
<1>13. ASSUME NEW action \in ModActions, ModeratePost(p, action)
       PROVE  FreshFrame(p)
  <2> DEFINE entry == ModeratedEntry(e, action)
             row == ModeratedRow(r, action)
  <2>1. post' = [post EXCEPT ![p] = row] /\ UNCHANGED now
    BY <1>13 DEF ModeratePost, TypeOK
  <2>2. CASE ~running
    BY <1>5, <1>13, <2>1, <2>2 DEF ModeratePost, IfRunning
  <2>3. CASE running
    <3>1. recent' = [recent EXCEPT ![p] = entry]
      BY <1>13, <2>3 DEF ModeratePost, IfRunning, SetEntry
    <3>2. entry \in CachedPost /\ entry.Time = e.Time
      BY <1>1, ModeratedEntryType
    <3>3. /\ row \in PostRow /\ row.state = r.state /\ row.time = r.time
          /\ row.mods = Append(r.mods, action)
      BY <1>1, ModeratedRowType
    <3>4. Append(r.mods, action) # << >>
      BY <1>1 DEF PostRow
    <3> HIDE DEF e, r, entry, row
    <3> QED BY <1>3, <2>1, <3>1, <3>2, <3>3, <3>4
  <2> QED BY <2>2, <2>3
<1> QED BY ConstantsAssumption, <1>6, <1>7, <1>9, <1>10, <1>11, <1>12, <1>13
        DEF ChangePost, EditBody

\* What a subscriber is told of a young reply is what the database and the owner
\* say of it (cache.go:34-63, feed.go:125-180), however often the feed stops and
\* is loaded again: no entry is evicted early, missed or left behind by an edit.
THEOREM FreshRepliesAreMirrored == Spec => []FreshPostsMirrored
<1>1. Init => FreshInv
  BY DEF Init, FreshInv
<1>2. TypeOK /\ FreshInv /\ [Next]_vars => FreshInv'
  <2> SUFFICES ASSUME TypeOK, FreshInv, [Next]_vars
               PROVE  FreshInv'
    OBVIOUS
  <2> USE DEF FreshInv
  <2>1. ASSUME NEW c \in Clients, AddToFeed(c)
        PROVE  FreshInv'
    <3>1. UNCHANGED <<now, post>>
      BY <2>1 DEF AddToFeed
    <3>2. CASE running
      <4>1. UNCHANGED recent
        BY <2>1, <3>2 DEF AddToFeed
      <4> QED BY <3>1, <3>2, <4>1 DEF FreshMirror, Mirrors, Cached
    <3>3. CASE ~running
      <4>1. recent' = LoadRecent
        BY <2>1, <3>3 DEF AddToFeed
      <4> SUFFICES ASSUME NEW p \in Posts \ {OP}, post[p].state # "none",
                          post[p].time > now - Retention
                   PROVE  /\ recent'[p] # Absent
                          /\ recent'[p].Time = post[p].time
                          /\ recent'[p] = Cached(post[p])
        BY <3>1 DEF FreshMirror, Mirrors, Cached
      <4>2. recent'[p] = Cached(post[p])
        BY <4>1 DEF LoadRecent
      <4>3. Cached(post[p]) \in CachedPost
        BY CachedType DEF TypeOK
      <4>4. Cached(post[p]).Time = post[p].time
        BY DEF Cached
      <4> QED BY <4>2, <4>3, <4>4, ConstantsAssumption
    <3> QED BY <3>2, <3>3
  <2>2. ASSUME NEW c \in Clients, RemoveFromFeed(c)
        PROVE  FreshInv'
    <3>1. running' => running /\ UNCHANGED recent
      BY <2>2 DEF RemoveFromFeed
    <3>2. UNCHANGED <<now, post>>
      BY <2>2 DEF RemoveFromFeed
    <3> QED BY <3>1, <3>2 DEF FreshMirror, Mirrors, Cached
  <2>3. CASE Flush \/ UNCHANGED vars
    BY <2>3 DEF Flush, vars, FreshMirror, Mirrors, Cached
  <2>4. CASE Evict
    <3>1. UNCHANGED <<running, now, post>>
      BY <2>4 DEF Evict
    <3>2. ASSUME NEW p \in Posts, post[p].time > now - Retention,
                 recent[p] # Absent, recent[p].Time = post[p].time
          PROVE  recent'[p] = recent[p]
      <4>1. ~Expired(recent[p])
        BY <3>2, ConstantsAssumption DEF Expired, TypeOK, PostRow
      <4> QED BY <2>4, <3>2, <4>1 DEF Evict
    <3> QED BY <3>1, <3>2 DEF FreshMirror, Mirrors, Cached
  <2>5. CASE Clock
    <3>1. UNCHANGED <<running, recent, post>> /\ now' = now + 1
      BY <2>5 DEF Clock
    <3>2. \A p \in Posts : post[p].time > now' - Retention
                             => post[p].time > now - Retention
      BY <3>1, ConstantsAssumption DEF TypeOK, PostRow
    <3> QED BY <3>1, <3>2 DEF FreshMirror, Mirrors, Cached
  <2>6. ASSUME NEW p \in Posts, ChangePost(p)
        PROVE  FreshInv'
    <3>1. FreshFrame(p) /\ UNCHANGED <<running, now>>
      BY <2>6, ChangePostFresh, ChangePostFrame DEF ChangeFrame
    <3>2. ASSUME NEW q \in Posts, q # p, FreshMirror(q)
          PROVE  FreshMirror(q)'
      BY <3>1, <3>2 DEF FreshFrame, FreshMirror, Mirrors, Cached
    <3> QED BY <3>1, <3>2 DEF FreshFrame
  <2> QED BY <2>1, <2>2, <2>3, <2>4, <2>5, <2>6 DEF Next, Subscribe, Unsubscribe
<1>3. FreshInv => FreshPostsMirrored
  BY DEF FreshInv, FreshMirror, FreshPostsMirrored
<1> QED BY <1>1, <1>2, <1>3, TypeCorrect, PTL DEF Spec

-----------------------------------------------------------------------------
(* Induction over the messages of a frame and the frames of a queue.  The  *)
(* sets stand for predicates: every number up to n has what T collects.    *)

\* If 0 is in a set and each number follows the one before, all are in it.
LEMMA UpTo ==
    ASSUME NEW N \in Nat, NEW T, 0 \in T, \A n \in 1..N : n - 1 \in T => n \in T
    PROVE  \A n \in 0..N : n \in T
<1> DEFINE R == OpToRel(<, Nat)
           U == 0..N \ T
<1>1. IsWellFoundedOn(R, Nat)
  BY NatLessThanWellFounded
<1>2. ASSUME U # {} PROVE FALSE
  <2>1. U \subseteq Nat
    OBVIOUS
  <2>2. \E x \in U : \A y \in U : ~(<<y, x>> \in R)
    <3> HIDE DEF R, U
    <3> QED BY <1>1, <1>2, <2>1, WFMin
  <2>3. PICK x \in U : \A y \in U : ~(<<y, x>> \in R)
    BY <2>2
  <2>4. x \in 1..N /\ x - 1 \in Nat /\ x - 1 < x
    OBVIOUS
  <2>5. x - 1 \in U
    BY <2>4
  <2>6. <<x - 1, x>> \in R
    BY <2>4 DEF OpToRel
  <2> QED BY <2>3, <2>5, <2>6
<1> QED BY <1>2

\* f has the values of N steps from b in S, the n-th of which is G[n].
Iterates(f, S, b, N, G) ==
    f \in [0..N -> S] /\ f[0] = b /\ \A k \in 1..N : f[k] = G[k][f[k - 1]]

\* There is such a function, whatever the steps.
LEMMA Iteration ==
    ASSUME NEW S, NEW b \in S, NEW N \in Nat, NEW G \in [1..N -> [S -> S]]
    PROVE  \E f : Iterates(f, S, b, N, G)
<1> DEFINE Good(n) == \E f \in [0..n -> S] :
                        f[0] = b /\ \A k \in 1..n : f[k] = G[k][f[k - 1]]
           T == {n \in 0..N : Good(n)}
<1>1. 0 \in T
  <2> DEFINE f == [k \in 0..0 |-> b]
  <2>1. f \in [0..0 -> S] /\ f[0] = b
    OBVIOUS
  <2> HIDE DEF f
  <2>2. Good(0)
    BY <2>1
  <2> QED BY <2>2
<1>2. ASSUME NEW n \in 1..N, n - 1 \in T PROVE n \in T
  <2>1. PICK f \in [0..n - 1 -> S] :
          f[0] = b /\ \A k \in 1..n - 1 : f[k] = G[k][f[k - 1]]
    BY <1>2
  <2> DEFINE g == [k \in 0..n |-> IF k = n THEN G[n][f[n - 1]] ELSE f[k]]
  <2>2. f[n - 1] \in S /\ G[n] \in [S -> S]
    BY <2>1
  <2>3. g \in [0..n -> S]
    BY <2>1, <2>2
  <2>4. \A k \in 0..n - 1 : g[k] = f[k]
    OBVIOUS
  <2>5. g[0] = b
    BY <2>1, <2>4
  <2>6. ASSUME NEW k \in 1..n PROVE g[k] = G[k][g[k - 1]]
    <3>1. k - 1 \in 0..n - 1
      OBVIOUS
    <3>2. CASE k = n
      BY <2>4, <3>1, <3>2
    <3>3. CASE k \in 1..n - 1
      BY <2>1, <2>4, <3>1, <3>3
    <3> QED BY <3>2, <3>3
  <2> HIDE DEF g
  <2>7. Good(n)
    BY <2>3, <2>5, <2>6
  <2> QED BY <2>7
<1> HIDE DEF T
<1>3. \A n \in 0..N : n \in T
  BY <1>1, <1>2, UpTo
<1>4. N \in T
  BY <1>3
<1>5. Good(N)
  BY <1>4 DEF T
<1> QED BY <1>5 DEF Iterates

-----------------------------------------------------------------------------
(* A frame, handled message by message.                                    *)

\* The values of Handling are what the handler has made of the page so far.
LEMMA HandlingSteps ==
    ASSUME NEW v \in Models, NEW msgs \in Seq(Message)
    PROVE  /\ Handling(v, msgs)[0] = [v |-> v, thrown |-> FALSE]
           /\ \A n \in 0..Len(msgs) : Handling(v, msgs)[n] \in Acc
           /\ \A n \in 1..Len(msgs) :
                Handling(v, msgs)[n] = Taken(Handling(v, msgs)[n - 1], msgs[n])
<1> DEFINE N == Len(msgs)
           b == [v |-> v, thrown |-> FALSE]
           f == Handling(v, msgs)
           Shaped(h) == h = [n \in 0..N |-> IF n = 0 THEN b ELSE Taken(h[n - 1], msgs[n])]
<1>1. N \in Nat /\ \A n \in 1..N : msgs[n] \in Message
  OBVIOUS
<1>2. b \in Acc
  BY DEF Acc
<1>3. PICK G \in [1..N -> [Acc -> Acc]] :
        \A n \in 1..N : \A acc \in Acc : G[n][acc] = Taken(acc, msgs[n])
  <2> DEFINE F == [n \in 1..N |-> [acc \in Acc |-> Taken(acc, msgs[n])]]
  <2>1. F \in [1..N -> [Acc -> Acc]]
    BY <1>1, TakenType
  <2>2. \A n \in 1..N : \A acc \in Acc : F[n][acc] = Taken(acc, msgs[n])
    OBVIOUS
  <2> HIDE DEF F
  <2> QED BY <2>1, <2>2
<1>4. PICK h : Iterates(h, Acc, b, N, G)
  <2> HIDE DEF N, b
  <2> QED BY <1>1, <1>2, <1>3, Iteration
<1>5. ASSUME NEW k \in 1..N PROVE h[k] = Taken(h[k - 1], msgs[k])
  <2>1. N \in Nat
    BY <1>1
  <2> HIDE DEF N
  <2>2. k - 1 \in 0..N
    BY <2>1
  <2>3. h[k - 1] \in Acc /\ h[k] = G[k][h[k - 1]]
    BY <1>4, <2>2 DEF Iterates
  <2> QED BY <1>3, <2>3
<1>6. Shaped(h)
  <2> HIDE DEF N, b
  <2> QED BY <1>1, <1>4, <1>5 DEF Iterates
<1>7. f = CHOOSE g : Shaped(g)
  BY DEF Handling
<1>8. Shaped(f)
  <2> HIDE DEF f, Shaped
  <2> QED BY <1>6, <1>7
<1>9. f[0] = b /\ \A n \in 1..N : f[n] = Taken(f[n - 1], msgs[n])
  <2> HIDE DEF N, b, f
  <2> QED BY <1>1, <1>8
<1> DEFINE T == {n \in 0..N : f[n] \in Acc}
<1>10. 0 \in T
  <2> HIDE DEF b, f
  <2> QED BY <1>1, <1>2, <1>9
<1>11. ASSUME NEW n \in 1..N, n - 1 \in T PROVE n \in T
  <2> HIDE DEF f
  <2> QED BY <1>1, <1>9, <1>11, TakenType
<1>12. \A n \in 0..N : n \in T
  <2> HIDE DEF T
  <2> QED BY <1>1, <1>10, <1>11, UpTo
<1> QED BY <1>9, <1>12

\* After no message, the page is as before; after a further one, as that one
\* leaves it.
LEMMA HandlingNone ==
    ASSUME NEW v \in Models
    PROVE  HandledAll(v, << >>) = v
<1>1. << >> \in Seq(Message) /\ Len(<< >>) = 0
  OBVIOUS
<1>2. Handling(v, << >>)[0] = [v |-> v, thrown |-> FALSE]
  BY <1>1, HandlingSteps
<1> QED BY <1>1, <1>2 DEF HandledAll

LEMMA HandlingAppend ==
    ASSUME NEW v \in Models, NEW msgs \in Seq(Message), NEW m \in Message
    PROVE  Handling(v, Append(msgs, m))[Len(msgs) + 1] = Taken(Handling(v, msgs)[Len(msgs)], m)
<1> DEFINE N == Len(msgs)
           more == Append(msgs, m)
           f == Handling(v, msgs)
           g == Handling(v, more)
           T == {n \in 0..N : f[n] = g[n]}
<1>1. /\ N \in Nat /\ more \in Seq(Message) /\ Len(more) = N + 1
      /\ \A n \in 1..N : more[n] = msgs[n]
      /\ more[N + 1] = m
  BY AppendProperties
<1> HIDE DEF more
<1>2. /\ f[0] = g[0]
      /\ \A n \in 1..N : f[n] = Taken(f[n - 1], msgs[n])
      /\ \A n \in 1..N + 1 : g[n] = Taken(g[n - 1], more[n])
  BY <1>1, HandlingSteps
<1> HIDE DEF f, g
<1>3. 0 \in T
  BY <1>1, <1>2
<1>4. ASSUME NEW n \in 1..N, n - 1 \in T PROVE n \in T
  <2>1. f[n - 1] = g[n - 1] /\ more[n] = msgs[n]
    BY <1>1, <1>4
  <2>2. n \in 1..N + 1
    BY <1>1
  <2>3. f[n] = g[n]
    BY <1>2, <2>1, <2>2
  <2> QED BY <2>3
<1>5. \A n \in 0..N : n \in T
  <2> HIDE DEF N, T
  <2> QED BY <1>1, <1>3, <1>4, UpTo
<1>6. f[N] = g[N]
  BY <1>1, <1>5
<1>7. g[N + 1] = Taken(g[N], more[N + 1])
  <2>1. N + 1 \in 1..N + 1 /\ (N + 1) - 1 = N
    BY <1>1
  <2> HIDE DEF N
  <2> QED BY <1>2, <2>1
<1>8. g[N + 1] = Taken(f[N], m)
  BY <1>1, <1>6, <1>7
<1> QED BY <1>8 DEF f, g, more

HasSpoiler(msgs) == \E i \in DOMAIN msgs : msgs[i].type = "spoiler"

\* Only a spoiler throws.
LEMMA HandlingKeeps ==
    ASSUME NEW v \in Models, NEW msgs \in Seq(Message), ~HasSpoiler(msgs)
    PROVE  ~Handling(v, msgs)[Len(msgs)].thrown
<1> DEFINE N == Len(msgs)
           f == Handling(v, msgs)
           T == {n \in 0..N : ~f[n].thrown}
<1>1. /\ N \in Nat
      /\ \A n \in 1..N : msgs[n].type # "spoiler"
      /\ \A n \in 0..N : f[n] \in Acc
      /\ f[0] = [v |-> v, thrown |-> FALSE]
      /\ \A n \in 1..N : f[n] = Taken(f[n - 1], msgs[n])
  BY HandlingSteps DEF HasSpoiler
<1> HIDE DEF f
<1>2. 0 \in T
  BY <1>1
<1>3. ASSUME NEW n \in 1..N, n - 1 \in T PROVE n \in T
  <2>1. ~f[n - 1].thrown /\ ~Throws(f[n - 1].v, msgs[n]) /\ f[n - 1] \in Acc
    BY <1>1, <1>3 DEF Throws
  <2>2. f[n] = [f[n - 1] EXCEPT !.v = Handled(f[n - 1].v, msgs[n])]
    BY <1>1, <2>1 DEF Taken
  <2> QED BY <2>1, <2>2 DEF Acc
<1>4. \A n \in 0..N : n \in T
  <2> HIDE DEF N, T
  <2> QED BY <1>1, <1>2, <1>3, UpTo
<1> QED BY <1>1, <1>4 DEF f

\* What a frame of typed messages makes of a page is one.
LEMMA HandledAllType ==
    ASSUME NEW v \in Models, NEW msgs \in Seq(Message)
    PROVE  HandledAll(v, msgs) \in Models
<1>1. Len(msgs) \in 0..Len(msgs)
  BY LenProperties
<1>2. Handling(v, msgs)[Len(msgs)] \in Acc
  BY <1>1, HandlingSteps
<1> QED BY <1>2 DEF HandledAll, Acc

\* A message that does not throw, at the end of others that do not
LEMMA HandledAllAppend ==
    ASSUME NEW v \in Models, NEW msgs \in Seq(Message), NEW m \in Message,
           ~HasSpoiler(msgs), m.type # "spoiler"
    PROVE  HandledAll(v, Append(msgs, m)) = Handled(HandledAll(v, msgs), m)
<1> DEFINE acc == Handling(v, msgs)[Len(msgs)]
<1>1. acc \in Acc /\ ~acc.thrown
  <2>1. Len(msgs) \in 0..Len(msgs)
    BY LenProperties
  <2> QED BY <2>1, HandlingSteps, HandlingKeeps
<1>2. HandledAll(v, Append(msgs, m)) = Taken(acc, m).v
  <2>1. Len(Append(msgs, m)) = Len(msgs) + 1
    BY AppendProperties
  <2> QED BY <2>1, HandlingAppend DEF HandledAll
<1>3. Taken(acc, m) = [acc EXCEPT !.v = Handled(acc.v, m)]
  BY <1>1 DEF Taken, Throws
<1>4. HandledAll(v, msgs) = acc.v
  BY DEF HandledAll
<1> HIDE DEF acc
<1> QED BY <1>1, <1>2, <1>3, <1>4 DEF Acc

\* The count of subscribers changes no page, thrown or not.
LEMMA HandledAllCount ==
    ASSUME NEW v \in Models, NEW msgs \in Seq(Message), NEW m \in Message, m.type = "syncCount"
    PROVE  HandledAll(v, Append(msgs, m)) = HandledAll(v, msgs)
<1> DEFINE acc == Handling(v, msgs)[Len(msgs)]
<1>1. acc \in Acc
  <2>1. Len(msgs) \in 0..Len(msgs)
    BY LenProperties
  <2> QED BY <2>1, HandlingSteps
<1>2. HandledAll(v, Append(msgs, m)) = Taken(acc, m).v
  <2>1. Len(Append(msgs, m)) = Len(msgs) + 1
    BY AppendProperties
  <2> QED BY <2>1, HandlingAppend DEF HandledAll
<1>3. HandledAll(v, msgs) = acc.v
  BY DEF HandledAll
<1> HIDE DEF acc
<1>4. Handled(acc.v, m) = acc.v
  BY DEF Handled
<1>5. Taken(acc, m).v = acc.v
  BY <1>1, <1>4 DEF Taken, Acc
<1> QED BY <1>2, <1>3, <1>5

\* The model of one post depends on the models of others only through what
\* they throw.
LEMMA HandledAlone ==
    ASSUME NEW v \in Models, NEW w \in Models, NEW p \in Posts, v[p] = w[p], NEW m \in Message
    PROVE  Handled(v, m)[p] = Handled(w, m)[p]
<1>1. CASE m.type = "syncCount"
  BY <1>1 DEF Handled
<1>2. CASE m.type = "insertPost"
  <2>1. m.id \in Posts
    BY <1>2, MessageParts
  <2>2. \A u \in Models : Handled(u, m) =
            IF u[m.id] = Absent THEN [u EXCEPT ![m.id] = FromMessage(m)] ELSE u
    BY <1>2 DEF Handled
  <2> QED BY <2>1, <2>2 DEF Models
<1>3. CASE m.type \notin {"syncCount", "insertPost"}
  <2>1. m.id \in Posts
    BY <1>3, MessageParts
  <2>2. \A u \in Models : Handled(u, m) =
            IF u[m.id] = Absent THEN u ELSE [u EXCEPT ![m.id] = Updated(u[m.id], m)]
    BY <1>3 DEF Handled
  <2> QED BY <2>1, <2>2 DEF Models
<1> QED BY <1>1, <1>2, <1>3

LEMMA HandledAllAlone ==
    ASSUME NEW v \in Models, NEW w \in Models, NEW p \in Posts, v[p] = w[p],
           NEW msgs \in Seq(Message), ~HasSpoiler(msgs)
    PROVE  HandledAll(v, msgs)[p] = HandledAll(w, msgs)[p]
<1> DEFINE N == Len(msgs)
           f == Handling(v, msgs)
           g == Handling(w, msgs)
           T == {n \in 0..N : f[n].v[p] = g[n].v[p] /\ ~f[n].thrown /\ ~g[n].thrown}
<1>1. /\ N \in Nat
      /\ \A n \in 1..N : msgs[n].type # "spoiler" /\ msgs[n] \in Message
      /\ \A n \in 0..N : f[n] \in Acc /\ g[n] \in Acc
      /\ f[0] = [v |-> v, thrown |-> FALSE] /\ g[0] = [v |-> w, thrown |-> FALSE]
      /\ \A n \in 1..N : f[n] = Taken(f[n - 1], msgs[n])
      /\ \A n \in 1..N : g[n] = Taken(g[n - 1], msgs[n])
  BY HandlingSteps DEF HasSpoiler
<1> HIDE DEF f, g
<1>2. 0 \in T
  BY <1>1
<1>3. ASSUME NEW n \in 1..N, n - 1 \in T PROVE n \in T
  <2>1. /\ ~f[n - 1].thrown /\ ~Throws(f[n - 1].v, msgs[n]) /\ f[n - 1] \in Acc
        /\ ~g[n - 1].thrown /\ ~Throws(g[n - 1].v, msgs[n]) /\ g[n - 1] \in Acc
    BY <1>1, <1>3 DEF Throws
  <2>2. /\ f[n] = [f[n - 1] EXCEPT !.v = Handled(f[n - 1].v, msgs[n])]
        /\ g[n] = [g[n - 1] EXCEPT !.v = Handled(g[n - 1].v, msgs[n])]
    BY <1>1, <2>1 DEF Taken
  <2>3. Handled(f[n - 1].v, msgs[n])[p] = Handled(g[n - 1].v, msgs[n])[p]
    BY <1>1, <1>3, <2>1, HandledAlone DEF Acc
  <2> QED BY <2>1, <2>2, <2>3 DEF Acc
<1>4. \A n \in 0..N : n \in T
  <2> HIDE DEF N, T
  <2> QED BY <1>1, <1>2, <1>3, UpTo
<1>5. f[N].v[p] = g[N].v[p]
  BY <1>1, <1>4
<1> QED BY <1>5 DEF f, g, HandledAll

-----------------------------------------------------------------------------
(* A snapshot, and the frames of a queue, handled one by one.              *)

\* The values of Moderating are what so many actions of a log make of a model.
LEMMA ModeratingSteps ==
    ASSUME NEW model \in Model, NEW actions \in Seq(ModActions)
    PROVE  /\ Moderating(model, actions)[0] = [model EXCEPT !.mods = << >>]
           /\ \A n \in 0..Len(actions) : Moderating(model, actions)[n] \in Model
           /\ \A n \in 1..Len(actions) :
                Moderating(model, actions)[n]
                  = Moderated(Moderating(model, actions)[n - 1], actions[n])
<1> DEFINE N == Len(actions)
           b == [model EXCEPT !.mods = << >>]
           f == Moderating(model, actions)
           Shaped(h) == h = [n \in 0..N |-> IF n = 0 THEN b ELSE Moderated(h[n - 1], actions[n])]
<1>1. N \in Nat /\ \A n \in 1..N : actions[n] \in ModActions
  OBVIOUS
<1>2. b \in Model
  <2>1. << >> \in Seq(ModActions)
    OBVIOUS
  <2> QED BY <2>1 DEF Model
<1>3. PICK G \in [1..N -> [Model -> Model]] :
        \A n \in 1..N : \A x \in Model : G[n][x] = Moderated(x, actions[n])
  <2> DEFINE F == [n \in 1..N |-> [x \in Model |-> Moderated(x, actions[n])]]
  <2>1. F \in [1..N -> [Model -> Model]]
    BY <1>1, ModeratedType
  <2>2. \A n \in 1..N : \A x \in Model : F[n][x] = Moderated(x, actions[n])
    OBVIOUS
  <2> HIDE DEF F
  <2> QED BY <2>1, <2>2
<1>4. PICK h : Iterates(h, Model, b, N, G)
  <2> HIDE DEF N, b
  <2> QED BY <1>1, <1>2, <1>3, Iteration
<1>5. ASSUME NEW k \in 1..N PROVE h[k] = Moderated(h[k - 1], actions[k])
  <2>1. N \in Nat
    BY <1>1
  <2> HIDE DEF N
  <2>2. k - 1 \in 0..N
    BY <2>1
  <2>3. h[k - 1] \in Model /\ h[k] = G[k][h[k - 1]]
    BY <1>4, <2>2 DEF Iterates
  <2> QED BY <1>3, <2>3
<1>6. Shaped(h)
  <2> HIDE DEF N, b
  <2> QED BY <1>1, <1>4, <1>5 DEF Iterates
<1>7. f = CHOOSE g : Shaped(g)
  BY DEF Moderating
<1>8. Shaped(f)
  <2> HIDE DEF f, Shaped
  <2> QED BY <1>6, <1>7
<1>9. f[0] = b /\ \A n \in 1..N : f[n] = Moderated(f[n - 1], actions[n])
  <2> HIDE DEF N, b, f
  <2> QED BY <1>1, <1>8
<1> DEFINE T == {n \in 0..N : f[n] \in Model}
<1>10. 0 \in T
  <2> HIDE DEF b, f
  <2> QED BY <1>1, <1>2, <1>9
<1>11. ASSUME NEW n \in 1..N, n - 1 \in T PROVE n \in T
  <2> HIDE DEF f
  <2>1. f[n - 1] \in Model /\ actions[n] \in ModActions
    BY <1>1, <1>11
  <2>2. f[n] = Moderated(f[n - 1], actions[n])
    BY <1>9
  <2> QED BY <2>1, <2>2, ModeratedType
<1>12. \A n \in 0..N : n \in T
  <2> HIDE DEF T
  <2> QED BY <1>1, <1>10, <1>11, UpTo
<1> QED BY <1>9, <1>12

\* A moderation log applied anew gives a model.
LEMMA ModeratingType ==
    ASSUME NEW model \in Model, NEW actions \in Seq(ModActions)
    PROVE  Moderating(model, actions)[Len(actions)] \in Model
<1>1. Len(actions) \in 0..Len(actions)
  BY LenProperties
<1> QED BY <1>1, ModeratingSteps

\* What a snapshot says of a recent post leaves its log.
LEMMA SyncedRecentType ==
    ASSUME NEW model \in Model, NEW e \in CachedPost
    PROVE  /\ SyncedRecent(model, e) \in Model
           /\ SyncedRecent(model, e).mods = model.mods
<1> DEFINE body == IF e.Body # << >> THEN e.Body ELSE model.body
           spoiler == model.spoiler \/ (e.Spoilered /\ model.image)
<1>1. body \in Seq(Chars) /\ spoiler \in BOOLEAN
  BY DEF Model, CachedPost
<1>2. SyncedRecent(model, e) = [model EXCEPT !.spoiler = spoiler, !.body = body]
  BY DEF SyncedRecent
<1> HIDE DEF body, spoiler
<1> QED BY <1>1, <1>2 DEF Model

\* A snapshot turns a page into one, post by post.
LEMMA SyncedType ==
    ASSUME NEW v \in Models, NEW s \in Snapshot
    PROVE  Synced(v, s) \in Models
<1>1. ASSUME NEW model \in Model, NEW e \in CachedPost
      PROVE  SyncedRecent(model, e) \in Model
  BY SyncedRecentType
<1>2. ASSUME NEW model \in Model, NEW actions \in Seq(ModActions)
      PROVE  SyncedMods(model, actions) \in Model
  BY <1>2, ModeratingType DEF SyncedMods
<1>3. ASSUME NEW p \in Posts PROVE Synced(v, s)[p] \in Model \cup {Absent}
  <2> DEFINE m == IF s.recent[p] = Absent THEN v[p] ELSE SyncedRecent(v[p], s.recent[p])
  <2>1. Synced(v, s)[p] = IF v[p] = Absent THEN Absent ELSE SyncedMods(m, s.moderation[p])
    BY DEF Synced
  <2>2. s.recent[p] \in CachedPost \cup {Absent} /\ s.moderation[p] \in Seq(ModActions)
    BY DEF Snapshot
  <2>3. v[p] # Absent => m \in Model
    BY <1>1, <2>2 DEF Models
  <2> HIDE DEF m
  <2> QED BY <1>2, <2>1, <2>2, <2>3
<1> QED BY <1>3 DEF Synced, Models

\* So does a frame.
LEMMA HandleType ==
    ASSUME NEW v \in Models, NEW frame \in Frame
    PROVE  Handle(v, frame) \in Models
<1>1. CASE frame.kind = "concat"
  <2>1. frame.msgs \in Seq(Message)
    BY <1>1 DEF Frame
  <2> QED BY <1>1, <2>1, HandledAllType DEF Handle
<1>2. CASE frame.kind # "concat"
  <2>1. frame.state \in Snapshot
    BY <1>2 DEF Frame
  <2> QED BY <1>2, <2>1, SyncedType DEF Handle
<1> QED BY <1>1, <1>2

\* The values of Delivering are what the page is after so many frames.
LEMMA DeliveringSteps ==
    ASSUME NEW v \in Models, NEW frames \in Seq(Frame)
    PROVE  /\ Delivering(v, frames)[0] = v
           /\ \A n \in 0..Len(frames) : Delivering(v, frames)[n] \in Models
           /\ \A n \in 1..Len(frames) :
                Delivering(v, frames)[n] = Handle(Delivering(v, frames)[n - 1], frames[n])
<1> DEFINE N == Len(frames)
           f == Delivering(v, frames)
           Shaped(h) == h = [n \in 0..N |-> IF n = 0 THEN v ELSE Handle(h[n - 1], frames[n])]
<1>1. N \in Nat /\ \A n \in 1..N : frames[n] \in Frame
  OBVIOUS
<1>3. PICK G \in [1..N -> [Models -> Models]] :
        \A n \in 1..N : \A x \in Models : G[n][x] = Handle(x, frames[n])
  <2> DEFINE F == [n \in 1..N |-> [x \in Models |-> Handle(x, frames[n])]]
  <2>1. F \in [1..N -> [Models -> Models]]
    BY <1>1, HandleType
  <2>2. \A n \in 1..N : \A x \in Models : F[n][x] = Handle(x, frames[n])
    OBVIOUS
  <2> HIDE DEF F
  <2> QED BY <2>1, <2>2
<1>4. PICK h : Iterates(h, Models, v, N, G)
  <2> HIDE DEF N
  <2> QED BY <1>1, <1>3, Iteration
<1>5. ASSUME NEW k \in 1..N PROVE h[k] = Handle(h[k - 1], frames[k])
  <2>1. N \in Nat
    BY <1>1
  <2> HIDE DEF N
  <2>2. k - 1 \in 0..N
    BY <2>1
  <2>3. h[k - 1] \in Models /\ h[k] = G[k][h[k - 1]]
    BY <1>4, <2>2 DEF Iterates
  <2> QED BY <1>3, <2>3
<1>6. Shaped(h)
  <2> HIDE DEF N
  <2> QED BY <1>1, <1>4, <1>5 DEF Iterates
<1>7. f = CHOOSE g : Shaped(g)
  BY DEF Delivering
<1>8. Shaped(f)
  <2> HIDE DEF f, Shaped
  <2> QED BY <1>6, <1>7
<1>9. f[0] = v /\ \A n \in 1..N : f[n] = Handle(f[n - 1], frames[n])
  <2> HIDE DEF N, f
  <2> QED BY <1>1, <1>8
<1> DEFINE T == {n \in 0..N : f[n] \in Models}
<1>10. 0 \in T
  <2> HIDE DEF f
  <2> QED BY <1>1, <1>9
<1>11. ASSUME NEW n \in 1..N, n - 1 \in T PROVE n \in T
  <2> HIDE DEF f
  <2> QED BY <1>1, <1>9, <1>11, HandleType
<1>12. \A n \in 0..N : n \in T
  <2> HIDE DEF T
  <2> QED BY <1>1, <1>10, <1>11, UpTo
<1> QED BY <1>9, <1>12

LEMMA DeliveredType ==
    ASSUME NEW v \in Models, NEW frames \in Seq(Frame)
    PROVE  Delivered(v, frames) \in Models
<1>1. Len(frames) \in 0..Len(frames)
  BY LenProperties
<1> QED BY <1>1, DeliveringSteps DEF Delivered

\* A frame at the end of a queue is handled last.
LEMMA DeliveredAppend ==
    ASSUME NEW v \in Models, NEW frames \in Seq(Frame), NEW frame \in Frame
    PROVE  Delivered(v, Append(frames, frame)) = Handle(Delivered(v, frames), frame)
<1> DEFINE N == Len(frames)
           more == Append(frames, frame)
           f == Delivering(v, frames)
           g == Delivering(v, more)
           T == {n \in 0..N : f[n] = g[n]}
<1>1. /\ N \in Nat /\ more \in Seq(Frame) /\ Len(more) = N + 1
      /\ \A n \in 1..N : more[n] = frames[n]
      /\ more[N + 1] = frame
  BY AppendProperties
<1> HIDE DEF more
<1>2. /\ f[0] = g[0]
      /\ \A n \in 1..N : f[n] = Handle(f[n - 1], frames[n])
      /\ \A n \in 1..N + 1 : g[n] = Handle(g[n - 1], more[n])
  BY <1>1, DeliveringSteps
<1> HIDE DEF f, g
<1>3. 0 \in T
  BY <1>1, <1>2
<1>4. ASSUME NEW n \in 1..N, n - 1 \in T PROVE n \in T
  <2>1. f[n - 1] = g[n - 1] /\ more[n] = frames[n]
    BY <1>1, <1>4
  <2>2. n \in 1..N + 1
    BY <1>1
  <2>3. f[n] = g[n]
    BY <1>2, <2>1, <2>2
  <2> QED BY <2>3
<1>5. \A n \in 0..N : n \in T
  <2> HIDE DEF N, T
  <2> QED BY <1>1, <1>3, <1>4, UpTo
<1>6. f[N] = g[N]
  BY <1>1, <1>5
<1>7. g[N + 1] = Handle(g[N], more[N + 1])
  <2>1. N + 1 \in 1..N + 1 /\ (N + 1) - 1 = N
    BY <1>1
  <2> HIDE DEF N
  <2> QED BY <1>2, <2>1
<1>8. g[N + 1] = Handle(f[N], frame)
  BY <1>1, <1>6, <1>7
<1> QED BY <1>1, <1>8 DEF f, g, more, Delivered

\* The frame at its head is handled first.
LEMMA DeliveredHead ==
    ASSUME NEW v \in Models, NEW frames \in Seq(Frame), frames # << >>
    PROVE  Delivered(Handle(v, Head(frames)), Tail(frames)) = Delivered(v, frames)
<1> DEFINE N == Len(frames)
           w == Handle(v, Head(frames))
           rest == Tail(frames)
           f == Delivering(v, frames)
           g == Delivering(w, rest)
           T == {n \in 0..N - 1 : f[n + 1] = g[n]}
<1>1. /\ N \in Nat /\ N > 0 /\ Head(frames) = frames[1] /\ frames[1] \in Frame
      /\ rest \in Seq(Frame) /\ Len(rest) = N - 1
      /\ \A n \in 1..N - 1 : rest[n] = frames[n + 1]
  BY HeadTailProperties, LenProperties, EmptySeq
<1>2. w \in Models
  BY <1>1, HandleType
<1> HIDE DEF rest, w
<1>3. /\ f[0] = v /\ g[0] = w
      /\ \A n \in 1..N : f[n] = Handle(f[n - 1], frames[n])
      /\ \A n \in 1..N - 1 : g[n] = Handle(g[n - 1], rest[n])
  BY <1>1, <1>2, DeliveringSteps
<1> HIDE DEF f, g
<1>4. 0 \in T
  <2>1. f[1] = Handle(f[0], frames[1])
    <3>1. 1 \in 1..N /\ 1 - 1 = 0
      BY <1>1
    <3> QED BY <1>3, <3>1
  <2>2. f[0 + 1] = g[0]
    BY <1>1, <1>3, <2>1 DEF w
  <2> QED BY <1>1, <2>2
<1>5. ASSUME NEW n \in 1..N - 1, n - 1 \in T PROVE n \in T
  <2>1. (n - 1) + 1 = n /\ n + 1 \in 1..N /\ (n + 1) - 1 = n
    BY <1>1
  <2>2. f[n] = g[n - 1] /\ rest[n] = frames[n + 1]
    BY <1>1, <1>5, <2>1
  <2>3. f[n + 1] = Handle(f[n], frames[n + 1])
    BY <1>3, <2>1
  <2>4. f[n + 1] = g[n]
    BY <1>3, <2>2, <2>3
  <2> QED BY <1>1, <2>4
<1>6. \A n \in 0..N - 1 : n \in T
  <2>1. N - 1 \in Nat
    BY <1>1
  <2> HIDE DEF N, T
  <2> QED BY <2>1, <1>4, <1>5, UpTo
<1>7. N - 1 \in 0..N - 1 /\ (N - 1) + 1 = N
  BY <1>1
<1>8. f[N] = g[N - 1]
  BY <1>6, <1>7
<1> QED BY <1>1, <1>8 DEF f, g, w, rest, Delivered

\* Without spoilers, what becomes of a post hangs on its own model alone.
LEMMA DeliveredAlone ==
    ASSUME NEW v \in Models, NEW w \in Models, NEW p \in Posts, v[p] = w[p],
           NEW frames \in Seq(Frame),
           \A i \in DOMAIN frames : frames[i].kind = "concat" => ~HasSpoiler(frames[i].msgs)
    PROVE  Delivered(v, frames)[p] = Delivered(w, frames)[p]
<1> DEFINE N == Len(frames)
           f == Delivering(v, frames)
           g == Delivering(w, frames)
           T == {n \in 0..N : f[n][p] = g[n][p]}
<1>1. /\ N \in Nat
      /\ \A n \in 1..N : frames[n] \in Frame
      /\ \A n \in 1..N : frames[n].kind = "concat" => ~HasSpoiler(frames[n].msgs)
      /\ \A n \in 0..N : f[n] \in Models /\ g[n] \in Models
      /\ f[0] = v /\ g[0] = w
      /\ \A n \in 1..N : f[n] = Handle(f[n - 1], frames[n])
      /\ \A n \in 1..N : g[n] = Handle(g[n - 1], frames[n])
  BY DeliveringSteps
<1> HIDE DEF f, g
<1>2. 0 \in T
  BY <1>1
<1>3. ASSUME NEW n \in 1..N, n - 1 \in T PROVE n \in T
  <2>1. f[n - 1] \in Models /\ g[n - 1] \in Models /\ f[n - 1][p] = g[n - 1][p]
    BY <1>1, <1>3
  <2>2. Handle(f[n - 1], frames[n])[p] = Handle(g[n - 1], frames[n])[p]
    <3>1. CASE frames[n].kind = "concat"
      <4>1. frames[n].msgs \in Seq(Message) /\ ~HasSpoiler(frames[n].msgs)
        BY <1>1, <3>1 DEF Frame
      <4> QED BY <2>1, <3>1, <4>1, HandledAllAlone DEF Handle
    <3>2. CASE frames[n].kind # "concat"
      BY <2>1, <3>2 DEF Handle, Synced
    <3> QED BY <3>1, <3>2
  <2>3. f[n][p] = g[n][p]
    BY <1>1, <2>2
  <2> QED BY <2>3
<1>4. \A n \in 0..N : n \in T
  <2> HIDE DEF N, T
  <2> QED BY <1>1, <1>2, <1>3, UpTo
<1>5. f[N][p] = g[N][p]
  BY <1>1, <1>4
<1> QED BY <1>5 DEF f, g, Delivered

-----------------------------------------------------------------------------
(* The feed inside the system.                                             *)

\* Whatever queues and browsers do, the feed behaves as ThreadFeed says: what
\* holds of that, holds here.
THEOREM ReplicaKeepsFeed == ReplicaSpec => Spec
<1>1. ReplicaInit => Init
  BY DEF ReplicaInit
<1>2. [ReplicaNext]_allVars => [Next]_vars
  <2> SUFFICES ASSUME [ReplicaNext]_allVars PROVE [Next]_vars
    OBVIOUS
  <2>1. ASSUME NEW c \in Clients, Join(c) \/ Leave(c)
        PROVE  Next
    BY <2>1 DEF Join, Leave, Next, Subscribe, Unsubscribe
  <2>2. ASSUME NEW c \in Readers, LoadPage(c) \/ Receive(c)
        PROVE  UNCHANGED vars
    BY <2>2 DEF LoadPage, Receive, vars
  <2>3. ASSUME NEW c \in Readers, NEW p \in Posts, Answer(c, p)
        PROVE  UNCHANGED vars
    BY <2>3 DEF Answer, vars
  <2>4. CASE Broadcast
    BY <2>4 DEF Broadcast, Next
  <2>5. CASE Evict \/ Clock \/ \E p \in Posts : ChangePost(p)
    BY <2>5 DEF Next
  <2>6. CASE UNCHANGED allVars
    BY <2>6 DEF allVars, vars
  <2> QED BY <2>1, <2>2, <2>3, <2>4, <2>5, <2>6 DEF ReplicaNext
<1> QED BY <1>1, <1>2, PTL DEF ReplicaSpec, Spec

\* A frame sent to some clients is at the end of their queues, or lost.
LEMMA SendType ==
    ASSUME ReplicaTypeOK, NEW cs, NEW frame \in Frame, Send(cs, frame)
    PROVE  /\ queue' \in [Readers -> Seq(Frame)]
           /\ \A c \in Readers : Len(queue'[c]) <= SendCap
           /\ lost' \subseteq Readers
<1>1. \A c \in Readers : queue[c] \in Seq(Frame) /\ Len(queue[c]) <= SendCap
  BY DEF ReplicaTypeOK
<1>2. ASSUME NEW c \in Readers
      PROVE  queue'[c] \in Seq(Frame) /\ Len(queue'[c]) <= SendCap
  <2>1. CASE c \in cs /\ ~Full(c)
    <3>1. queue'[c] = Append(queue[c], frame)
      BY <2>1 DEF Send
    <3>2. Len(queue[c]) < SendCap /\ Len(queue[c]) \in Nat /\ SendCap \in Nat
      BY <1>1, <2>1, ReplicaAssumption DEF Full
    <3>3. Append(queue[c], frame) \in Seq(Frame)
          /\ Len(Append(queue[c], frame)) = Len(queue[c]) + 1
      BY <1>1, AppendProperties
    <3> QED BY <3>1, <3>2, <3>3
  <2>2. CASE ~(c \in cs /\ ~Full(c))
    BY <1>1, <2>2 DEF Send
  <2> QED BY <2>1, <2>2
<1>3. queue' \in [Readers -> Seq(Frame)]
  BY <1>2 DEF Send
<1>4. lost' \subseteq Readers
  BY DEF Send, ReplicaTypeOK
<1> QED BY <1>2, <1>3, <1>4

\* A page rendered of rows is one.
LEMMA RenderedType ==
    ASSUME TypeOK
    PROVE  Rendered \in Models
<1>1. \A p \in Posts : FromRow(post[p]) \in Model
  BY FromType DEF TypeOK
<1> QED BY <1>1 DEF Rendered, Models

\* So is what a fetch leaves of a post.
LEMMA FetchedType ==
    ASSUME NEW model \in Model \cup {Absent}, NEW row \in PostRow, NEW fetch \in Fetch
    PROVE  Fetched(model, row, fetch) \in Model
<1>1. FromRow(row) \in Model
  BY FromType
<1>2. CASE fetch.why = "missing"
  <2> DEFINE m == IF model = Absent THEN FromRow(row) ELSE model
             body == IF fetch.body # << >> THEN fetch.body ELSE m.body
  <2>1. m \in Model
    BY <1>1
  <2>2. fetch.body \in Seq(Chars)
    BY <1>2 DEF Fetch
  <2>3. body \in Seq(Chars)
    BY <2>1, <2>2 DEF Model
  <2>4. Fetched(model, row, fetch) = [m EXCEPT !.body = body]
    BY <1>2 DEF Fetched
  <2> HIDE DEF m, body
  <2> QED BY <2>1, <2>3, <2>4 DEF Model
<1>3. CASE fetch.why # "missing"
  <2> DEFINE image == FromRow(row).image \/ model.image
  <2>1. image \in BOOLEAN
    OBVIOUS
  <2>2. Fetched(model, row, fetch) = [FromRow(row) EXCEPT !.image = image]
    BY <1>3 DEF Fetched
  <2> HIDE DEF image
  <2> QED BY <1>1, <2>1, <2>2 DEF Model
<1> QED BY <1>2, <1>3

LEMMA ReplicaTypeInit ==
    ASSUME TypeOK, ReplicaInit
    PROVE  ReplicaTypeOK
<1>1. << >> \in Seq(Frame) /\ Len(<< >>) <= SendCap
  BY ReplicaAssumption
<1>2. queue \in [Readers -> Seq(Frame)] /\ \A c \in Readers : Len(queue[c]) <= SendCap
  BY <1>1 DEF ReplicaInit
<1>3. page \in [Readers -> Models]
  BY RenderedType DEF ReplicaInit
<1>4. fetching \in [Readers -> [Posts -> Fetch \cup {NoFetch}]]
  BY DEF ReplicaInit
<1>5. lost \subseteq Readers
  BY DEF ReplicaInit
<1> QED BY <1>2, <1>3, <1>4, <1>5 DEF ReplicaTypeOK, Models

LEMMA ReplicaTypeStep ==
    ASSUME TypeOK, TypeOK', ReplicaTypeOK, [ReplicaNext]_allVars
    PROVE  ReplicaTypeOK'
<1>1. /\ queue \in [Readers -> Seq(Frame)]
      /\ \A c \in Readers : Len(queue[c]) <= SendCap
      /\ lost \subseteq Readers
      /\ page \in [Readers -> Models]
      /\ fetching \in [Readers -> [Posts -> Fetch \cup {NoFetch}]]
  BY DEF ReplicaTypeOK, Models
<1>2. ASSUME /\ queue' \in [Readers -> Seq(Frame)]
             /\ \A c \in Readers : Len(queue'[c]) <= SendCap
             /\ lost' \subseteq Readers,
             page' \in [Readers -> Models],
             fetching' \in [Readers -> [Posts -> Fetch \cup {NoFetch}]]
      PROVE  ReplicaTypeOK'
  BY <1>2 DEF ReplicaTypeOK, Models
<1>3. ASSUME NEW c \in Clients, Join(c)
      PROVE  ReplicaTypeOK'
  <2>1. memoized' \in Snapshot
    <3>1. memoized' = IF memoized # NoSnapshot THEN memoized ELSE State(recent', moderation')
      BY <1>3 DEF Join, AddToFeed
    <3>2. State(recent', moderation') \in Snapshot
      BY DEF State, Snapshot, TypeOK
    <3>3. memoized \in Snapshot \cup {NoSnapshot}
      BY DEF TypeOK
    <3> QED BY <3>1, <3>2, <3>3
  <2> DEFINE frame == [kind |-> "synchronise", state |-> memoized']
  <2>2. frame \in Frame
    BY <2>1 DEF Frame
  <2>3. Send({c}, frame) /\ UNCHANGED <<page, fetching>>
    BY <1>3 DEF Join
  <2> HIDE DEF frame
  <2>4. /\ queue' \in [Readers -> Seq(Frame)]
        /\ \A r \in Readers : Len(queue'[r]) <= SendCap
        /\ lost' \subseteq Readers
    BY <2>2, <2>3, SendType
  <2> QED BY <1>1, <1>2, <2>3, <2>4
<1>4. ASSUME NEW c \in Clients, Leave(c)
      PROVE  ReplicaTypeOK'
  <2>1. /\ queue' = [r \in Readers |-> IF r = c THEN << >> ELSE queue[r]]
        /\ lost' = lost \ {c}
        /\ UNCHANGED <<page, fetching>>
    BY <1>4 DEF Leave
  <2>2. << >> \in Seq(Frame) /\ Len(<< >>) <= SendCap
    BY ReplicaAssumption
  <2> QED BY <1>1, <1>2, <2>1, <2>2
<1>5. ASSUME NEW c \in Readers, LoadPage(c)
      PROVE  ReplicaTypeOK'
  <2>1. /\ page' = [page EXCEPT ![c] = Rendered]
        /\ fetching' = [fetching EXCEPT ![c] = [p \in Posts |-> NoFetch]]
        /\ UNCHANGED <<queue, lost>>
    BY <1>5 DEF LoadPage
  <2>2. page' \in [Readers -> Models]
    BY <1>1, <2>1, RenderedType
  <2>3. fetching' \in [Readers -> [Posts -> Fetch \cup {NoFetch}]]
    BY <1>1, <2>1
  <2> QED BY <1>1, <1>2, <2>1, <2>2, <2>3
<1>6. ASSUME NEW c \in Readers, Receive(c)
      PROVE  ReplicaTypeOK'
  <2> DEFINE frame == Head(queue[c])
  <2>1. /\ queue[c] # << >>
        /\ page' = [page EXCEPT ![c] = Handle(page[c], frame)]
        /\ fetching' = IF frame.kind = "concat" THEN fetching
                       ELSE [fetching EXCEPT ![c] = Fetches(page[c], frame.state, fetching[c])]
        /\ queue' = [queue EXCEPT ![c] = Tail(queue[c])]
        /\ UNCHANGED lost
    BY <1>6 DEF Receive
  <2>2. /\ frame \in Frame /\ Tail(queue[c]) \in Seq(Frame)
        /\ Len(Tail(queue[c])) = Len(queue[c]) - 1
        /\ Len(queue[c]) \in Nat
    BY <1>1, <2>1, HeadTailProperties
  <2> HIDE DEF frame
  <2>3. page' \in [Readers -> Models]
    BY <1>1, <2>1, <2>2, HandleType
  <2>4. fetching' \in [Readers -> [Posts -> Fetch \cup {NoFetch}]]
    <3>1. CASE frame.kind # "concat"
      <4>1. frame.state \in Snapshot
        BY <2>2, <3>1 DEF Frame
      <4>2. ASSUME NEW p \in Posts
            PROVE  Fetches(page[c], frame.state, fetching[c])[p] \in Fetch \cup {NoFetch}
        <5>1. CASE Missing(page[c], frame.state, p)
          <6>1. frame.state.recent[p] \in CachedPost
            BY <4>1, <5>1 DEF Missing, Snapshot
          <6>2. [why |-> "missing", body |-> frame.state.recent[p].Body] \in Fetch
            BY <6>1 DEF CachedPost, Fetch
          <6>3. Fetches(page[c], frame.state, fetching[c])[p]
                  = [why |-> "missing", body |-> frame.state.recent[p].Body]
            <7>1. ~Unclosed(page[c], frame.state, p)
              BY <5>1 DEF Missing, Unclosed
            <7> QED BY <5>1, <7>1 DEF Fetches
          <6> QED BY <6>2, <6>3
        <5>2. CASE ~Missing(page[c], frame.state, p) /\ Unclosed(page[c], frame.state, p)
          <6>1. [why |-> "unclosed"] \in Fetch
            BY DEF Fetch
          <6> QED BY <5>2, <6>1 DEF Fetches
        <5>3. CASE ~Missing(page[c], frame.state, p) /\ ~Unclosed(page[c], frame.state, p)
          BY <1>1, <5>3 DEF Fetches
        <5> QED BY <5>1, <5>2, <5>3
      <4>3. Fetches(page[c], frame.state, fetching[c]) \in [Posts -> Fetch \cup {NoFetch}]
        BY <4>2 DEF Fetches
      <4> QED BY <1>1, <2>1, <3>1, <4>3
    <3> QED BY <1>1, <2>1, <3>1
  <2>5. queue' \in [Readers -> Seq(Frame)] /\ \A r \in Readers : Len(queue'[r]) <= SendCap
    <3>1. Len(Tail(queue[c])) <= SendCap
      BY <1>1, <2>2, ReplicaAssumption
    <3> QED BY <1>1, <2>1, <2>2, <3>1
  <2> QED BY <1>1, <1>2, <2>1, <2>3, <2>4, <2>5
<1>7. ASSUME NEW c \in Readers, NEW p \in Posts, Answer(c, p)
      PROVE  ReplicaTypeOK'
  <2> DEFINE m == Fetched(page[c][p], post[p], fetching[c][p])
  <2>1. /\ fetching[c][p] # NoFetch
        /\ page' = [page EXCEPT ![c][p] = m]
        /\ fetching' = [fetching EXCEPT ![c][p] = NoFetch]
        /\ UNCHANGED <<queue, lost>>
    BY <1>7 DEF Answer
  <2>2. fetching[c][p] \in Fetch /\ page[c][p] \in Model \cup {Absent} /\ post[p] \in PostRow
    BY <1>1, <2>1 DEF Models, TypeOK
  <2>3. m \in Model
    BY <2>2, FetchedType
  <2> HIDE DEF m
  <2>4. page' \in [Readers -> Models]
    BY <1>1, <2>1, <2>3 DEF Models
  <2>5. fetching' \in [Readers -> [Posts -> Fetch \cup {NoFetch}]]
    BY <1>1, <2>1
  <2> QED BY <1>1, <1>2, <2>1, <2>4, <2>5
<1>8. CASE Broadcast
  <2> DEFINE frame == [kind |-> "concat", msgs |-> buffer]
  <2>1. frame \in Frame
    BY DEF Frame, TypeOK
  <2>2. CASE buffer # << >>
    <3>1. Send(members, frame) /\ UNCHANGED <<page, fetching>>
      BY <1>8, <2>2 DEF Broadcast
    <3> HIDE DEF frame
    <3>2. /\ queue' \in [Readers -> Seq(Frame)]
          /\ \A r \in Readers : Len(queue'[r]) <= SendCap
          /\ lost' \subseteq Readers
      BY <2>1, <3>1, SendType
    <3> QED BY <1>1, <1>2, <3>1, <3>2
  <2>3. CASE buffer = << >>
    BY <1>1, <1>2, <1>8, <2>3 DEF Broadcast, browserVars
  <2> QED BY <2>2, <2>3
<1>9. CASE UNCHANGED browserVars
  BY <1>1, <1>2, <1>9 DEF browserVars
<1> QED BY <1>3, <1>4, <1>5, <1>6, <1>7, <1>8, <1>9 DEF ReplicaNext, allVars

\* What is under way to a browser, its page and its fetches have their types, and
\* no queue outgrows its capacity (websockets.go:230-237), whatever is sent,
\* received, answered, lost and loaded anew.
THEOREM ReplicaTypeCorrect == ReplicaSpec => []ReplicaTypeOK
<1>1. TypeOK /\ ReplicaInit => ReplicaTypeOK
  BY ReplicaTypeInit
<1>2. TypeOK /\ TypeOK' /\ ReplicaTypeOK /\ [ReplicaNext]_allVars => ReplicaTypeOK'
  BY ReplicaTypeStep
<1> QED BY <1>1, <1>2, ReplicaKeepsFeed, TypeCorrect, PTL DEF ReplicaSpec

-----------------------------------------------------------------------------
(* The page and the mirror.                                                *)

\* The row has been purged.
Purged(row) == \E i \in DOMAIN row.mods : row.mods[i] \in {"purgePost"}

\* An entry that has its row's creation time is no zero value and, unless the
\* post has been purged, has its text and its state.
Faithful(row, entry) ==
    /\ row.state = "none" => entry = Absent
    /\ row.state # "none" => row.time > 0
    /\ entry # Absent /\ entry.Time = row.time /\ ~Purged(row)
         => entry.Body = row.body /\ entry.Closed = (row.state = "closed")

MirrorInv ==
    /\ now > Retention
    /\ ~running => \A p \in Posts : recent[p] = Absent
    /\ \A p \in Posts : Faithful(post[p], recent[p])

LEMMA FaithfulCached ==
    ASSUME NEW r \in PostRow, r.state # "none", r.time > 0
    PROVE  Faithful(r, Cached(r))
BY DEF Faithful, Cached

\* A change of a row and its entry, that may be the zero value, keeps this.
LEMMA FaithfulChange ==
    ASSUME TypeOK, NEW p \in Posts, Faithful(post[p], recent[p]), post[p].state # "none",
           NEW r \in PostRow, NEW e \in CachedPost,
           r.state # "none", r.time = post[p].time, e.Time = Entry(p).Time,
           ~Purged(r) => /\ ~Purged(post[p])
                         /\ Entry(p).Body = post[p].body => e.Body = r.body
                         /\ Entry(p).Closed = (post[p].state = "closed")
                              => e.Closed = (r.state = "closed")
    PROVE  Faithful(r, e)
<1>1. post[p].time > 0
  BY DEF Faithful
<1>2. ASSUME e.Time = r.time, ~Purged(r)
      PROVE  e.Body = r.body /\ e.Closed = (r.state = "closed")
  <2>1. recent[p] # Absent
    BY <1>1, <1>2 DEF Entry, ZeroPost
  <2>2. recent[p].Body = post[p].body /\ recent[p].Closed = (post[p].state = "closed")
    BY <1>2, <2>1 DEF Faithful, Entry
  <2> QED BY <1>2, <2>1, <2>2 DEF Entry
<1> QED BY <1>1, <1>2 DEF Faithful

\* A moderation other than a purge leaves the text and the state.
LEMMA ModeratedTexts ==
    ASSUME NEW r \in PostRow, NEW e \in CachedPost, NEW action \in ModActions,
           action # "purgePost"
    PROVE  /\ ModeratedRow(r, action).body = r.body
           /\ ModeratedEntry(e, action).Body = e.Body
           /\ ModeratedEntry(e, action).Closed = e.Closed
<1> DEFINE logged == [r EXCEPT !.mods = Append(@, action)]
<1>1. logged \in PostRow /\ logged.body = r.body
  <2>1. Append(r.mods, action) \in Seq(ModActions)
    BY DEF PostRow
  <2> QED BY <2>1 DEF PostRow
<1>2. /\ action = "deletePost" => ModeratedRow(r, action) = logged
      /\ action = "spoilerImage" => ModeratedRow(r, action) = [logged EXCEPT !.spoiler = TRUE]
      /\ action = "deleteImage" => ModeratedRow(r, action) = [logged EXCEPT !.image = FALSE]
  BY DEF ModeratedRow
<1> HIDE DEF logged
<1>3. ModeratedRow(r, action).body = r.body
  BY <1>1, <1>2 DEF ModActions, PostRow
<1>4. ModeratedEntry(e, action).Body = e.Body /\ ModeratedEntry(e, action).Closed = e.Closed
  BY DEF ModeratedEntry, ModActions, CachedPost
<1> QED BY <1>3, <1>4

\* A log grows: what was in it stays.
LEMMA LoggedMore ==
    ASSUME NEW r \in PostRow, NEW s \in PostRow, NEW action \in ModActions,
           s.mods = Append(r.mods, action)
    PROVE  ~Purged(s) => action # "purgePost" /\ ~Purged(r)
<1>1. r.mods \in Seq(ModActions)
  BY DEF PostRow
<1>2. /\ Len(s.mods) = Len(r.mods) + 1 /\ s.mods[Len(r.mods) + 1] = action
      /\ \A i \in 1..Len(r.mods) : s.mods[i] = r.mods[i]
      /\ s.mods \in Seq(ModActions) /\ Len(r.mods) \in Nat
  BY <1>1, AppendProperties
<1>3. DOMAIN s.mods = 1..Len(r.mods) + 1 /\ DOMAIN r.mods = 1..Len(r.mods)
  BY <1>1, <1>2
<1>4. Len(r.mods) + 1 \in DOMAIN s.mods
  BY <1>2, <1>3
<1> QED BY <1>2, <1>3, <1>4 DEF Purged

\* What a change of one post does to the mirror.
MirrorFrame(p) ==
    /\ \A q \in Posts \ {p} : post'[q] = post[q] /\ recent'[q] = recent[q]
    /\ ~running => recent' = recent
    /\ Faithful(post'[p], recent'[p])

LEMMA MirrorChanged ==
    ASSUME TypeOK, NEW p \in Posts, NEW r \in PostRow, NEW e \in CachedPost,
           post' = [post EXCEPT ![p] = r], Faithful(r, e), r.state # "none", MirrorInv,
           recent' = IF running THEN [recent EXCEPT ![p] = e] ELSE recent
    PROVE  MirrorFrame(p)
<1>1. post'[p] = r /\ \A q \in Posts \ {p} : post'[q] = post[q]
  BY DEF TypeOK
<1>2. /\ running => recent'[p] = e
      /\ \A q \in Posts \ {p} : recent'[q] = recent[q]
      /\ ~running => recent' = recent /\ recent[p] = Absent
  BY DEF TypeOK, MirrorInv
<1>3. CASE running
  BY <1>1, <1>2, <1>3 DEF MirrorFrame
<1>4. CASE ~running
  BY <1>1, <1>2, <1>4 DEF MirrorFrame, Faithful
<1> QED BY <1>3, <1>4

LEMMA ChangePostMirror ==
    ASSUME TypeOK, MirrorInv, NEW p \in Posts, ChangePost(p)
    PROVE  MirrorFrame(p)
<1>1. /\ post[p] \in PostRow /\ Entry(p) \in CachedPost /\ Faithful(post[p], recent[p])
      /\ now > 0
  BY EntryType, ConstantsAssumption DEF TypeOK, MirrorInv
<1>2. ASSUME NEW row \in NewRows, InsertPost(p, row)
      PROVE  MirrorFrame(p)
  <2>1. /\ row \in PostRow /\ row.state # "none" /\ row.time = now
        /\ Cached(row) \in CachedPost
    BY NewRowType, CachedType DEF NewRows
  <2>2. Faithful(row, Cached(row))
    BY <1>1, <2>1, FaithfulCached
  <2>3. /\ post' = [post EXCEPT ![p] = row]
        /\ recent' = IF running THEN [recent EXCEPT ![p] = Cached(row)] ELSE recent
    BY <1>2 DEF InsertPost, IfRunning, SetEntry
  <2> QED BY <2>1, <2>2, <2>3, MirrorChanged
<1>3. CASE Reclaim(p)
  <2>1. /\ post[p].state # "none" /\ running
        /\ post' = post /\ recent' = [recent EXCEPT ![p] = Cached(post[p])]
    BY <1>3 DEF Reclaim, SetEntry
  <2>2. post[p].time > 0 /\ Cached(post[p]) \in CachedPost
    BY <1>1, <2>1, CachedType DEF Faithful
  <2>3. Faithful(post[p], Cached(post[p]))
    BY <1>1, <2>1, <2>2, FaithfulCached
  <2>4. post' = [post EXCEPT ![p] = post[p]]
    BY <2>1 DEF TypeOK
  <2> QED BY <1>1, <2>1, <2>2, <2>3, <2>4, MirrorChanged
<1>4. CASE EditBody(p)
  <2>1. PICK body \in Seq(Chars), msg \in Message : SetOpenBody(p, body, msg)
    BY <1>4, EditBodyType
  <2> DEFINE r == [post[p] EXCEPT !.body = body]
             e == [Entry(p) EXCEPT !.Body = body]
  <2>2. /\ post[p].state = "open" /\ running
        /\ post' = [post EXCEPT ![p] = r]
        /\ recent' = [recent EXCEPT ![p] = e]
    BY <2>1 DEF SetOpenBody, Editable, ModifyPost, SetEntry
  <2>3. /\ r \in PostRow /\ r.state = post[p].state /\ r.time = post[p].time
        /\ r.body = body /\ r.mods = post[p].mods
    BY <1>1 DEF PostRow
  <2>4. e \in CachedPost /\ e.Time = Entry(p).Time /\ e.Body = body /\ e.Closed = Entry(p).Closed
    BY <1>1 DEF CachedPost
  <2> HIDE DEF r, e
  <2>5. Faithful(r, e)
    BY <1>1, <2>2, <2>3, <2>4, FaithfulChange DEF Purged
  <2> QED BY <2>2, <2>3, <2>4, <2>5, MirrorChanged
<1>5. ASSUME NEW spoiler \in BOOLEAN, InsertImage(p, spoiler)
      PROVE  MirrorFrame(p)
  <2> DEFINE r == [post[p] EXCEPT !.image = TRUE, !.spoiler = spoiler]
             e == [Entry(p) EXCEPT !.HasImage = TRUE, !.Spoilered = spoiler]
  <2>2. /\ post[p].state = "open" /\ running
        /\ post' = [post EXCEPT ![p] = r]
        /\ recent' = [recent EXCEPT ![p] = e]
    BY <1>1, <1>5 DEF InsertImage, Editable, ModifyPost, SetEntry, TypeOK, PostRow
  <2>3. /\ r \in PostRow /\ r.state = post[p].state /\ r.time = post[p].time
        /\ r.body = post[p].body /\ r.mods = post[p].mods
    BY <1>1 DEF PostRow
  <2>4. /\ e \in CachedPost /\ e.Time = Entry(p).Time
        /\ e.Body = Entry(p).Body /\ e.Closed = Entry(p).Closed
    BY <1>1 DEF CachedPost
  <2> HIDE DEF r, e
  <2>5. Faithful(r, e)
    BY <1>1, <2>2, <2>3, <2>4, FaithfulChange DEF Purged
  <2> QED BY <2>2, <2>3, <2>4, <2>5, MirrorChanged
<1>6. CASE SpoilerImage(p)
  <2> DEFINE r == [post[p] EXCEPT !.spoiler = TRUE]
             e == [Entry(p) EXCEPT !.Spoilered = TRUE]
  <2>2. /\ post[p].state = "open" /\ running
        /\ post' = [post EXCEPT ![p] = r]
        /\ recent' = [recent EXCEPT ![p] = e]
    BY <1>6 DEF SpoilerImage, Editable, ModifyPost, SetEntry
  <2>3. /\ r \in PostRow /\ r.state = post[p].state /\ r.time = post[p].time
        /\ r.body = post[p].body /\ r.mods = post[p].mods
    BY <1>1 DEF PostRow
  <2>4. /\ e \in CachedPost /\ e.Time = Entry(p).Time
        /\ e.Body = Entry(p).Body /\ e.Closed = Entry(p).Closed
    BY <1>1 DEF CachedPost
  <2> HIDE DEF r, e
  <2>5. Faithful(r, e)
    BY <1>1, <2>2, <2>3, <2>4, FaithfulChange DEF Purged
  <2> QED BY <2>2, <2>3, <2>4, <2>5, MirrorChanged
<1>7. CASE ClosePost(p)
  <2> DEFINE r == [post[p] EXCEPT !.state = "closed"]
             e == [Entry(p) EXCEPT !.Closed = TRUE]
  <2>2. /\ post[p].state = "open"
        /\ post' = [post EXCEPT ![p] = r]
        /\ recent' = IF running THEN [recent EXCEPT ![p] = e] ELSE recent
    BY <1>7 DEF ClosePost, IfRunning, ModifyPost, SetEntry
  <2>3. /\ r \in PostRow /\ r.state = "closed" /\ r.time = post[p].time
        /\ r.body = post[p].body /\ r.mods = post[p].mods
    BY <1>1 DEF PostRow
  <2>4. /\ e \in CachedPost /\ e.Time = Entry(p).Time
        /\ e.Body = Entry(p).Body /\ e.Closed = TRUE
    BY <1>1 DEF CachedPost
  <2> HIDE DEF r, e
  <2>5. Faithful(r, e)
    BY <1>1, <2>2, <2>3, <2>4, FaithfulChange DEF Purged
  <2> QED BY <2>2, <2>3, <2>4, <2>5, MirrorChanged
<1>8. ASSUME NEW action \in ModActions, ModeratePost(p, action)
      PROVE  MirrorFrame(p)
  <2> DEFINE r == ModeratedRow(post[p], action)
             e == ModeratedEntry(Entry(p), action)
  <2>2. /\ post[p].state # "none"
        /\ post' = [post EXCEPT ![p] = r]
        /\ recent' = IF running THEN [recent EXCEPT ![p] = e] ELSE recent
    BY <1>8 DEF ModeratePost, IfRunning, SetEntry
  <2>3. /\ r \in PostRow /\ r.state = post[p].state /\ r.time = post[p].time
        /\ r.mods = Append(post[p].mods, action)
    BY <1>1, ModeratedRowType
  <2>4. e \in CachedPost /\ e.Time = Entry(p).Time
    BY <1>1, ModeratedEntryType
  <2>5. action # "purgePost" => /\ r.body = post[p].body /\ e.Body = Entry(p).Body
                                /\ e.Closed = Entry(p).Closed
    BY <1>1, ModeratedTexts
  <2> HIDE DEF r, e
  <2>6. ~Purged(r) => action # "purgePost" /\ ~Purged(post[p])
    BY <1>1, <2>3, LoggedMore
  <2>7. Faithful(r, e)
    BY <1>1, <2>2, <2>3, <2>4, <2>5, <2>6, FaithfulChange
  <2> QED BY <2>2, <2>3, <2>4, <2>7, MirrorChanged
<1> QED BY ConstantsAssumption, <1>2, <1>3, <1>4, <1>5, <1>6, <1>7, <1>8
        DEF ChangePost, EditBody

LEMMA MirrorHolds == Spec => []MirrorInv
<1>1. Init => MirrorInv
  <2> SUFFICES ASSUME Init PROVE MirrorInv
    OBVIOUS
  <2>1. ASSUME NEW p \in Posts PROVE Faithful(post[p], recent[p])
    <3>1. recent[p] = Absent
      BY DEF Init
    <3>2. post[p].state # "none" => post[p].time > 0
      <4>1. CASE p = OP
        <5>1. post[p] = [NoRow EXCEPT !.state = "closed", !.image = ~TextOnly,
                                      !.time = Retention + 1]
          BY <4>1 DEF Init
        <5> QED BY <5>1, ConstantsAssumption DEF NoRow
      <4>2. CASE p # OP
        BY <4>2 DEF Init, NoRow
      <4> QED BY <4>1, <4>2
    <3> QED BY <3>1, <3>2 DEF Faithful
  <2>2. now > Retention
    BY ConstantsAssumption DEF Init
  <2> QED BY <2>1, <2>2 DEF MirrorInv, Init
<1>2. TypeOK /\ MirrorInv /\ [Next]_vars => MirrorInv'
  <2> SUFFICES ASSUME TypeOK, MirrorInv, [Next]_vars PROVE MirrorInv'
    OBVIOUS
  <2>0. /\ now > Retention /\ Retention \in Nat /\ now \in Nat
        /\ ~running => \A p \in Posts : recent[p] = Absent
        /\ \A p \in Posts : Faithful(post[p], recent[p]) /\ post[p] \in PostRow
    BY ConstantsAssumption DEF MirrorInv, TypeOK
  <2>1. ASSUME NEW c \in Clients, AddToFeed(c)
        PROVE  MirrorInv'
    <3>1. running' = TRUE /\ UNCHANGED <<now, post>>
          /\ recent' = IF running THEN recent ELSE LoadRecent
      BY <2>1 DEF AddToFeed
    <3>2. ASSUME NEW p \in Posts PROVE Faithful(post[p], LoadRecent[p])
      <4>1. post[p].state # "none" => Faithful(post[p], Cached(post[p]))
        BY <2>0, FaithfulCached DEF Faithful
      <4>2. Faithful(post[p], Absent)
        BY <2>0 DEF Faithful
      <4> QED BY <4>1, <4>2 DEF LoadRecent
    <3>3. \A p \in Posts : Faithful(post'[p], recent'[p])
      BY <2>0, <3>1, <3>2
    <3> QED BY <2>0, <3>1, <3>3 DEF MirrorInv
  <2>2. ASSUME NEW c \in Clients, RemoveFromFeed(c)
        PROVE  MirrorInv'
    <3>1. UNCHANGED <<now, post>>
      BY <2>2 DEF RemoveFromFeed
    <3>2. CASE LoopExits(members')
      <4>1. \A p \in Posts : recent'[p] = Absent
        BY <2>2, <3>2 DEF RemoveFromFeed, ResetFeed
      <4>2. \A p \in Posts : Faithful(post'[p], recent'[p])
        BY <2>0, <3>1, <4>1 DEF Faithful
      <4> QED BY <2>0, <3>1, <4>1, <4>2 DEF MirrorInv
    <3>3. CASE ~LoopExits(members')
      <4>1. UNCHANGED <<running, recent>>
        BY <2>2, <3>3 DEF RemoveFromFeed
      <4> QED BY <2>0, <3>1, <4>1 DEF MirrorInv
    <3> QED BY <3>2, <3>3
  <2>3. CASE Flush \/ UNCHANGED vars
    BY <2>0, <2>3 DEF Flush, vars, MirrorInv
  <2>4. CASE Clock
    BY <2>0, <2>4 DEF Clock, MirrorInv
  <2>5. CASE Evict
    <3>1. UNCHANGED <<running, now, post>> /\ running
      BY <2>5 DEF Evict
    <3>2. ASSUME NEW p \in Posts PROVE Faithful(post'[p], recent'[p])
      <4>1. recent'[p] \in {Absent, recent[p]}
        BY <2>5 DEF Evict
      <4>2. Faithful(post[p], Absent)
        BY <2>0 DEF Faithful
      <4> QED BY <2>0, <3>1, <4>1, <4>2
    <3> QED BY <2>0, <3>1, <3>2 DEF MirrorInv
  <2>6. ASSUME NEW p \in Posts, ChangePost(p)
        PROVE  MirrorInv'
    <3>1. MirrorFrame(p) /\ UNCHANGED <<running, now>>
      BY <2>6, ChangePostMirror, ChangePostFrame DEF ChangeFrame
    <3>2. \A q \in Posts : Faithful(post'[q], recent'[q])
      BY <2>0, <3>1 DEF MirrorFrame
    <3>3. ~running' => \A q \in Posts : recent'[q] = Absent
      BY <2>0, <3>1 DEF MirrorFrame
    <3> QED BY <2>0, <3>1, <3>2, <3>3 DEF MirrorInv
  <2> QED BY <2>1, <2>2, <2>3, <2>4, <2>5, <2>6 DEF Next, Subscribe, Unsubscribe
<1> QED BY <1>1, <1>2, TypeCorrect, PTL DEF Spec

-----------------------------------------------------------------------------
(* What a change says to the browsers.                                     *)

\* The page shows the post as the mirror has it.
Shows(model, row, entry) ==
    \/ row.state = "none" /\ model = Absent
    \/ /\ entry # Absent /\ model # Absent
       /\ model.body = entry.Body
       /\ model.editing = ~entry.Closed

\* A message about an existing post updates its model.
LEMMA UpdateHandled ==
    ASSUME NEW w \in Models, NEW m \in Message, m.type \notin {"syncCount", "insertPost"},
           w[m.id] # Absent
    PROVE  /\ m.id \in Posts /\ w[m.id] \in Model
           /\ Handled(w, m)[m.id] = Updated(w[m.id], m)
           /\ Updated(w[m.id], m) \in Model
<1>1. m.id \in Posts
  BY MessageParts
<1>2. w[m.id] \in Model
  BY <1>1 DEF Models
<1>3. Handled(w, m) = [w EXCEPT ![m.id] = Updated(w[m.id], m)]
  BY DEF Handled
<1>4. Updated(w[m.id], m) \in Model
  BY <1>2, UpdatedType
<1> QED BY <1>1, <1>2, <1>3, <1>4 DEF Models

\* The message of a change of the row to r and of the entry to e is the last
\* thing the browser handles, a count apart.  It shows the change if it does so
\* on the model as it is then.
LEMMA ChangeCarried ==
    ASSUME TypeOK, NEW p \in Posts, NEW q \in Posts, NEW v \in Models,
           NEW msg \in Message, msg.type # "syncCount", msg.id = q,
           NEW r, NEW e,
           post' = [post EXCEPT ![q] = r], recent' = [recent EXCEPT ![q] = e],
           \/ buffer' = Append(buffer, msg)
           \/ buffer' = Append(Append(buffer, msg), [type |-> "syncCount"]),
           ~HasSpoiler(buffer'),
           Shows(HandledAll(v, buffer)[p], post[p], recent[p]),
           p = q => Shows(Handled(HandledAll(v, buffer), msg)[p], r, e)
    PROVE  Shows(HandledAll(v, buffer')[p], post'[p], recent'[p])
<1> DEFINE w == HandledAll(v, buffer)
           more == Append(buffer, msg)
           count == [type |-> "syncCount"]
<1>1. buffer \in Seq(Message) /\ count \in Message
  BY DEF TypeOK, Message
<1>2. more \in Seq(Message) /\ (buffer' = more \/ buffer' = Append(more, count))
  BY <1>1
<1> HIDE DEF count
<1>3. ~HasSpoiler(more)
  <2>1. CASE buffer' = more
    BY <2>1
  <2>2. CASE buffer' = Append(more, count)
    <3> HIDE DEF more
    <3>1. /\ DOMAIN more = 1..Len(more) /\ DOMAIN buffer' = 1..Len(more) + 1
          /\ \A i \in 1..Len(more) : buffer'[i] = more[i]
          /\ Len(more) \in Nat
      BY <1>1, <1>2, <2>2, AppendProperties, LenProperties
    <3> QED BY <3>1 DEF HasSpoiler
  <2> QED BY <1>2, <2>1, <2>2
<1>4. ~HasSpoiler(buffer) /\ msg.type # "spoiler"
  <2>1. /\ DOMAIN buffer = 1..Len(buffer) /\ DOMAIN more = 1..Len(buffer) + 1
        /\ \A i \in 1..Len(buffer) : more[i] = buffer[i]
        /\ more[Len(buffer) + 1] = msg
        /\ Len(buffer) \in Nat
    BY <1>1, AppendProperties, LenProperties
  <2>2. Len(buffer) + 1 \in DOMAIN more
    BY <2>1
  <2> HIDE DEF more
  <2> QED BY <1>3, <2>1, <2>2 DEF HasSpoiler
<1>5. HandledAll(v, more) = Handled(w, msg)
  BY <1>1, <1>4, HandledAllAppend
<1>6. HandledAll(v, buffer') = Handled(w, msg)
  <2>1. CASE buffer' = more
    BY <1>5, <2>1
  <2>2. CASE buffer' = Append(more, count)
    <3>1. count.type = "syncCount"
      BY DEF count
    <3> HIDE DEF more
    <3>2. HandledAll(v, buffer') = HandledAll(v, more)
      BY <1>1, <1>2, <2>2, <3>1, HandledAllCount
    <3> QED BY <1>5, <3>2
  <2> QED BY <1>2, <2>1, <2>2
<1>7. w \in Models
  BY <1>1, HandledAllType
<1>8. CASE p = q
  <2>1. post'[p] = r /\ recent'[p] = e
    BY <1>8 DEF TypeOK
  <2> QED BY <1>6, <1>8, <2>1
<1>9. CASE p # q
  <2>1. post'[p] = post[p] /\ recent'[p] = recent[p]
    BY <1>9 DEF TypeOK
  <2> HIDE DEF w
  <2>2. Handled(w, msg)[p] = w[p]
    BY <1>7, <1>9, HandledType
  <2> QED BY <1>6, <2>1, <2>2 DEF w
<1> QED BY <1>8, <1>9

\* Without a message, the count apart, nothing changes on the page.
LEMMA CountCarried ==
    ASSUME TypeOK, NEW v \in Models,
           buffer' = buffer \/ buffer' = Append(buffer, [type |-> "syncCount"])
    PROVE  HandledAll(v, buffer') = HandledAll(v, buffer)
<1> DEFINE count == [type |-> "syncCount"]
<1>1. buffer \in Seq(Message) /\ count \in Message /\ count.type = "syncCount"
  BY DEF TypeOK, Message
<1> HIDE DEF count
<1>2. HandledAll(v, Append(buffer, count)) = HandledAll(v, buffer)
  BY <1>1, HandledAllCount
<1> QED BY <1>2 DEF count

\* Changes whose message leaves the text and the state
LEMMA UpdatedOther ==
    ASSUME NEW model \in Model, NEW m \in Message,
           \/ m.type = "insertImage"
           \/ m.type = "moderatePost" /\ m.entry # "purgePost"
    PROVE  /\ Updated(model, m).body = model.body
           /\ Updated(model, m).editing = model.editing
<1>1. CASE m.type = "insertImage"
  <2>1. Updated(model, m) = [model EXCEPT !.image = TRUE, !.spoiler = m.spoilered]
    BY <1>1 DEF Updated
  <2> QED BY <2>1 DEF Model
<1>2. CASE m.type = "moderatePost" /\ m.entry # "purgePost"
  <2>1. Updated(model, m) = Moderated(model, m.entry) /\ m.entry \in ModActions
    BY <1>2, MessageParts DEF Updated
  <2> QED BY <1>2, <2>1, ModeratedType
<1> QED BY <1>1, <1>2

\* Whatever is changed, the page that has shown the mirror shows it again once
\* the message is handled.
LEMMA ChangeShown ==
    ASSUME TypeOK, MirrorInv, running, NEW p \in Posts, NEW q \in Posts, ChangePost(q),
           NEW v \in Models, ~HasSpoiler(buffer'), Genuine(p), ~Purged(post'[p]),
           Shows(HandledAll(v, buffer)[p], post[p], recent[p])
    PROVE  Shows(HandledAll(v, buffer')[p], post'[p], recent'[p])
<1> DEFINE w == HandledAll(v, buffer)
<1>1. /\ post[q] \in PostRow /\ Entry(q) \in CachedPost /\ Faithful(post[q], recent[q])
      /\ buffer \in Seq(Message)
      /\ recent[q] \in CachedPost \cup {Absent}
  BY EntryType DEF TypeOK, MirrorInv
<1>2. w \in Models
  BY <1>1, HandledAllType
<1> HIDE DEF w
<1>3. ASSUME p = q, post[q].state # "none"
      PROVE  /\ recent[q] # Absent /\ w[q] # Absent /\ w[q] \in Model
             /\ Entry(q) = recent[q]
             /\ w[q].body = recent[q].Body /\ w[q].editing = ~recent[q].Closed
             /\ recent[q].Time = post[q].time
  <2>1. /\ recent[q] # Absent /\ w[q] # Absent
        /\ w[q].body = recent[q].Body /\ w[q].editing = ~recent[q].Closed
    BY <1>3 DEF Shows, w
  <2> QED BY <1>2, <1>3, <2>1 DEF Models, Entry, Genuine
<1>4. ASSUME p = q, post[q].state # "none", ~Purged(post[q])
      PROVE  recent[q].Body = post[q].body /\ recent[q].Closed = (post[q].state = "closed")
  BY <1>1, <1>3, <1>4 DEF Faithful
<1>10. ASSUME NEW row \in NewRows, InsertPost(q, row)
       PROVE  Shows(HandledAll(v, buffer')[p], post'[p], recent'[p])
  <2> DEFINE e == Cached(row)
             msg == [type |-> "insertPost", id |-> q, post |-> e, mods |-> row.mods]
  <2>1. /\ row \in PostRow /\ e \in CachedPost /\ row.mods \in Seq(ModActions)
        /\ e.Body = row.body
    BY NewRowType, CachedType DEF PostRow, Cached
  <2>2. /\ msg \in Message /\ msg.type = "insertPost" /\ msg.id = q /\ msg.post = e
        /\ msg.mods = row.mods
    BY <2>1 DEF Message
  <2>3. /\ post[q].state = "none" /\ post' = [post EXCEPT ![q] = row]
        /\ recent' = [recent EXCEPT ![q] = e]
        /\ SendIPCount(members, Append(buffer, msg), TRUE)
    BY <1>10 DEF InsertPost, IfRunning, SetEntry
  <2> HIDE DEF e, msg
  <2>4. \/ buffer' = Append(buffer, msg)
        \/ buffer' = Append(Append(buffer, msg), [type |-> "syncCount"])
    BY <2>3 DEF SendIPCount
  <2>5. ASSUME p = q PROVE Shows(Handled(w, msg)[p], row, e)
    <3>1. recent[q] = Absent
      BY <1>1, <2>3 DEF Faithful
    <3>2. w[q] = Absent
      BY <2>5, <3>1 DEF Shows, w
    <3>3. Handled(w, msg) = [w EXCEPT ![q] = FromMessage(msg)]
      BY <2>2, <3>2 DEF Handled
    <3>4. Handled(w, msg)[q] = FromMessage(msg)
      BY <1>2, <3>3 DEF Models
    <3>5. FromMessage(msg).body = e.Body /\ FromMessage(msg).editing = ~e.Closed
      BY <2>2 DEF FromMessage
    <3>6. FromMessage(msg) # Absent /\ e # Absent
      BY <2>1, <2>2, FromType, ConstantsAssumption, ReplicaAssumption
    <3> QED BY <2>5, <3>4, <3>5, <3>6 DEF Shows
  <2> QED BY <2>2, <2>3, <2>4, <2>5, ChangeCarried DEF w
<1>11. CASE Reclaim(q)
  <2>1. /\ post[q].state = "open" /\ post' = post
        /\ recent' = [recent EXCEPT ![q] = Cached(post[q])]
        /\ SendIPCount(members, buffer, TRUE)
    BY <1>11 DEF Reclaim, SetEntry
  <2>2. buffer' = buffer \/ buffer' = Append(buffer, [type |-> "syncCount"])
    BY <2>1 DEF SendIPCount
  <2>3. HandledAll(v, buffer') = w
    BY <2>2, CountCarried DEF w
  <2>4. CASE p # q
    <3>1. recent'[p] = recent[p]
      BY <2>1, <2>4 DEF TypeOK
    <3> QED BY <2>1, <2>3, <3>1 DEF w
  <2>5. CASE p = q
    <3>1. recent'[p] = Cached(post[p]) /\ Cached(post[p]) # Absent
      BY <1>1, <2>1, <2>5, CachedType, ConstantsAssumption DEF TypeOK
    <3>2. /\ w[p] # Absent /\ w[p].body = post[p].body
          /\ w[p].editing = ~(post[p].state = "closed")
      BY <1>3, <1>4, <2>1, <2>5
    <3>3. /\ Cached(post[p]).Body = post[p].body
          /\ Cached(post[p]).Closed = (post[p].state = "closed")
      BY DEF Cached
    <3> QED BY <2>1, <2>3, <3>1, <3>2, <3>3 DEF Shows
  <2> QED BY <2>4, <2>5
<1>12. CASE EditBody(q)
  <2>1. PICK body \in Seq(Chars), msg \in Message :
          SetOpenBody(q, body, msg) /\ Tells(q, body, msg)
    BY <1>12, EditBodyType
  <2> DEFINE r == [post[q] EXCEPT !.body = body]
             e == [Entry(q) EXCEPT !.Body = body]
  <2>2. /\ post[q].state = "open"
        /\ post' = [post EXCEPT ![q] = r]
        /\ recent' = [recent EXCEPT ![q] = e]
        /\ buffer' = Append(buffer, msg)
    BY <2>1 DEF SetOpenBody, Editable, ModifyPost, SetEntry
  <2>3. /\ msg.type \in {"append", "backspace", "splice"} /\ msg.id = q
        /\ \A model \in Model : model.body = post[q].body
             => Updated(model, msg).body = body /\ Updated(model, msg).editing = model.editing
    BY <2>1 DEF Tells
  <2>4. r.mods = post[q].mods
    BY <1>1 DEF PostRow
  <2>5. e \in CachedPost /\ e.Body = body /\ e.Closed = Entry(q).Closed
    BY <1>1 DEF CachedPost
  <2> HIDE DEF r, e
  <2>6. ASSUME p = q PROVE Shows(Handled(w, msg)[p], r, e)
    <3>1. ~Purged(post[q])
      <4>1. post'[q] = r
        BY <2>2 DEF TypeOK
      <4> QED BY <2>4, <2>6, <4>1 DEF Purged
    <3>2. w[q] \in Model /\ w[q] # Absent /\ w[q].body = post[q].body
      BY <1>3, <1>4, <2>2, <2>6, <3>1
    <3>3. /\ Handled(w, msg)[q] = Updated(w[q], msg)
          /\ Updated(w[q], msg) \in Model
      BY <1>2, <2>3, <3>2, UpdateHandled
    <3>4. Updated(w[q], msg).body = body /\ Updated(w[q], msg).editing = w[q].editing
      BY <2>3, <3>2
    <3>5. e.Closed = recent[q].Closed /\ w[q].editing = ~recent[q].Closed
      BY <1>3, <2>2, <2>5, <2>6
    <3> QED BY <2>5, <2>6, <3>3, <3>4, <3>5, ConstantsAssumption, ReplicaAssumption DEF Shows
  <2> QED BY <2>2, <2>3, <2>6, ChangeCarried DEF w
<1>13. ASSUME NEW spoiler \in BOOLEAN, InsertImage(q, spoiler)
       PROVE  Shows(HandledAll(v, buffer')[p], post'[p], recent'[p])
  <2> DEFINE r == [post[q] EXCEPT !.image = TRUE, !.spoiler = spoiler]
             e == [Entry(q) EXCEPT !.HasImage = TRUE, !.Spoilered = spoiler]
             msg == [type |-> "insertImage", id |-> q, spoilered |-> spoiler]
  <2>1. msg \in Message /\ msg.type = "insertImage" /\ msg.id = q
    BY DEF Message
  <2>2. /\ post[q].state = "open"
        /\ post' = [post EXCEPT ![q] = r]
        /\ recent' = [recent EXCEPT ![q] = e]
        /\ buffer' = Append(buffer, msg)
    BY <1>1, <1>13 DEF InsertImage, Editable, ModifyPost, SetEntry, TypeOK, PostRow
  <2>3. e \in CachedPost /\ e.Body = Entry(q).Body /\ e.Closed = Entry(q).Closed
    BY <1>1 DEF CachedPost
  <2> HIDE DEF r, e, msg
  <2>4. ASSUME p = q PROVE Shows(Handled(w, msg)[p], r, e)
    <3>1. /\ w[q] \in Model /\ w[q] # Absent /\ w[q].body = e.Body /\ w[q].editing = ~e.Closed
      BY <1>3, <2>2, <2>3, <2>4
    <3>2. /\ Handled(w, msg)[q] = Updated(w[q], msg)
          /\ Updated(w[q], msg) \in Model
      BY <1>2, <2>1, <3>1, UpdateHandled
    <3>3. Updated(w[q], msg).body = w[q].body /\ Updated(w[q], msg).editing = w[q].editing
      BY <2>1, <3>1, UpdatedOther
    <3> QED BY <2>3, <2>4, <3>1, <3>2, <3>3, ConstantsAssumption, ReplicaAssumption DEF Shows
  <2> QED BY <2>1, <2>2, <2>4, ChangeCarried DEF w
<1>14. CASE SpoilerImage(q)
  <2> DEFINE msg == [type |-> "spoiler", id |-> q]
  <2>1. buffer' = Append(buffer, msg)
    BY <1>14 DEF SpoilerImage, ModifyPost
  <2>2. msg \in Message /\ msg.type = "spoiler"
    BY DEF Message
  <2> HIDE DEF msg
  <2>3. /\ DOMAIN buffer' = 1..Len(buffer) + 1 /\ buffer'[Len(buffer) + 1] = msg
        /\ Len(buffer) \in Nat
    BY <1>1, <2>1, <2>2, AppendProperties, LenProperties
  <2>4. Len(buffer) + 1 \in DOMAIN buffer'
    BY <2>3
  <2> QED BY <2>2, <2>3, <2>4 DEF HasSpoiler
<1>15. CASE ClosePost(q)
  <2> DEFINE r == [post[q] EXCEPT !.state = "closed"]
             e == [Entry(q) EXCEPT !.Closed = TRUE]
             msg == [type |-> "closePost", id |-> q]
  <2>1. msg \in Message /\ msg.type = "closePost" /\ msg.id = q
    BY DEF Message
  <2>2. /\ post[q].state = "open"
        /\ post' = [post EXCEPT ![q] = r]
        /\ recent' = [recent EXCEPT ![q] = e]
        /\ buffer' = Append(buffer, msg)
    BY <1>15 DEF ClosePost, IfRunning, ModifyPost, SetEntry
  <2>3. e \in CachedPost /\ e.Body = Entry(q).Body /\ e.Closed = TRUE
    BY <1>1 DEF CachedPost
  <2> HIDE DEF r, e, msg
  <2>4. ASSUME p = q PROVE Shows(Handled(w, msg)[p], r, e)
    <3>1. /\ w[q] \in Model /\ w[q] # Absent /\ w[q].body = e.Body
      BY <1>3, <2>2, <2>3, <2>4
    <3>2. /\ Handled(w, msg)[q] = Updated(w[q], msg)
          /\ Updated(w[q], msg) \in Model
      BY <1>2, <2>1, <3>1, UpdateHandled
    <3>3. Updated(w[q], msg) = [w[q] EXCEPT !.editing = FALSE]
      BY <2>1 DEF Updated
    <3>4. Updated(w[q], msg).body = w[q].body /\ Updated(w[q], msg).editing = FALSE
      BY <3>1, <3>3 DEF Model
    <3> QED BY <2>3, <2>4, <3>1, <3>2, <3>4, ConstantsAssumption, ReplicaAssumption DEF Shows
  <2> QED BY <2>1, <2>2, <2>4, ChangeCarried DEF w
<1>16. ASSUME NEW action \in ModActions, ModeratePost(q, action)
       PROVE  Shows(HandledAll(v, buffer')[p], post'[p], recent'[p])
  <2> DEFINE r == ModeratedRow(post[q], action)
             e == ModeratedEntry(Entry(q), action)
             msg == [type |-> "moderatePost", id |-> q, entry |-> action]
  <2>1. msg \in Message /\ msg.type = "moderatePost" /\ msg.id = q /\ msg.entry = action
    BY DEF Message
  <2>2. /\ post[q].state # "none"
        /\ post' = [post EXCEPT ![q] = r]
        /\ recent' = [recent EXCEPT ![q] = e]
        /\ buffer' = Append(buffer, msg)
    BY <1>16 DEF ModeratePost, IfRunning, SetEntry
  <2>3. /\ r \in PostRow /\ r.mods = Append(post[q].mods, action)
        /\ e \in CachedPost
    BY <1>1, ModeratedRowType, ModeratedEntryType
  <2>4. action # "purgePost" => e.Body = Entry(q).Body /\ e.Closed = Entry(q).Closed
    BY <1>1, ModeratedTexts
  <2> HIDE DEF r, e, msg
  <2>5. ASSUME p = q PROVE Shows(Handled(w, msg)[p], r, e)
    <3>1. action # "purgePost"
      <4>1. post'[q] = r
        BY <2>2 DEF TypeOK
      <4> QED BY <1>1, <2>3, <2>5, <4>1, LoggedMore
    <3>2. /\ w[q] \in Model /\ w[q] # Absent /\ w[q].body = e.Body /\ w[q].editing = ~e.Closed
      BY <1>3, <2>2, <2>4, <2>5, <3>1
    <3>3. /\ Handled(w, msg)[q] = Updated(w[q], msg)
          /\ Updated(w[q], msg) \in Model
      BY <1>2, <2>1, <3>2, UpdateHandled
    <3>4. Updated(w[q], msg).body = w[q].body /\ Updated(w[q], msg).editing = w[q].editing
      BY <2>1, <3>1, <3>2, UpdatedOther
    <3> QED BY <2>3, <2>5, <3>2, <3>3, <3>4, ConstantsAssumption, ReplicaAssumption DEF Shows
  <2> QED BY <2>1, <2>2, <2>5, ChangeCarried DEF w
<1> QED BY ConstantsAssumption, <1>10, <1>11, <1>12, <1>13, <1>14, <1>15, <1>16
        DEF ChangePost, EditBody

-----------------------------------------------------------------------------
(* Agreement.                                                              *)

\* What the browser of c makes of what has been sent to it.
Sent(c) == Delivered(page[c], queue[c])

LEMMA AgreesShows ==
    ASSUME NEW c \in Readers, NEW p \in Posts
    PROVE  Agrees(c, p) <=> Shows(HandledAll(Sent(c), buffer)[p], post[p], recent[p])
BY DEF Agrees, Shows, Eventually, Sent

\* A step that leaves what is sent to c, as far as it is about p, the buffer but
\* for a count, and the post and its entry, keeps the agreement.
LEMMA AgreesStill ==
    ASSUME TypeOK, NEW c \in Readers, NEW p \in Posts, Agrees(c, p), Sent(c) \in Models,
           Sent(c)' = Sent(c),
           buffer' = buffer \/ buffer' = Append(buffer, [type |-> "syncCount"]),
           post'[p] = post[p], recent'[p] = recent[p]
    PROVE  Agrees(c, p)'
<1>1. HandledAll(Sent(c), buffer') = HandledAll(Sent(c), buffer)
  BY CountCarried
<1>2. Shows(HandledAll(Sent(c), buffer)[p], post[p], recent[p])
  BY AgreesShows
<1>3. Agrees(c, p)' <=> Shows(HandledAll(Sent(c)', buffer')[p], post'[p], recent'[p])
  BY DEF Agrees, Shows, Eventually, Sent
<1> QED BY <1>1, <1>2, <1>3

LEMMA AgreementStep ==
    ASSUME TypeOK, TypeOK', ReplicaTypeOK, ReplicaTypeOK', RunsIffSubscribed, MirrorInv,
           [ReplicaNext]_allVars,
           NEW c \in Readers, NEW p \in Posts,
           Tracked(c, p), Tracked(c, p)', Agrees(c, p),
           c \notin lost', ~SpoilerSent(c)', ~Evicted(p)
    PROVE  Agrees(c, p)'
<1>1. /\ queue[c] \in Seq(Frame) /\ page[c] \in Models
      /\ buffer \in Seq(Message)
      /\ c \in members /\ running /\ c \in members'
      /\ fetching[c][p] = NoFetch
  BY DEF ReplicaTypeOK, Models, TypeOK, Tracked, RunsIffSubscribed
<1>2. Sent(c) \in Models
  BY <1>1, DeliveredType DEF Sent
<1>3. ~HasSpoiler(buffer')
  BY DEF SpoilerSent, HasSpoiler
<1>4. Genuine(p) /\ ~Purged(post'[p])
  BY DEF Tracked, Logged, Purged
<1>5. Agrees(c, p)' <=> Shows(HandledAll(Sent(c)', buffer')[p], post'[p], recent'[p])
  BY DEF Agrees, Shows, Eventually, Sent
<1>6. ASSUME page'[c] = page[c], queue'[c] = queue[c]
      PROVE  Sent(c)' = Sent(c)
  BY <1>6 DEF Sent
<1>7. ASSUME NEW d \in Clients, Join(d)
      PROVE  Agrees(c, p)'
  <2>1. /\ d # c /\ UNCHANGED <<post, recent, page>>
        /\ buffer' = buffer \/ buffer' = Append(buffer, [type |-> "syncCount"])
    BY <1>1, <1>7 DEF Join, AddToFeed, SendIPCount
  <2>2. queue'[c] = queue[c]
    BY <1>7, <2>1 DEF Join, Send
  <2> QED BY <1>2, <1>6, <2>1, <2>2, AgreesStill
<1>8. ASSUME NEW d \in Clients, Leave(d)
      PROVE  Agrees(c, p)'
  <2>1. RemoveFromFeed(d) /\ UNCHANGED page
    BY <1>8 DEF Leave
  <2>2. d # c
    BY <1>1, <2>1 DEF RemoveFromFeed
  <2>3. queue'[c] = queue[c]
    BY <1>8, <2>2 DEF Leave
  <2>4. ~LoopExits(members')
    BY <1>1 DEF LoopExits
  <2>5. /\ UNCHANGED <<post, recent>>
        /\ buffer' = buffer \/ buffer' = Append(buffer, [type |-> "syncCount"])
    BY <2>1, <2>4 DEF RemoveFromFeed, SendIPCount
  <2> QED BY <1>2, <1>6, <2>1, <2>3, <2>5, AgreesStill
<1>9. ASSUME NEW d \in Readers, LoadPage(d)
      PROVE  Agrees(c, p)'
  <2>1. /\ d # c /\ UNCHANGED <<vars, queue>> /\ page' = [page EXCEPT ![d] = Rendered]
    BY <1>1, <1>9 DEF LoadPage
  <2>2. page'[c] = page[c]
    BY <2>1 DEF ReplicaTypeOK
  <2> QED BY <1>2, <1>6, <2>1, <2>2, AgreesStill DEF vars
<1>10. ASSUME NEW d \in Readers, Receive(d)
       PROVE  Agrees(c, p)'
  <2>1. /\ queue[d] # << >> /\ UNCHANGED vars
        /\ page' = [page EXCEPT ![d] = Handle(page[d], Head(queue[d]))]
        /\ queue' = [queue EXCEPT ![d] = Tail(queue[d])]
    BY <1>10 DEF Receive
  <2>2. Sent(c)' = Sent(c)
    <3>1. CASE d = c
      <4>1. page'[c] = Handle(page[c], Head(queue[c])) /\ queue'[c] = Tail(queue[c])
        BY <2>1, <3>1 DEF ReplicaTypeOK
      <4>2. Delivered(Handle(page[c], Head(queue[c])), Tail(queue[c]))
            = Delivered(page[c], queue[c])
        BY <1>1, <2>1, <3>1, DeliveredHead
      <4> QED BY <4>1, <4>2 DEF Sent
    <3>2. CASE d # c
      <4>1. page'[c] = page[c] /\ queue'[c] = queue[c]
        BY <2>1, <3>2 DEF ReplicaTypeOK
      <4> QED BY <1>6, <4>1
    <3> QED BY <3>1, <3>2
  <2> QED BY <1>2, <2>1, <2>2, AgreesStill DEF vars
<1>11. ASSUME NEW d \in Readers, NEW q \in Posts, Answer(d, q)
       PROVE  Agrees(c, p)'
  <2> DEFINE m == Fetched(page[d][q], post[q], fetching[d][q])
  <2>1. /\ fetching[d][q] # NoFetch /\ UNCHANGED <<vars, queue>>
        /\ page' = [page EXCEPT ![d][q] = m]
    BY <1>11 DEF Answer
  <2> HIDE DEF m
  <2>2. page'[c] \in Models /\ page'[c][p] = page[c][p]
    BY <1>1, <2>1 DEF ReplicaTypeOK, Models
  <2>3. \A i \in DOMAIN queue[c] : queue[c][i].kind = "concat" => ~HasSpoiler(queue[c][i].msgs)
    BY <2>1 DEF SpoilerSent, HasSpoiler
  <2>4. Sent(c)' = Delivered(page'[c], queue[c])
    BY <2>1 DEF Sent
  <2>5. Delivered(page'[c], queue[c])[p] = Sent(c)[p]
    BY <1>1, <2>2, <2>3, DeliveredAlone DEF Sent
  <2>6. Delivered(page'[c], queue[c]) \in Models
    BY <1>1, <2>2, DeliveredType
  <2>7. UNCHANGED <<buffer, post, recent>>
    BY <2>1 DEF vars
  <2>8. HandledAll(Delivered(page'[c], queue[c]), buffer)[p] = HandledAll(Sent(c), buffer)[p]
    BY <1>1, <1>2, <1>3, <2>5, <2>6, <2>7, HandledAllAlone
  <2> QED BY <1>5, <2>4, <2>7, <2>8, AgreesShows
<1>12. CASE Broadcast
  <2>1. UNCHANGED <<post, recent, page>>
    BY <1>12 DEF Broadcast, Flush, browserVars
  <2>2. buffer' = << >>
    BY <1>12 DEF Broadcast, Flush
  <2>3. CASE buffer = << >>
    <3>1. UNCHANGED queue
      BY <1>12, <2>3 DEF Broadcast, browserVars
    <3> QED BY <1>2, <1>6, <2>1, <2>2, <2>3, <3>1, AgreesStill
  <2>4. CASE buffer # << >>
    <3> DEFINE frame == [kind |-> "concat", msgs |-> buffer]
    <3>1. frame \in Frame /\ frame.kind = "concat" /\ frame.msgs = buffer
      BY <1>1 DEF Frame
    <3>2. Send(members, frame)
      BY <1>12, <2>4 DEF Broadcast
    <3> HIDE DEF frame
    <3>3. ~Full(c)
      BY <1>1, <3>2 DEF Send
    <3>4. queue'[c] = Append(queue[c], frame)
      BY <1>1, <3>2, <3>3 DEF Send
    <3>5. Delivered(page[c], Append(queue[c], frame)) = HandledAll(Sent(c), buffer)
      BY <1>1, <3>1, DeliveredAppend DEF Sent, Handle
    <3>6. Sent(c)' = HandledAll(Sent(c), buffer)
      BY <2>1, <3>4, <3>5 DEF Sent
    <3>7. HandledAll(HandledAll(Sent(c), buffer), << >>) = HandledAll(Sent(c), buffer)
      <4>1. HandledAll(Sent(c), buffer) \in Models
        BY <1>1, <1>2, HandledAllType
      <4> QED BY <4>1, HandlingNone
    <3> QED BY <1>5, <2>1, <2>2, <3>6, <3>7, AgreesShows
  <2> QED BY <2>3, <2>4
<1>13. CASE Evict /\ UNCHANGED browserVars
  <2>1. UNCHANGED <<post, buffer, page, queue>>
    BY <1>13 DEF Evict, browserVars
  <2>2. recent'[p] = recent[p]
    BY <1>13 DEF Evict, Evicted
  <2> QED BY <1>2, <1>6, <2>1, <2>2, AgreesStill
<1>14. CASE (Clock /\ UNCHANGED browserVars) \/ UNCHANGED allVars
  <2>1. UNCHANGED <<post, buffer, page, queue, recent>>
    BY <1>14 DEF Clock, browserVars, allVars, vars
  <2> QED BY <1>2, <1>6, <2>1, AgreesStill
<1>15. ASSUME NEW q \in Posts, ChangePost(q), UNCHANGED browserVars
       PROVE  Agrees(c, p)'
  <2>1. Sent(c)' = Sent(c)
    BY <1>6, <1>15 DEF browserVars
  <2>2. Shows(HandledAll(Sent(c), buffer)[p], post[p], recent[p])
    BY AgreesShows
  <2>3. Shows(HandledAll(Sent(c), buffer')[p], post'[p], recent'[p])
    BY <1>1, <1>2, <1>3, <1>4, <1>15, <2>2, ChangeShown
  <2> QED BY <1>5, <2>1, <2>3
<1> QED BY <1>7, <1>8, <1>9, <1>10, <1>11, <1>12, <1>13, <1>14, <1>15 DEF ReplicaNext

\* A subscriber whose page shows a post as the mirror has it (synchronization.ts:11,
\* client.ts:35) goes on seeing it so, through every change, flush, delivery, fetch
\* of another post and coming and going of others.
THEOREM AgreementIsKept == ReplicaSpec => AgreementKept
<1> DEFINE Inv == TypeOK /\ ReplicaTypeOK /\ RunsIffSubscribed /\ MirrorInv
<1>1. ReplicaSpec => []Inv
  BY ReplicaKeepsFeed, TypeCorrect, ReplicaTypeCorrect, LoopRunsForSubscribers, MirrorHolds, PTL
<1>2. Inv /\ Inv' /\ [ReplicaNext]_allVars =>
        [\A c \in Readers, p \in Posts :
           Tracked(c, p) /\ Tracked(c, p)' /\ Agrees(c, p)
             /\ c \notin lost' /\ ~SpoilerSent(c)' /\ ~Evicted(p)
           => Agrees(c, p)']_allVars
  BY AgreementStep
<1> HIDE DEF Inv
<1> QED BY <1>1, <1>2, PTL DEF ReplicaSpec, AgreementKept

-----------------------------------------------------------------------------
(* What the handlers make of a moderation log.                             *)

\* Two models of a post have the same log, or neither is there.
Alike(x, y) == IF x = Absent THEN y = Absent ELSE y # Absent /\ x.mods = y.mods

\* Every action of the log has been applied to the model, if there is one.
Within(log, model) == model # Absent => ToSet(log) \subseteq ToSet(model.mods)

LEMMA AlikeWithin ==
    ASSUME NEW x, NEW y, NEW log, Alike(x, y)
    PROVE  Within(log, x) <=> Within(log, y)
BY DEF Alike, Within

\* An action appended is one more in the log.
LEMMA ToSetAppend ==
    ASSUME NEW S, NEW log \in Seq(S), NEW action \in S
    PROVE  ToSet(Append(log, action)) = ToSet(log) \cup {action}
<1> DEFINE more == Append(log, action)
<1>1. /\ DOMAIN log = 1..Len(log) /\ DOMAIN more = 1..Len(log) + 1 /\ Len(log) \in Nat
      /\ \A i \in 1..Len(log) : more[i] = log[i]
      /\ more[Len(log) + 1] = action
  BY AppendProperties, LenProperties
<1> HIDE DEF more
<1>2. \A i \in 1..Len(log) + 1 : i \in 1..Len(log) \/ i = Len(log) + 1
  BY <1>1
<1>3. 1..Len(log) \subseteq 1..Len(log) + 1 /\ Len(log) + 1 \in 1..Len(log) + 1
  BY <1>1
<1>4. ToSet(more) = ToSet(log) \cup {action}
  BY <1>1, <1>2, <1>3 DEF ToSet
<1> QED BY <1>4 DEF more

\* Of all messages about a post only its moderation changes the log.
LEMMA UpdatedMods ==
    ASSUME NEW model \in Model, NEW m \in Message, m.type \notin {"syncCount", "insertPost"}
    PROVE  Updated(model, m).mods =
             IF m.type = "moderatePost" THEN Append(model.mods, m.entry) ELSE model.mods
<1>1. CASE m.type = "append"
  <2>1. Updated(model, m) = [model EXCEPT !.body = Append(model.body, m.char)]
    BY <1>1 DEF Updated
  <2> QED BY <1>1, <2>1 DEF Model
<1>2. CASE m.type = "backspace"
  <2>1. Updated(model, m) = [model EXCEPT !.body = SubSeq(model.body, 1, Len(model.body) - 1)]
    BY <1>2 DEF Updated
  <2> QED BY <1>2, <2>1 DEF Model
<1>3. CASE m.type = "splice"
  <2>1. Updated(model, m) = [model EXCEPT !.body = Spliced(model.body, m)]
    BY <1>3 DEF Updated
  <2> QED BY <1>3, <2>1 DEF Model
<1>4. CASE m.type = "closePost"
  <2>1. Updated(model, m) = [model EXCEPT !.editing = FALSE]
    BY <1>4 DEF Updated
  <2> QED BY <1>4, <2>1 DEF Model
<1>5. CASE m.type = "insertImage"
  <2>1. Updated(model, m) = [model EXCEPT !.image = TRUE, !.spoiler = m.spoilered]
    BY <1>5 DEF Updated
  <2> QED BY <1>5, <2>1 DEF Model
<1>6. CASE m.type = "spoiler"
  <2>1. Updated(model, m) = [model EXCEPT !.spoiler = TRUE]
    BY <1>6 DEF Updated
  <2> QED BY <1>6, <2>1 DEF Model
<1>7. CASE m.type = "moderatePost"
  <2>1. Updated(model, m) = Moderated(model, m.entry)
    BY <1>7 DEF Updated
  <2>2. m.entry \in ModActions
    BY <1>7, MessageParts
  <2> QED BY <1>7, <2>1, <2>2, ModeratedType
<1>8. m.type \in {"append", "backspace", "splice", "closePost", "insertImage", "spoiler",
                  "moderatePost"}
  BY MessageParts
<1> QED BY <1>1, <1>2, <1>3, <1>4, <1>5, <1>6, <1>7, <1>8

\* A message about p inserts its model, or updates it; a page without it ignores
\* what is no insertion.
LEMMA HandledModel ==
    ASSUME NEW v \in Models, NEW p \in Posts, NEW m \in Message,
           m.type # "syncCount", m.id = p
    PROVE  Handled(v, m)[p] =
             IF v[p] = Absent THEN IF m.type = "insertPost" THEN FromMessage(m) ELSE Absent
             ELSE IF m.type = "insertPost" THEN v[p] ELSE Updated(v[p], m)
<1>1. CASE m.type = "insertPost"
  <2>1. Handled(v, m) = IF v[p] = Absent THEN [v EXCEPT ![p] = FromMessage(m)] ELSE v
    BY <1>1 DEF Handled
  <2> QED BY <1>1, <2>1 DEF Models
<1>2. CASE m.type # "insertPost"
  <2>1. Handled(v, m) = IF v[p] = Absent THEN v ELSE [v EXCEPT ![p] = Updated(v[p], m)]
    BY <1>2 DEF Handled
  <2> QED BY <1>2, <2>1 DEF Models
<1> QED BY <1>1, <1>2

\* Handlers make models alike of models alike.
LEMMA HandledAlike ==
    ASSUME NEW v \in Models, NEW w \in Models, NEW p \in Posts, Alike(v[p], w[p]),
           NEW m \in Message
    PROVE  Alike(Handled(v, m)[p], Handled(w, m)[p])
<1>1. CASE m.type = "syncCount" \/ m.id # p
  <2>1. Handled(v, m)[p] = v[p] /\ Handled(w, m)[p] = w[p]
    BY <1>1, HandledType
  <2> QED BY <2>1
<1>2. CASE m.type # "syncCount" /\ m.id = p
  <2>1. CASE v[p] = Absent
    <3>1. w[p] = Absent
      BY <2>1 DEF Alike
    <3>2. Handled(v, m)[p] = Handled(w, m)[p]
      BY <1>2, <2>1, <3>1, HandledModel
    <3> QED BY <3>2 DEF Alike
  <2>2. CASE v[p] # Absent /\ m.type = "insertPost"
    <3>1. w[p] # Absent
      BY <2>2 DEF Alike
    <3>2. Handled(v, m)[p] = v[p] /\ Handled(w, m)[p] = w[p]
      BY <1>2, <2>2, <3>1, HandledModel
    <3> QED BY <3>2
  <2>3. CASE v[p] # Absent /\ m.type # "insertPost"
    <3>1. /\ w[p] # Absent /\ v[p] \in Model /\ w[p] \in Model
          /\ v[p].mods = w[p].mods
      BY <2>3 DEF Alike, Models
    <3>2. Handled(v, m)[p] = Updated(v[p], m) /\ Handled(w, m)[p] = Updated(w[p], m)
      BY <1>2, <2>3, <3>1, HandledModel
    <3>3. Updated(v[p], m) \in Model /\ Updated(w[p], m) \in Model
      BY <1>2, <2>3, <3>1, UpdatedType
    <3>4. Updated(v[p], m).mods = Updated(w[p], m).mods
      BY <1>2, <2>3, <3>1, UpdatedMods
    <3> QED BY <3>2, <3>3, <3>4, ReplicaAssumption DEF Alike
  <2> QED BY <2>1, <2>2, <2>3
<1> QED BY <1>1, <1>2

LEMMA HandledAllAlike ==
    ASSUME NEW v \in Models, NEW w \in Models, NEW p \in Posts, Alike(v[p], w[p]),
           NEW msgs \in Seq(Message), ~HasSpoiler(msgs)
    PROVE  Alike(HandledAll(v, msgs)[p], HandledAll(w, msgs)[p])
<1> DEFINE N == Len(msgs)
           f == Handling(v, msgs)
           g == Handling(w, msgs)
           T == {n \in 0..N : Alike(f[n].v[p], g[n].v[p]) /\ ~f[n].thrown /\ ~g[n].thrown}
<1>1. /\ N \in Nat
      /\ \A n \in 1..N : msgs[n].type # "spoiler" /\ msgs[n] \in Message
      /\ \A n \in 0..N : f[n] \in Acc /\ g[n] \in Acc
      /\ f[0] = [v |-> v, thrown |-> FALSE] /\ g[0] = [v |-> w, thrown |-> FALSE]
      /\ \A n \in 1..N : f[n] = Taken(f[n - 1], msgs[n])
      /\ \A n \in 1..N : g[n] = Taken(g[n - 1], msgs[n])
  BY HandlingSteps DEF HasSpoiler
<1> HIDE DEF f, g
<1>2. 0 \in T
  BY <1>1
<1>3. ASSUME NEW n \in 1..N, n - 1 \in T PROVE n \in T
  <2>1. /\ ~f[n - 1].thrown /\ ~Throws(f[n - 1].v, msgs[n]) /\ f[n - 1] \in Acc
        /\ ~g[n - 1].thrown /\ ~Throws(g[n - 1].v, msgs[n]) /\ g[n - 1] \in Acc
    BY <1>1, <1>3 DEF Throws
  <2>2. /\ f[n] = [f[n - 1] EXCEPT !.v = Handled(f[n - 1].v, msgs[n])]
        /\ g[n] = [g[n - 1] EXCEPT !.v = Handled(g[n - 1].v, msgs[n])]
    BY <1>1, <2>1 DEF Taken
  <2>3. Alike(Handled(f[n - 1].v, msgs[n])[p], Handled(g[n - 1].v, msgs[n])[p])
    BY <1>1, <1>3, <2>1, HandledAlike DEF Acc
  <2> QED BY <2>1, <2>2, <2>3 DEF Acc
<1>4. \A n \in 0..N : n \in T
  <2> HIDE DEF N, T
  <2> QED BY <1>1, <1>2, <1>3, UpTo
<1>5. Alike(f[N].v[p], g[N].v[p])
  BY <1>1, <1>4
<1> QED BY <1>5 DEF f, g, HandledAll

\* Applied anew, the log of a model is that of the snapshot.
LEMMA ModeratingMods ==
    ASSUME NEW model \in Model, NEW actions \in Seq(ModActions)
    PROVE  Moderating(model, actions)[Len(actions)].mods = actions
<1> DEFINE N == Len(actions)
           f == Moderating(model, actions)
           T == {n \in 0..N : /\ Len(f[n].mods) = n
                              /\ \A i \in 1..n : f[n].mods[i] = actions[i]}
<1>1. /\ N \in Nat /\ \A n \in 1..N : actions[n] \in ModActions
      /\ \A n \in 0..N : f[n] \in Model
      /\ f[0].mods = << >>
      /\ \A n \in 1..N : f[n] = Moderated(f[n - 1], actions[n])
  <2>1. [model EXCEPT !.mods = << >>].mods = << >>
    BY DEF Model
  <2>2. N \in Nat /\ \A n \in 1..N : actions[n] \in ModActions
    BY LenProperties, ElementOfSeq
  <2>3. /\ f[0] = [model EXCEPT !.mods = << >>]
        /\ \A n \in 0..N : f[n] \in Model
        /\ \A n \in 1..N : f[n] = Moderated(f[n - 1], actions[n])
    BY ModeratingSteps
  <2> HIDE DEF f
  <2> QED BY <2>1, <2>2, <2>3
<1> HIDE DEF f
<1>2. 0 \in T
  BY <1>1
<1>3. ASSUME NEW n \in 1..N, n - 1 \in T PROVE n \in T
  <2>1. /\ f[n - 1] \in Model /\ actions[n] \in ModActions
        /\ Len(f[n - 1].mods) = n - 1
        /\ \A i \in 1..n - 1 : f[n - 1].mods[i] = actions[i]
    BY <1>1, <1>3
  <2>2. f[n].mods = Append(f[n - 1].mods, actions[n]) /\ f[n - 1].mods \in Seq(ModActions)
    BY <1>1, <2>1, ModeratedType DEF Model
  <2>3. /\ Len(f[n].mods) = (n - 1) + 1
        /\ \A i \in 1..n - 1 : f[n].mods[i] = f[n - 1].mods[i]
        /\ f[n].mods[(n - 1) + 1] = actions[n]
    BY <2>1, <2>2, AppendProperties
  <2>4. (n - 1) + 1 = n /\ \A i \in 1..n : i \in 1..n - 1 \/ i = n
    BY <1>1
  <2>5. \A i \in 1..n : f[n].mods[i] = actions[i]
    BY <2>1, <2>3, <2>4
  <2> QED BY <2>3, <2>4, <2>5
<1>4. \A n \in 0..N : n \in T
  <2> HIDE DEF N, T
  <2> QED BY <1>1, <1>2, <1>3, UpTo
<1>5. /\ f[N].mods \in Seq(ModActions) /\ Len(f[N].mods) = N
      /\ \A i \in 1..N : f[N].mods[i] = actions[i]
  <2>1. N \in 0..N
    BY <1>1
  <2> QED BY <1>1, <1>4, <2>1 DEF Model
<1>6. f[N].mods = actions
  BY <1>5
<1> QED BY <1>6 DEF f

\* The log of a model after a snapshot
LEMMA SyncedLog ==
    ASSUME NEW v \in Models, NEW s \in Snapshot, NEW p \in Posts
    PROVE  /\ v[p] = Absent => Synced(v, s)[p] = Absent
           /\ v[p] # Absent =>
                /\ Synced(v, s)[p] # Absent
                /\ Synced(v, s)[p].mods =
                     IF s.moderation[p] = << >> \/ Len(v[p].mods) = Len(s.moderation[p])
                     THEN v[p].mods ELSE s.moderation[p]
<1>1. CASE v[p] = Absent
  BY <1>1 DEF Synced
<1>2. CASE v[p] # Absent
  <2> DEFINE m == IF s.recent[p] = Absent THEN v[p] ELSE SyncedRecent(v[p], s.recent[p])
             log == s.moderation[p]
  <2>1. Synced(v, s)[p] = SyncedMods(m, log)
    BY <1>2 DEF Synced
  <2>2. v[p] \in Model /\ log \in Seq(ModActions) /\ s.recent[p] \in CachedPost \cup {Absent}
    BY <1>2 DEF Models, Snapshot
  <2>3. m \in Model /\ m.mods = v[p].mods
    BY <2>2, SyncedRecentType
  <2> HIDE DEF m, log
  <2>4. SyncedMods(m, log) \in Model
        /\ SyncedMods(m, log).mods =
             IF log = << >> \/ Len(m.mods) = Len(log) THEN m.mods ELSE log
    <3>1. CASE log = << >> \/ Len(m.mods) = Len(log)
      BY <2>3, <3>1 DEF SyncedMods
    <3>2. CASE ~(log = << >> \/ Len(m.mods) = Len(log))
      <4>1. SyncedMods(m, log) = Moderating(m, log)[Len(log)]
        BY <3>2 DEF SyncedMods
      <4> QED BY <2>2, <2>3, <3>2, <4>1, ModeratingType, ModeratingMods
    <3> QED BY <3>1, <3>2
  <2> QED BY <1>2, <2>1, <2>3, <2>4, ReplicaAssumption DEF log
<1> QED BY <1>1, <1>2

LEMMA DeliveredAlike ==
    ASSUME NEW v \in Models, NEW w \in Models, NEW p \in Posts, Alike(v[p], w[p]),
           NEW frames \in Seq(Frame),
           \A i \in DOMAIN frames : frames[i].kind = "concat" => ~HasSpoiler(frames[i].msgs)
    PROVE  Alike(Delivered(v, frames)[p], Delivered(w, frames)[p])
<1> DEFINE N == Len(frames)
           f == Delivering(v, frames)
           g == Delivering(w, frames)
           T == {n \in 0..N : Alike(f[n][p], g[n][p])}
<1>1. /\ N \in Nat
      /\ \A n \in 1..N : frames[n] \in Frame
      /\ \A n \in 1..N : frames[n].kind = "concat" => ~HasSpoiler(frames[n].msgs)
      /\ \A n \in 0..N : f[n] \in Models /\ g[n] \in Models
      /\ f[0] = v /\ g[0] = w
      /\ \A n \in 1..N : f[n] = Handle(f[n - 1], frames[n])
      /\ \A n \in 1..N : g[n] = Handle(g[n - 1], frames[n])
  BY DeliveringSteps
<1> HIDE DEF f, g
<1>2. 0 \in T
  BY <1>1
<1>3. ASSUME NEW n \in 1..N, n - 1 \in T PROVE n \in T
  <2>1. f[n - 1] \in Models /\ g[n - 1] \in Models /\ Alike(f[n - 1][p], g[n - 1][p])
    BY <1>1, <1>3
  <2>2. Alike(Handle(f[n - 1], frames[n])[p], Handle(g[n - 1], frames[n])[p])
    <3>1. CASE frames[n].kind = "concat"
      <4>1. frames[n].msgs \in Seq(Message) /\ ~HasSpoiler(frames[n].msgs)
        BY <1>1, <3>1 DEF Frame
      <4> QED BY <2>1, <3>1, <4>1, HandledAllAlike DEF Handle
    <3>2. CASE frames[n].kind # "concat"
      <4>1. frames[n].state \in Snapshot
        BY <1>1, <3>2 DEF Frame
      <4>2. Alike(Synced(f[n - 1], frames[n].state)[p], Synced(g[n - 1], frames[n].state)[p])
        <5> DEFINE s == frames[n].state
                   x == f[n - 1]
                   y == g[n - 1]
        <5>1. s \in Snapshot /\ x \in Models /\ y \in Models /\ Alike(x[p], y[p])
          BY <2>1, <4>1
        <5> HIDE DEF s, x, y
        <5>2. Alike(Synced(x, s)[p], Synced(y, s)[p])
          BY <5>1, SyncedLog DEF Alike
        <5> QED BY <5>2 DEF s, x, y
      <4> QED BY <3>2, <4>2 DEF Handle
    <3> QED BY <3>1, <3>2
  <2>3. Alike(f[n][p], g[n][p])
    BY <1>1, <2>2
  <2> QED BY <2>3
<1>4. \A n \in 0..N : n \in T
  <2> HIDE DEF N, T
  <2> QED BY <1>1, <1>2, <1>3, UpTo
<1>5. Alike(f[N][p], g[N][p])
  BY <1>1, <1>4
<1> QED BY <1>5 DEF f, g, Delivered

-----------------------------------------------------------------------------
(* What is on its way to a browser, and what of it concerns one post.      *)

\* No message is about p.
Unheard(msgs, p) == \A i \in DOMAIN msgs : msgs[i].type = "syncCount" \/ msgs[i].id # p

\* No frame is about p: the snapshots know neither an entry nor a log of it.
Untouched(frames, p) ==
    \A i \in DOMAIN frames :
        /\ frames[i].kind = "concat" => Unheard(frames[i].msgs, p)
        /\ frames[i].kind = "synchronise" => /\ frames[i].state.recent[p] = Absent
                                             /\ frames[i].state.moderation[p] = << >>

LEMMA HandledAllUnheard ==
    ASSUME NEW v \in Models, NEW msgs \in Seq(Message), NEW p \in Posts, Unheard(msgs, p)
    PROVE  HandledAll(v, msgs)[p] = v[p]
<1> DEFINE N == Len(msgs)
           f == Handling(v, msgs)
           T == {n \in 0..N : f[n].v[p] = v[p]}
<1>1. /\ N \in Nat
      /\ \A n \in 1..N : msgs[n] \in Message /\ (msgs[n].type = "syncCount" \/ msgs[n].id # p)
  BY LenProperties, ElementOfSeq DEF Unheard
<1>2. /\ f[0] = [v |-> v, thrown |-> FALSE]
      /\ \A n \in 0..N : f[n] \in Acc
      /\ \A n \in 1..N : f[n] = Taken(f[n - 1], msgs[n])
  BY HandlingSteps
<1> HIDE DEF f
<1>3. 0 \in T
  BY <1>1, <1>2
<1>4. ASSUME NEW n \in 1..N, n - 1 \in T PROVE n \in T
  <2> DEFINE acc == f[n - 1]
             m == msgs[n]
  <2>1. /\ acc \in Acc /\ acc.v \in Models /\ acc.v[p] = v[p]
        /\ m \in Message /\ (m.type = "syncCount" \/ m.id # p)
        /\ f[n] = Taken(acc, m)
    BY <1>1, <1>2, <1>4 DEF Acc
  <2> HIDE DEF acc, m
  <2>2. Handled(acc.v, m)[p] = acc.v[p]
    BY <2>1, HandledType
  <2>3. Taken(acc, m).v \in {acc.v, Handled(acc.v, m)}
    BY <2>1 DEF Taken, Acc
  <2> QED BY <2>1, <2>2, <2>3
<1>5. \A n \in 0..N : n \in T
  <2> HIDE DEF N, T
  <2> QED BY <1>1, <1>3, <1>4, UpTo
<1>6. f[N].v[p] = v[p]
  BY <1>1, <1>5
<1> QED BY <1>6 DEF f, HandledAll

LEMMA DeliveredUntouched ==
    ASSUME NEW v \in Models, NEW frames \in Seq(Frame), NEW p \in Posts, Untouched(frames, p)
    PROVE  Delivered(v, frames)[p] = v[p]
<1> DEFINE N == Len(frames)
           f == Delivering(v, frames)
           T == {n \in 0..N : f[n][p] = v[p]}
<1>1. /\ N \in Nat
      /\ \A n \in 1..N : frames[n] \in Frame
      /\ \A n \in 1..N :
           /\ frames[n].kind = "concat" => Unheard(frames[n].msgs, p)
           /\ frames[n].kind = "synchronise" => /\ frames[n].state.recent[p] = Absent
                                                /\ frames[n].state.moderation[p] = << >>
  BY LenProperties, ElementOfSeq DEF Untouched
<1>2. /\ f[0] = v
      /\ \A n \in 0..N : f[n] \in Models
      /\ \A n \in 1..N : f[n] = Handle(f[n - 1], frames[n])
  BY DeliveringSteps
<1> HIDE DEF f
<1>3. 0 \in T
  BY <1>1, <1>2
<1>4. ASSUME NEW n \in 1..N, n - 1 \in T PROVE n \in T
  <2> DEFINE w == f[n - 1]
             frame == frames[n]
  <2>1. /\ w \in Models /\ w[p] = v[p] /\ frame \in Frame
        /\ f[n] = Handle(w, frame)
        /\ frame.kind = "concat" => Unheard(frame.msgs, p)
        /\ frame.kind = "synchronise" => /\ frame.state.recent[p] = Absent
                                         /\ frame.state.moderation[p] = << >>
    BY <1>1, <1>2, <1>4
  <2> HIDE DEF w, frame
  <2>2. CASE frame.kind = "concat"
    <3>1. frame.msgs \in Seq(Message)
      BY <2>1, <2>2 DEF Frame
    <3> QED BY <2>1, <2>2, <3>1, HandledAllUnheard DEF Handle
  <2>3. CASE frame.kind = "synchronise"
    <3>1. Synced(w, frame.state)[p] = w[p]
      BY <2>1, <2>3 DEF Synced, SyncedMods
    <3> QED BY <2>1, <2>3, <3>1 DEF Handle
  <2>4. frame.kind \in {"concat", "synchronise"}
    BY <2>1 DEF Frame
  <2> QED BY <2>2, <2>3, <2>4
<1>5. \A n \in 0..N : n \in T
  <2> HIDE DEF N, T
  <2> QED BY <1>1, <1>3, <1>4, UpTo
<1>6. f[N][p] = v[p]
  BY <1>1, <1>5
<1> QED BY <1>6 DEF f, Delivered

\* The frames from the k-th on
Suffix(frames, k) == SubSeq(frames, k, Len(frames))

LEMMA SameFrames ==
    ASSUME NEW s \in Seq(Frame), NEW t \in Seq(Frame), Len(s) = Len(t),
           \A i \in 1..Len(s) : s[i] = t[i]
    PROVE  s = t
OBVIOUS

LEMMA SuffixParts ==
    ASSUME NEW s \in Seq(Frame), NEW k \in 1..Len(s) + 1
    PROVE  /\ Suffix(s, k) \in Seq(Frame)
           /\ Len(Suffix(s, k)) = Len(s) + 1 - k
           /\ \A i \in 1..Len(s) + 1 - k : Suffix(s, k)[i] = s[k + i - 1]
<1>1. Len(s) \in Nat /\ k \in Int /\ Len(s) \in Int
  BY LenProperties
<1>2. \A i \in k..Len(s) : s[i] \in Frame
  <2>1. \A i \in k..Len(s) : i \in 1..Len(s)
    BY <1>1
  <2> QED BY <2>1, ElementOfSeq
<1>3. /\ Suffix(s, k) \in Seq(Frame)
      /\ Len(Suffix(s, k)) = IF k <= Len(s) THEN Len(s) - k + 1 ELSE 0
      /\ \A i \in 1..Len(s) - k + 1 : Suffix(s, k)[i] = s[k + i - 1]
  BY <1>1, <1>2, SubSeqProperties DEF Suffix
<1>4. Len(s) + 1 - k = Len(s) - k + 1 /\ (~(k <= Len(s)) => Len(s) - k + 1 = 0)
  BY <1>1
<1> QED BY <1>3, <1>4

LEMMA SuffixEnds ==
    ASSUME NEW s \in Seq(Frame)
    PROVE  /\ Suffix(s, 1) = s
           /\ Suffix(s, Len(s) + 1) = << >>
<1>1. Len(s) \in Nat /\ 1 \in 1..Len(s) + 1 /\ Len(s) + 1 - 1 = Len(s)
  BY LenProperties
<1>2. /\ Suffix(s, 1) \in Seq(Frame) /\ Len(Suffix(s, 1)) = Len(s)
      /\ \A i \in 1..Len(s) : Suffix(s, 1)[i] = s[1 + i - 1]
  BY <1>1, SuffixParts
<1>3. \A i \in 1..Len(s) : 1 + i - 1 = i
  BY <1>1
<1>4. Suffix(s, 1) = s
  BY <1>2, <1>3, SameFrames
<1>5. Suffix(s, Len(s) + 1) = << >>
  BY <1>1, SubSeqEmpty DEF Suffix
<1> QED BY <1>4, <1>5

LEMMA SuffixTail ==
    ASSUME NEW s \in Seq(Frame), s # << >>, NEW k \in 1..Len(s)
    PROVE  Suffix(Tail(s), k) = Suffix(s, k + 1)
<1> DEFINE t == Tail(s)
<1>1. /\ Len(s) \in Nat /\ t \in Seq(Frame) /\ Len(t) = Len(s) - 1
      /\ \A i \in 1..Len(s) - 1 : t[i] = s[i + 1]
  BY LenProperties, HeadTailProperties
<1> HIDE DEF t
<1>2. k \in 1..Len(t) + 1 /\ k + 1 \in 1..Len(s) + 1 /\ Len(t) + 1 - k = Len(s) + 1 - (k + 1)
  BY <1>1
<1>3. /\ Suffix(t, k) \in Seq(Frame)
      /\ Len(Suffix(t, k)) = Len(t) + 1 - k
      /\ \A i \in 1..Len(t) + 1 - k : Suffix(t, k)[i] = t[k + i - 1]
  BY <1>1, <1>2, SuffixParts
<1>4. /\ Suffix(s, k + 1) \in Seq(Frame)
      /\ Len(Suffix(s, k + 1)) = Len(t) + 1 - k
      /\ \A i \in 1..Len(t) + 1 - k : Suffix(s, k + 1)[i] = s[k + 1 + i - 1]
  BY <1>2, SuffixParts
<1>5. ASSUME NEW i \in 1..Len(t) + 1 - k PROVE t[k + i - 1] = s[k + 1 + i - 1]
  <2>1. k + i - 1 \in 1..Len(s) - 1 /\ (k + i - 1) + 1 = k + 1 + i - 1
    BY <1>1
  <2> QED BY <1>1, <2>1
<1>6. /\ Len(Suffix(t, k)) = Len(Suffix(s, k + 1))
      /\ \A i \in 1..Len(Suffix(t, k)) : Suffix(t, k)[i] = Suffix(s, k + 1)[i]
  BY <1>3, <1>4, <1>5
<1>7. Suffix(t, k) = Suffix(s, k + 1)
  BY <1>3, <1>4, <1>6, SameFrames
<1> QED BY <1>7 DEF t

LEMMA SuffixAppend ==
    ASSUME NEW s \in Seq(Frame), NEW frame \in Frame, NEW k \in 1..Len(s) + 1
    PROVE  Suffix(Append(s, frame), k) = Append(Suffix(s, k), frame)
<1> DEFINE t == Append(s, frame)
           u == Suffix(s, k)
           N == Len(s) + 1 - k
<1>1. /\ Len(s) \in Nat /\ t \in Seq(Frame) /\ Len(t) = Len(s) + 1
      /\ \A i \in 1..Len(s) : t[i] = s[i]
      /\ t[Len(s) + 1] = frame
  BY LenProperties, AppendProperties
<1>2. /\ u \in Seq(Frame) /\ Len(u) = N
      /\ \A i \in 1..N : u[i] = s[k + i - 1]
  BY SuffixParts
<1> HIDE DEF t, u
<1>3. /\ Append(u, frame) \in Seq(Frame) /\ Len(Append(u, frame)) = N + 1
      /\ \A i \in 1..N : Append(u, frame)[i] = u[i]
      /\ Append(u, frame)[N + 1] = frame
  BY <1>2, AppendProperties
<1>4. k \in 1..Len(t) + 1 /\ Len(t) + 1 - k = N + 1 /\ N \in Nat
  BY <1>1
<1>5. /\ Suffix(t, k) \in Seq(Frame) /\ Len(Suffix(t, k)) = N + 1
      /\ \A i \in 1..N + 1 : Suffix(t, k)[i] = t[k + i - 1]
  BY <1>1, <1>4, SuffixParts
<1> HIDE DEF N
<1>6. ASSUME NEW i \in 1..N + 1 PROVE Suffix(t, k)[i] = Append(u, frame)[i]
  <2>1. CASE i = N + 1
    <3>1. k + i - 1 = Len(s) + 1
      BY <1>1, <2>1 DEF N
    <3> QED BY <1>1, <1>3, <1>5, <2>1, <3>1
  <2>2. CASE i \in 1..N
    <3>1. k + i - 1 \in 1..Len(s)
      BY <1>1, <2>2 DEF N
    <3>2. Suffix(t, k)[i] = t[k + i - 1] /\ t[k + i - 1] = s[k + i - 1]
      BY <1>1, <1>5, <3>1
    <3>3. Append(u, frame)[i] = u[i] /\ u[i] = s[k + i - 1]
      BY <1>2, <1>3, <2>2
    <3> QED BY <3>2, <3>3
  <2>3. i = N + 1 \/ i \in 1..N
    BY <1>4
  <2> QED BY <2>1, <2>2, <2>3
<1>7. Suffix(t, k) = Append(u, frame)
  BY <1>3, <1>5, <1>6, SameFrames
<1> QED BY <1>7 DEF t, u

-----------------------------------------------------------------------------
(* Messages on their way carry a moderation log.                           *)

\* The page, once it has handled the frames and then the messages
Outcome(v, frames, msgs) == HandledAll(Delivered(v, frames), msgs)

Spoils(frames, msgs) ==
    \/ HasSpoiler(msgs)
    \/ \E i \in DOMAIN frames : frames[i].kind = "concat" /\ HasSpoiler(frames[i].msgs)

\* A page that has the log of p keeps it, whatever is handled: nothing on its way
\* brings back an earlier log.
Heals(frames, msgs, log, p) ==
    ~Spoils(frames, msgs) =>
        \A v \in Models : Within(log, v[p]) => Within(log, Outcome(v, frames, msgs)[p])

LEMMA OutcomeType ==
    ASSUME NEW v \in Models, NEW frames \in Seq(Frame), NEW msgs \in Seq(Message)
    PROVE  Delivered(v, frames) \in Models /\ Outcome(v, frames, msgs) \in Models
<1>1. Delivered(v, frames) \in Models
  BY DeliveredType
<1> QED BY <1>1, HandledAllType DEF Outcome

LEMMA DeliveredNone ==
    ASSUME NEW v \in Models
    PROVE  Delivered(v, << >>) = v
<1>1. << >> \in Seq(Frame) /\ Len(<< >>) = 0
  BY EmptySeq
<1> QED BY <1>1, DeliveringSteps DEF Delivered

\* Of nothing sent and of an empty log
LEMMA HealsNone ==
    ASSUME NEW p \in Posts, NEW log
    PROVE  Heals(<< >>, << >>, log, p)
BY DeliveredNone, HandlingNone DEF Heals, Outcome

LEMMA HealsEmpty ==
    ASSUME NEW p \in Posts, NEW frames \in Seq(Frame), NEW msgs \in Seq(Message)
    PROVE  Heals(frames, msgs, << >>, p)
<1>1. ToSet(<< >>) = {}
  BY DEF ToSet
<1> QED BY <1>1 DEF Heals, Within

\* Messages before the last have no spoiler if the whole has none.
LEMMA SpoilsLess ==
    ASSUME NEW frames, NEW msgs \in Seq(Message), NEW m \in Message
    PROVE  ~Spoils(frames, Append(msgs, m)) =>
             /\ ~Spoils(frames, msgs) /\ ~HasSpoiler(msgs) /\ m.type # "spoiler"
<1> DEFINE more == Append(msgs, m)
<1>1. /\ Len(msgs) \in Nat /\ DOMAIN msgs = 1..Len(msgs)
      /\ more \in Seq(Message) /\ Len(more) = Len(msgs) + 1
      /\ \A i \in 1..Len(msgs) : more[i] = msgs[i]
      /\ more[Len(msgs) + 1] = m
  BY LenProperties, AppendProperties
<1> HIDE DEF more
<1>2. DOMAIN more = 1..Len(msgs) + 1
  BY <1>1, LenProperties
<1>3. 1..Len(msgs) \subseteq 1..Len(msgs) + 1 /\ Len(msgs) + 1 \in 1..Len(msgs) + 1
  BY <1>1
<1>4. ~HasSpoiler(more) => ~HasSpoiler(msgs) /\ m.type # "spoiler"
  BY <1>1, <1>2, <1>3 DEF HasSpoiler
<1>5. ~Spoils(frames, more) => ~HasSpoiler(more)
  BY DEF Spoils
<1>6. ~Spoils(frames, more) /\ ~HasSpoiler(msgs) => ~Spoils(frames, msgs)
  BY DEF Spoils
<1> QED BY <1>4, <1>5, <1>6 DEF more

\* Of one message more: one that makes of a page with the log one with the new log,
LEMMA HealsMore ==
    ASSUME NEW p \in Posts, NEW frames \in Seq(Frame), NEW msgs \in Seq(Message),
           NEW m \in Message, NEW log, NEW new,
           Heals(frames, msgs, log, p), ToSet(log) \subseteq ToSet(new),
           \A x \in Models : Within(log, x[p]) => Within(new, Handled(x, m)[p])
    PROVE  Heals(frames, Append(msgs, m), new, p)
<1> SUFFICES ASSUME ~Spoils(frames, Append(msgs, m)), NEW v \in Models, Within(new, v[p])
             PROVE  Within(new, Outcome(v, frames, Append(msgs, m))[p])
  BY DEF Heals
<1>1. ~Spoils(frames, msgs) /\ ~HasSpoiler(msgs) /\ m.type # "spoiler"
  BY SpoilsLess
<1>2. Within(log, v[p])
  BY DEF Within
<1>3. Within(log, Outcome(v, frames, msgs)[p])
  BY <1>1, <1>2 DEF Heals
<1>4. Delivered(v, frames) \in Models /\ Outcome(v, frames, msgs) \in Models
  BY OutcomeType
<1>5. Outcome(v, frames, Append(msgs, m)) = Handled(Outcome(v, frames, msgs), m)
  BY <1>1, <1>4, HandledAllAppend DEF Outcome
<1>6. Within(new, Handled(Outcome(v, frames, msgs), m)[p])
  BY <1>3, <1>4
<1> QED BY <1>5, <1>6

\* one that is not about the post,
LEMMA HealsOther ==
    ASSUME NEW p \in Posts, NEW frames \in Seq(Frame), NEW msgs \in Seq(Message),
           NEW m \in Message, m.type = "syncCount" \/ m.id # p, NEW log,
           Heals(frames, msgs, log, p)
    PROVE  Heals(frames, Append(msgs, m), log, p)
<1>1. \A x \in Models : Handled(x, m)[p] = x[p]
  BY HandledType
<1> QED BY <1>1, HealsMore

\* and the insertion of the post, of which nothing has been said before.
LEMMA HealsInsertion ==
    ASSUME NEW p \in Posts, NEW frames \in Seq(Frame), NEW msgs \in Seq(Message),
           Untouched(frames, p), Unheard(msgs, p),
           NEW m \in Message, m.type = "insertPost", m.id = p,
           NEW log, ToSet(log) \subseteq ToSet(m.mods)
    PROVE  Heals(frames, Append(msgs, m), log, p)
<1> SUFFICES ASSUME ~Spoils(frames, Append(msgs, m)), NEW v \in Models, Within(log, v[p])
             PROVE  Within(log, Outcome(v, frames, Append(msgs, m))[p])
  BY DEF Heals
<1>1. ~Spoils(frames, msgs) /\ ~HasSpoiler(msgs) /\ m.type # "spoiler"
  BY SpoilsLess
<1>2. Delivered(v, frames) \in Models /\ Outcome(v, frames, msgs) \in Models
  BY OutcomeType
<1>3. Outcome(v, frames, Append(msgs, m)) = Handled(Outcome(v, frames, msgs), m)
  BY <1>1, <1>2, HandledAllAppend DEF Outcome
<1>4. Delivered(v, frames)[p] = v[p]
  BY DeliveredUntouched
<1>5. Outcome(v, frames, msgs)[p] = v[p]
  BY <1>2, <1>4, HandledAllUnheard DEF Outcome
<1>6. Handled(Outcome(v, frames, msgs), m)[p] = IF v[p] = Absent THEN FromMessage(m) ELSE v[p]
  BY <1>2, <1>5, HandledModel
<1>7. FromMessage(m).mods = m.mods
  BY DEF FromMessage
<1> QED BY <1>3, <1>6, <1>7 DEF Within

\* A flush only puts the messages into a frame.
LEMMA HealsFlush ==
    ASSUME NEW p \in Posts, NEW frames \in Seq(Frame), NEW msgs \in Seq(Message), NEW log,
           NEW frame \in Frame, frame.kind = "concat", frame.msgs = msgs,
           Heals(frames, msgs, log, p)
    PROVE  Heals(Append(frames, frame), << >>, log, p)
<1> DEFINE more == Append(frames, frame)
<1>1. /\ Len(frames) \in Nat /\ DOMAIN frames = 1..Len(frames)
      /\ more \in Seq(Frame) /\ Len(more) = Len(frames) + 1
      /\ \A i \in 1..Len(frames) : more[i] = frames[i]
      /\ more[Len(frames) + 1] = frame
  BY LenProperties, AppendProperties
<1>2. \A v \in Models : Delivered(v, more) = HandledAll(Delivered(v, frames), msgs)
  BY DeliveredAppend DEF Handle
<1> HIDE DEF more
<1>3. DOMAIN more = 1..Len(frames) + 1
  BY <1>1, LenProperties
<1>4. 1..Len(frames) \subseteq 1..Len(frames) + 1 /\ Len(frames) + 1 \in 1..Len(frames) + 1
  BY <1>1
<1>5. ~Spoils(more, << >>) => ~Spoils(frames, msgs)
  <2>1. HasSpoiler(msgs) => Spoils(more, << >>)
    BY <1>1, <1>3, <1>4 DEF Spoils
  <2>2. (\E i \in DOMAIN frames : frames[i].kind = "concat" /\ HasSpoiler(frames[i].msgs))
          => Spoils(more, << >>)
    BY <1>1, <1>3, <1>4 DEF Spoils
  <2> QED BY <2>1, <2>2 DEF Spoils
<1>6. ASSUME NEW v \in Models PROVE Outcome(v, more, << >>) = Outcome(v, frames, msgs)
  <2>1. Outcome(v, frames, msgs) \in Models
    BY OutcomeType
  <2>2. HandledAll(Outcome(v, frames, msgs), << >>) = Outcome(v, frames, msgs)
    BY <2>1, HandlingNone
  <2> QED BY <1>2, <2>2 DEF Outcome
<1> QED BY <1>5, <1>6 DEF Heals, more

\* A snapshot has the log.
LEMMA HealsSnapshot ==
    ASSUME NEW p \in Posts, NEW msgs \in Seq(Message),
           NEW frame \in Frame, frame.kind = "synchronise",
           Heals(<< >>, msgs, frame.state.moderation[p], p)
    PROVE  Heals(<<frame>>, msgs, frame.state.moderation[p], p)
<1> DEFINE log == frame.state.moderation[p]
           s == frame.state
<1>1. s \in Snapshot
  BY DEF Frame
<1>2. << >> \in Seq(Frame) /\ <<frame>> = Append(<< >>, frame)
  BY EmptySeq
<1> SUFFICES ASSUME ~Spoils(<<frame>>, msgs), NEW v \in Models, Within(log, v[p])
             PROVE  Within(log, Outcome(v, <<frame>>, msgs)[p])
  BY DEF Heals
<1>3. ~Spoils(<< >>, msgs)
  BY DEF Spoils
<1>4. Delivered(v, <<frame>>) = Synced(v, s)
  <2>1. Delivered(v, Append(<< >>, frame)) = Handle(Delivered(v, << >>), frame)
    BY <1>2, DeliveredAppend
  <2>2. Handle(v, frame) = Synced(v, s)
    BY DEF Handle
  <2> QED BY <1>2, <2>1, <2>2, DeliveredNone
<1>5. Synced(v, s) \in Models
  BY <1>1, SyncedType
<1> HIDE DEF s
<1>6. Within(log, Synced(v, s)[p])
  <2>1. /\ v[p] = Absent => Synced(v, s)[p] = Absent
        /\ v[p] # Absent =>
             /\ Synced(v, s)[p] # Absent
             /\ Synced(v, s)[p].mods \in {v[p].mods, s.moderation[p]}
    BY <1>1, SyncedLog
  <2>2. s.moderation[p] = log
    BY DEF s
  <2> HIDE DEF log
  <2> QED BY <2>1, <2>2 DEF Within
<1> HIDE DEF log
<1>7. Outcome(Synced(v, s), << >>, msgs) = Outcome(v, <<frame>>, msgs)
  BY <1>4, <1>5, DeliveredNone DEF Outcome
<1>8. Heals(<< >>, msgs, log, p)
  BY DEF log
<1>9. Within(log, Outcome(Synced(v, s), << >>, msgs)[p])
  BY <1>3, <1>5, <1>6, <1>8 DEF Heals
<1> QED BY <1>7, <1>9

-----------------------------------------------------------------------------
(* What a change says of the moderation log.                               *)

SyncCount == [type |-> "syncCount"]

\* The message a change of q buffers: the insertion of a new post with its log,
\* or an update that adds to the log what it says.
Announces(q, msg) ==
    /\ msg.type # "syncCount" /\ msg.id = q
    /\ buffer' = Append(buffer, msg) \/ buffer' = Append(Append(buffer, msg), SyncCount)
    /\ post[q].state = "none" => /\ msg.type = "insertPost"
                                 /\ ToSet(moderation'[q]) \subseteq ToSet(msg.mods)
    /\ post[q].state # "none" =>
         /\ msg.type # "insertPost"
         /\ moderation'[q] = IF msg.type = "moderatePost" THEN Append(moderation[q], msg.entry)
                                                          ELSE moderation[q]

\* It buffers one, or leaves the log.
Announced(q) ==
    \/ /\ moderation'[q] = moderation[q]
       /\ buffer' = buffer \/ buffer' = Append(buffer, SyncCount)
    \/ \E msg \in Message : Announces(q, msg)

LogFrame(q) ==
    /\ \A p \in Posts \ {q} : post'[p] = post[p] /\ moderation'[p] = moderation[p]
    /\ post'[q].state # "none"
    /\ post[q].state = "closed" => post'[q].state = "closed"
    /\ ~running => buffer' = buffer
    /\ ToSet(moderation'[q]) \subseteq ToSet(post'[q].mods)
    /\ Announced(q)

LEMMA ChangePostLog ==
    ASSUME TypeOK, ModerationInv, NEW q \in Posts, ChangePost(q), post[OP].state = "closed",
           ToSet(moderation[q]) \subseteq ToSet(post[q].mods)
    PROVE  LogFrame(q)
<1>1. /\ post[q] \in PostRow /\ post \in [Posts -> PostRow]
      /\ moderation \in [Posts -> Seq(ModActions)] /\ buffer \in Seq(Message)
      /\ post[q].state = "none" => post[q].mods = << >>
      /\ running /\ q # OP => moderation[q] = post[q].mods
      /\ post[q].mods \in Seq(ModActions)
  BY DEF TypeOK, PostRow, ModerationInv, ModerationMirrored
<1>2. ASSUME NEW row \in NewRows, InsertPost(q, row)
      PROVE  LogFrame(q)
  <2> DEFINE msg == [type |-> "insertPost", id |-> q, post |-> Cached(row), mods |-> row.mods]
  <2>1. /\ post[q].state = "none" /\ post' = [post EXCEPT ![q] = row]
        /\ row \in PostRow /\ row.state # "none"
    BY <1>2, NewRowType DEF InsertPost, NewRows
  <2>2. msg \in Message /\ msg.type = "insertPost" /\ msg.id = q /\ msg.mods = row.mods
    BY <2>1, CachedType DEF Message, PostRow
  <2>3. ToSet(moderation[q]) \subseteq ToSet(row.mods)
    <3>1. ToSet(<< >>) = {}
      BY DEF ToSet
    <3> QED BY <1>1, <2>1, <3>1
  <2>4. CASE ~running
    <3>1. UNCHANGED <<moderation, buffer>>
      BY <1>2, <2>4 DEF InsertPost, IfRunning
    <3> QED BY <1>1, <2>1, <2>3, <2>4, <3>1 DEF LogFrame, Announced
  <2>5. CASE running
    <3>1. /\ moderation' = IF row.mods = << >> THEN moderation
                           ELSE [moderation EXCEPT ![q] = row.mods]
          /\ SendIPCount(members, Append(buffer, msg), TRUE)
      BY <1>2, <2>5 DEF InsertPost, IfRunning
    <3> HIDE DEF msg
    <3>2. buffer' = Append(buffer, msg) \/ buffer' = Append(Append(buffer, msg), SyncCount)
      BY <3>1 DEF SendIPCount, SyncCount
    <3>3. ToSet(moderation'[q]) \subseteq ToSet(row.mods)
      BY <1>1, <2>3, <3>1
    <3>4. \A p \in Posts \ {q} : moderation'[p] = moderation[p]
      BY <1>1, <3>1
    <3>5. Announces(q, msg)
      BY <2>1, <2>2, <3>2, <3>3 DEF Announces
    <3> QED BY <1>1, <2>1, <2>2, <2>5, <3>3, <3>4, <3>5 DEF LogFrame, Announced
  <2> QED BY <2>4, <2>5
<1>3. CASE Reclaim(q)
  <2>1. /\ running /\ post[q].state = "open" /\ UNCHANGED post
        /\ moderation' = IF Deleted(q) THEN [moderation EXCEPT ![q] = post[q].mods]
                                       ELSE moderation
        /\ buffer' = buffer \/ buffer' = Append(buffer, SyncCount)
    BY <1>3 DEF Reclaim, SendIPCount, SyncCount
  <2>2. q # OP /\ moderation[q] = post[q].mods
    BY <1>1, <2>1
  <2>3. moderation'[q] = moderation[q] /\ \A p \in Posts \ {q} : moderation'[p] = moderation[p]
    BY <1>1, <2>1, <2>2
  <2> QED BY <1>1, <2>1, <2>2, <2>3 DEF LogFrame, Announced
\* An update that says nothing of the log
<1>4. ASSUME NEW row \in PostRow, NEW msg \in Message,
             post' = [post EXCEPT ![q] = row], row.mods = post[q].mods, row.state # "none",
             post[q].state = "closed" => row.state = "closed", post[q].state # "none",
             msg.type \notin {"syncCount", "insertPost", "moderatePost"}, msg.id = q,
             UNCHANGED moderation,
             buffer' = IF running THEN Append(buffer, msg) ELSE buffer
      PROVE  LogFrame(q)
  <2>1. CASE running
    <3>1. Announces(q, msg)
      BY <1>4, <2>1 DEF Announces
    <3> QED BY <1>1, <1>4, <2>1, <3>1 DEF LogFrame, Announced
  <2>2. CASE ~running
    BY <1>1, <1>4, <2>2 DEF LogFrame, Announced
  <2> QED BY <2>1, <2>2
<1>5. CASE EditBody(q)
  <2>1. PICK body \in Seq(Chars), msg \in Message : SetOpenBody(q, body, msg) /\ Tells(q, body, msg)
    BY <1>5, EditBodyType
  <2> DEFINE row == [post[q] EXCEPT !.body = body]
  <2>2. /\ post' = [post EXCEPT ![q] = row]
        /\ running /\ buffer' = Append(buffer, msg) /\ UNCHANGED moderation
        /\ post[q].state = "open"
        /\ msg.type \notin {"syncCount", "insertPost", "moderatePost"} /\ msg.id = q
    BY <1>1, <2>1 DEF SetOpenBody, ModifyPost, Editable, Tells
  <2>3. row \in PostRow /\ row.mods = post[q].mods /\ row.state = post[q].state
    BY <1>1 DEF PostRow
  <2> HIDE DEF row
  <2> QED BY <1>4, <2>2, <2>3
<1>6. ASSUME NEW spoiler \in BOOLEAN, InsertImage(q, spoiler)
      PROVE  LogFrame(q)
  <2> DEFINE row == [post[q] EXCEPT !.image = TRUE, !.spoiler = spoiler]
             msg == [type |-> "insertImage", id |-> q, spoilered |-> spoiler]
  <2>1. /\ post' = [post EXCEPT ![q] = row]
        /\ running /\ buffer' = Append(buffer, msg) /\ UNCHANGED moderation
        /\ post[q].state = "open"
    BY <1>1, <1>6 DEF InsertImage, ModifyPost, Editable
  <2>2. row \in PostRow /\ row.mods = post[q].mods /\ row.state = post[q].state
    BY <1>1 DEF PostRow
  <2>3. msg \in Message /\ msg.type \notin {"syncCount", "insertPost", "moderatePost"} /\ msg.id = q
    BY DEF Message
  <2> HIDE DEF row, msg
  <2> QED BY <1>4, <2>1, <2>2, <2>3
<1>7. CASE SpoilerImage(q)
  <2> DEFINE row == [post[q] EXCEPT !.spoiler = TRUE]
             msg == [type |-> "spoiler", id |-> q]
  <2>1. /\ post' = [post EXCEPT ![q] = row]
        /\ running /\ buffer' = Append(buffer, msg) /\ UNCHANGED moderation
        /\ post[q].state = "open"
    BY <1>1, <1>7 DEF SpoilerImage, ModifyPost, Editable
  <2>2. row \in PostRow /\ row.mods = post[q].mods /\ row.state = post[q].state
    BY <1>1 DEF PostRow
  <2>3. msg \in Message /\ msg.type \notin {"syncCount", "insertPost", "moderatePost"} /\ msg.id = q
    BY DEF Message
  <2> HIDE DEF row, msg
  <2> QED BY <1>4, <2>1, <2>2, <2>3
<1>8. CASE ClosePost(q)
  <2> DEFINE row == [post[q] EXCEPT !.state = "closed"]
             msg == [type |-> "closePost", id |-> q]
  <2>1. /\ post' = [post EXCEPT ![q] = row]
        /\ post[q].state = "open"
        /\ UNCHANGED moderation
        /\ buffer' = IF running THEN Append(buffer, msg) ELSE buffer
    BY <1>1, <1>8 DEF ClosePost, IfRunning, ModifyPost
  <2>2. row \in PostRow /\ row.mods = post[q].mods /\ row.state = "closed"
    BY <1>1 DEF PostRow
  <2>3. msg \in Message /\ msg.type \notin {"syncCount", "insertPost", "moderatePost"} /\ msg.id = q
    BY DEF Message
  <2> HIDE DEF row, msg
  <2> QED BY <1>4, <2>1, <2>2, <2>3
<1>9. ASSUME NEW action \in ModActions, ModeratePost(q, action)
      PROVE  LogFrame(q)
  <2> DEFINE row == ModeratedRow(post[q], action)
             msg == [type |-> "moderatePost", id |-> q, entry |-> action]
  <2>1. post' = [post EXCEPT ![q] = row] /\ post[q].state # "none"
    BY <1>9 DEF ModeratePost
  <2>2. row.mods = Append(post[q].mods, action) /\ row.state = post[q].state
    BY <1>1, ModeratedRowType
  <2>3. msg \in Message /\ msg.type = "moderatePost" /\ msg.id = q /\ msg.entry = action
    BY DEF Message
  <2>4. /\ moderation' = IF running
                           THEN [moderation EXCEPT ![q] = Append(moderation[q], action)]
                           ELSE moderation
        /\ buffer' = IF running THEN Append(buffer, msg) ELSE buffer
    BY <1>9 DEF ModeratePost, IfRunning
  <2> HIDE DEF row, msg
  <2>5. ToSet(row.mods) = ToSet(post[q].mods) \cup {action}
    BY <1>1, <2>2, ToSetAppend
  <2>6. post'[q] = row /\ \A p \in Posts \ {q} : post'[p] = post[p]
    BY <1>1, <2>1
  <2>7. CASE ~running
    BY <2>1, <2>2, <2>4, <2>5, <2>6, <2>7 DEF LogFrame, Announced
  <2>8. CASE running
    <3>1. moderation[q] \in Seq(ModActions)
      BY <1>1
    <3>2. /\ moderation'[q] = Append(moderation[q], action)
          /\ \A p \in Posts \ {q} : moderation'[p] = moderation[p]
      BY <1>1, <2>4, <2>8
    <3>3. ToSet(moderation'[q]) = ToSet(moderation[q]) \cup {action}
      BY <3>1, <3>2, ToSetAppend
    <3>4. Announces(q, msg)
      BY <2>1, <2>3, <2>4, <2>8, <3>2 DEF Announces
    <3> QED BY <2>1, <2>2, <2>3, <2>5, <2>6, <2>8, <3>2, <3>3, <3>4 DEF LogFrame, Announced
  <2> QED BY <2>7, <2>8
<1> QED BY ConstantsAssumption, <1>2, <1>3, <1>5, <1>6, <1>7, <1>8, <1>9
        DEF ChangePost, EditBody

LEMMA UnheardAppend ==
    ASSUME NEW msgs \in Seq(Message), NEW m \in Message, NEW p \in Posts, Unheard(msgs, p),
           m.type = "syncCount" \/ m.id # p
    PROVE  Unheard(Append(msgs, m), p)
<1> DEFINE more == Append(msgs, m)
<1>1. /\ Len(msgs) \in Nat /\ DOMAIN msgs = 1..Len(msgs)
      /\ more \in Seq(Message) /\ Len(more) = Len(msgs) + 1
      /\ \A i \in 1..Len(msgs) : more[i] = msgs[i]
      /\ more[Len(msgs) + 1] = m
  BY LenProperties, AppendProperties
<1> HIDE DEF more
<1>2. DOMAIN more = 1..Len(msgs) + 1
  BY <1>1, LenProperties
<1>3. \A i \in 1..Len(msgs) + 1 : i \in 1..Len(msgs) \/ i = Len(msgs) + 1
  BY <1>1
<1>4. Unheard(more, p)
  BY <1>1, <1>2, <1>3 DEF Unheard
<1> QED BY <1>4 DEF more

\* The frame is not about p.
Omits(frame, p) ==
    /\ frame.kind = "concat" => Unheard(frame.msgs, p)
    /\ frame.kind = "synchronise" => /\ frame.state.recent[p] = Absent
                                     /\ frame.state.moderation[p] = << >>

LEMMA UntouchedAppend ==
    ASSUME NEW frames \in Seq(Frame), NEW frame \in Frame, NEW p \in Posts,
           Untouched(frames, p), Omits(frame, p)
    PROVE  Untouched(Append(frames, frame), p)
<1> DEFINE more == Append(frames, frame)
<1>1. /\ Len(frames) \in Nat /\ DOMAIN frames = 1..Len(frames)
      /\ more \in Seq(Frame) /\ Len(more) = Len(frames) + 1
      /\ \A i \in 1..Len(frames) : more[i] = frames[i]
      /\ more[Len(frames) + 1] = frame
  BY LenProperties, AppendProperties
<1> HIDE DEF more
<1>2. DOMAIN more = 1..Len(frames) + 1
  BY <1>1, LenProperties
<1>3. \A i \in 1..Len(frames) + 1 : i \in 1..Len(frames) \/ i = Len(frames) + 1
  BY <1>1
<1>4. Untouched(more, p)
  BY <1>1, <1>2, <1>3 DEF Untouched, Omits
<1> QED BY <1>4 DEF more

LEMMA UntouchedSuffix ==
    ASSUME NEW frames \in Seq(Frame), NEW p \in Posts, Untouched(frames, p),
           NEW k \in 1..Len(frames) + 1
    PROVE  Untouched(Suffix(frames, k), p)
<1> DEFINE s == Suffix(frames, k)
           N == Len(frames) + 1 - k
<1>1. /\ s \in Seq(Frame) /\ Len(s) = N
      /\ \A i \in 1..N : s[i] = frames[k + i - 1]
  BY SuffixParts
<1>2. Len(frames) \in Nat /\ DOMAIN frames = 1..Len(frames)
  BY LenProperties
<1>3. \A i \in 1..N : k + i - 1 \in DOMAIN frames
  BY <1>2
<1> HIDE DEF s, N
<1>4. DOMAIN s = 1..N
  BY <1>1, LenProperties
<1>5. Untouched(s, p)
  BY <1>1, <1>3, <1>4 DEF Untouched
<1> QED BY <1>5 DEF s

\* An existing log that is empty, as a set, is empty.
LEMMA EmptyLog ==
    ASSUME NEW log \in Seq(ModActions), ToSet(log) \subseteq ToSet(<< >>)
    PROVE  log = << >>
<1>1. ToSet(<< >>) = {}
  BY DEF ToSet
<1>2. Len(log) \in Nat /\ DOMAIN log = 1..Len(log)
  BY LenProperties
<1>3. Len(log) = 0
  <2>1. Len(log) > 0 => 1 \in DOMAIN log
    BY <1>2
  <2>2. \A i \in DOMAIN log : log[i] \in ToSet(log)
    BY DEF ToSet
  <2> QED BY <1>1, <1>2, <2>1, <2>2
<1> QED BY <1>3, EmptySeq

\* A page that has the log is given what a change adds to it.
LEMMA AnnouncementHandled ==
    ASSUME TypeOK, NEW p \in Posts, NEW q \in Posts, NEW msg \in Message, Announces(q, msg),
           p # q => moderation'[p] = moderation[p],
           NEW x \in Models, Within(moderation[p], x[p]),
           p = q /\ post[q].state = "none" => x[p] = Absent
    PROVE  Within(moderation'[p], Handled(x, msg)[p])
<1>1. CASE p # q
  <2>1. Handled(x, msg)[p] = x[p]
    BY <1>1, HandledType DEF Announces
  <2> QED BY <1>1, <2>1
<1>2. CASE p = q /\ post[q].state = "none"
  <2>1. /\ msg.type = "insertPost" /\ msg.id = p
        /\ ToSet(moderation'[p]) \subseteq ToSet(msg.mods)
    BY <1>2 DEF Announces
  <2>2. Handled(x, msg)[p] = FromMessage(msg)
    BY <1>2, <2>1, HandledModel
  <2>3. FromMessage(msg).mods = msg.mods
    BY DEF FromMessage
  <2> QED BY <2>1, <2>2, <2>3 DEF Within
<1>3. CASE p = q /\ post[q].state # "none"
  <2>1. /\ msg.type \notin {"syncCount", "insertPost"} /\ msg.id = p
        /\ moderation'[p] = IF msg.type = "moderatePost" THEN Append(moderation[p], msg.entry)
                                                         ELSE moderation[p]
    BY <1>3 DEF Announces
  <2>2. CASE x[p] = Absent
    <3>1. Handled(x, msg)[p] = Absent
      BY <2>1, <2>2, HandledModel
    <3> QED BY <3>1 DEF Within
  <2>3. CASE x[p] # Absent
    <3>1. x[p] \in Model /\ Handled(x, msg)[p] = Updated(x[p], msg)
      BY <2>1, <2>3, HandledModel DEF Models
    <3>2. Updated(x[p], msg).mods = IF msg.type = "moderatePost" THEN Append(x[p].mods, msg.entry)
                                                                 ELSE x[p].mods
      BY <2>1, <3>1, UpdatedMods
    <3>3. ToSet(moderation[p]) \subseteq ToSet(x[p].mods)
      BY <2>3 DEF Within
    <3>4. CASE msg.type = "moderatePost"
      <4>1. /\ msg.entry \in ModActions /\ moderation[p] \in Seq(ModActions)
            /\ x[p].mods \in Seq(ModActions)
        BY <3>1, <3>4, MessageParts DEF TypeOK, Model
      <4>2. /\ ToSet(Append(moderation[p], msg.entry)) = ToSet(moderation[p]) \cup {msg.entry}
            /\ ToSet(Append(x[p].mods, msg.entry)) = ToSet(x[p].mods) \cup {msg.entry}
        BY <4>1, ToSetAppend
      <4> QED BY <2>1, <3>1, <3>2, <3>3, <3>4, <4>2 DEF Within
    <3>5. CASE msg.type # "moderatePost"
      BY <2>1, <3>1, <3>2, <3>3, <3>5 DEF Within
    <3> QED BY <3>4, <3>5
  <2> QED BY <2>2, <2>3
<1> QED BY <1>1, <1>2, <1>3

LEMMA CountIsMessage == SyncCount \in Message /\ SyncCount.type = "syncCount"
BY DEF SyncCount, Message

\* What is sent goes on healing after a change.
LEMMA HealsChanged ==
    ASSUME TypeOK, NEW p \in Posts, NEW q \in Posts, LogFrame(q),
           NEW frames \in Seq(Frame),
           post[q].state = "none" => Untouched(frames, q) /\ Unheard(buffer, q),
           Heals(frames, buffer, moderation[p], p)
    PROVE  Heals(frames, buffer', moderation'[p], p)
<1>1. p # q => moderation'[p] = moderation[p]
  BY DEF LogFrame
<1>2. buffer \in Seq(Message) /\ moderation[p] \in Seq(ModActions)
  BY DEF TypeOK
<1>3. CASE /\ moderation'[q] = moderation[q]
           /\ buffer' = buffer \/ buffer' = Append(buffer, SyncCount)
  <2>1. moderation'[p] = moderation[p]
    BY <1>1, <1>3
  <2> QED BY <1>2, <1>3, <2>1, CountIsMessage, HealsOther
<1>4. ASSUME NEW msg \in Message, Announces(q, msg)
      PROVE  Heals(frames, buffer', moderation'[p], p)
  <2> DEFINE told == Append(buffer, msg)
             log == moderation[p]
             new == moderation'[p]
  <2>1. told \in Seq(Message)
    BY <1>2, AppendProperties
  <2>2. buffer' = told \/ buffer' = Append(told, SyncCount)
    BY <1>4 DEF Announces
  <2>3. Heals(frames, told, new, p)
    <3>1. CASE p = q /\ post[q].state = "none"
      <4>1. msg.type = "insertPost" /\ msg.id = p /\ ToSet(new) \subseteq ToSet(msg.mods)
        BY <1>4, <3>1 DEF Announces
      <4>2. Untouched(frames, p) /\ Unheard(buffer, p)
        BY <3>1
      <4> HIDE DEF new
      <4> QED BY <1>2, <4>1, <4>2, HealsInsertion
    <3>2. CASE ~(p = q /\ post[q].state = "none")
      <4>1. \A x \in Models : Within(log, x[p]) => Within(new, Handled(x, msg)[p])
        BY <1>1, <1>4, <3>2, AnnouncementHandled
      <4>2. ToSet(log) \subseteq ToSet(new)
        <5>1. CASE p # q
          BY <1>1, <5>1
        <5>2. CASE p = q
          <6>1. new = IF msg.type = "moderatePost" THEN Append(log, msg.entry) ELSE log
            BY <1>4, <3>2, <5>2 DEF Announces
          <6>2. msg.type = "moderatePost" => msg.entry \in ModActions
            BY MessageParts
          <6> HIDE DEF new, log
          <6>3. CASE msg.type = "moderatePost"
            <7>1. log \in Seq(ModActions)
              BY <1>2 DEF log
            <7>2. ToSet(Append(log, msg.entry)) = ToSet(log) \cup {msg.entry}
              BY <6>2, <6>3, <7>1, ToSetAppend
            <7> QED BY <6>1, <6>3, <7>2
          <6>4. CASE msg.type # "moderatePost"
            BY <6>1, <6>4
          <6> QED BY <6>3, <6>4
        <5> QED BY <5>1, <5>2
      <4>3. Heals(frames, buffer, log, p)
        OBVIOUS
      <4> HIDE DEF log, new
      <4> QED BY <1>2, <4>1, <4>2, <4>3, HealsMore
    <3> QED BY <3>1, <3>2
  <2> HIDE DEF told, new
  <2>4. Heals(frames, Append(told, SyncCount), new, p)
    BY <2>1, <2>3, CountIsMessage, HealsOther
  <2>5. Heals(frames, buffer', new, p)
    BY <2>2, <2>3, <2>4
  <2> QED BY <2>5 DEF new
<1>5. Announced(q)
  BY DEF LogFrame
<1> QED BY <1>3, <1>4, <1>5 DEF Announced

-----------------------------------------------------------------------------
(* The invariant of the messages on their way.                             *)

\* The mirror's log of a post is in its row's; a feed that does not run has
\* buffered nothing and a client that has not subscribed is sent nothing.
LogsInv ==
    /\ post[OP].state = "closed"
    /\ ~running => buffer = << >>
    /\ \A p \in Posts : ToSet(moderation[p]) \subseteq ToSet(post[p].mods)
    /\ \A c \in Readers \ members : queue[c] = << >>

\* Nothing is said of a post before there is one.
QuietInv ==
    \A p \in Posts : post[p].state = "none" =>
        /\ Unheard(buffer, p)
        /\ \A c \in Readers : /\ page[c][p] = Absent
                              /\ fetching[c][p] = NoFetch
                              /\ Untouched(queue[c], p)

\* However much of it a browser has received, the rest keeps the log.
HealsFrom(frames, msgs, log, p) ==
    \A k \in 1..Len(frames) + 1 : Heals(Suffix(frames, k), msgs, log, p)

HealsInv ==
    \A p \in Posts :
        /\ Heals(<< >>, buffer, moderation[p], p)
        /\ \A c \in Readers \ lost : HealsFrom(queue[c], buffer, moderation[p], p)

KeptInv == LogsInv /\ QuietInv /\ HealsInv

\* What the steps need of the feed and the browsers.
ReplicaInv ==
    /\ TypeOK /\ ReplicaTypeOK /\ RunsIffSubscribed
    /\ MirrorInv /\ MemoizedInv /\ ModerationInv

LEMMA HealsFromNone ==
    ASSUME NEW p \in Posts, NEW msgs, NEW log, Heals(<< >>, msgs, log, p)
    PROVE  HealsFrom(<< >>, msgs, log, p)
<1>1. << >> \in Seq(Frame) /\ Len(<< >>) = 0
  BY EmptySeq
<1>2. Suffix(<< >>, 1) = << >>
  BY <1>1, SuffixEnds
<1>3. \A k \in 1..Len(<< >>) + 1 : k = 1
  BY <1>1
<1> QED BY <1>2, <1>3 DEF HealsFrom

\* The cases in which a step leaves what is sent, but for a count.
LEMMA HealsCounted ==
    ASSUME NEW p \in Posts, NEW frames \in Seq(Frame), NEW msgs \in Seq(Message), NEW new,
           new = msgs \/ new = Append(msgs, SyncCount), NEW log, Heals(frames, msgs, log, p)
    PROVE  Heals(frames, new, log, p)
BY CountIsMessage, HealsOther

LEMMA KeptInit ==
    ASSUME TypeOK, ReplicaInit
    PROVE  KeptInv
<1>1. /\ post[OP].state = "closed" /\ running = FALSE /\ buffer = << >>
      /\ \A p \in Posts : moderation[p] = << >>
      /\ \A p \in Posts : post[p].state = "none" => Rendered[p] = Absent
      /\ \A c \in Readers : queue[c] = << >> /\ page[c] = Rendered
      /\ \A c \in Readers, p \in Posts : fetching[c][p] = NoFetch
  <2>1. post[OP].state = "closed"
    BY ConstantsAssumption DEF ReplicaInit, Init, NoRow
  <2> QED BY <2>1 DEF ReplicaInit, Init, Rendered
<1>2. ToSet(<< >>) = {} /\ DOMAIN << >> = {}
  BY DEF ToSet
<1>3. LogsInv
  BY <1>1, <1>2 DEF LogsInv
<1>4. QuietInv
  BY <1>1, <1>2 DEF QuietInv, Unheard, Untouched
<1>5. HealsInv
  BY <1>1, HealsNone, HealsFromNone DEF HealsInv
<1> QED BY <1>3, <1>4, <1>5 DEF KeptInv

LEMMA LogsStep ==
    ASSUME ReplicaInv, KeptInv, [ReplicaNext]_allVars
    PROVE  LogsInv'
<1>1. /\ TypeOK /\ ReplicaTypeOK /\ RunsIffSubscribed /\ LogsInv /\ ModerationInv
      /\ post[OP].state = "closed" /\ (~running => buffer = << >>)
      /\ \A p \in Posts : ToSet(moderation[p]) \subseteq ToSet(post[p].mods)
      /\ \A c \in Readers \ members : queue[c] = << >>
  BY DEF ReplicaInv, KeptInv, LogsInv
<1>0. ToSet(<< >>) = {}
  BY DEF ToSet
<1>2. ASSUME NEW d \in Clients, Join(d)
      PROVE  LogsInv'
  <2>1. /\ running' = TRUE /\ UNCHANGED post /\ members' = members \cup {d}
        /\ moderation' = IF running THEN moderation ELSE LoadModeration
        /\ \A c \in Readers : c # d => queue'[c] = queue[c]
    BY <1>2 DEF Join, AddToFeed, Send
  <2>2. \A p \in Posts : ToSet(LoadModeration[p]) \subseteq ToSet(post[p].mods)
    BY <1>0, <1>1 DEF LoadModeration
  <2> QED BY <1>1, <2>1, <2>2 DEF LogsInv
<1>3. ASSUME NEW d \in Clients, Leave(d)
      PROVE  LogsInv'
  <2>1. /\ RemoveFromFeed(d) /\ UNCHANGED post /\ members' = members \ {d} /\ running
        /\ \A c \in Readers : queue'[c] = IF c = d THEN << >> ELSE queue[c]
    BY <1>1, <1>3 DEF Leave, RemoveFromFeed, RunsIffSubscribed
  <2>2. \A c \in Readers \ members' : queue'[c] = << >>
    BY <1>1, <2>1
  <2>3. CASE LoopExits(members')
    <3>1. buffer' = << >> /\ \A p \in Posts : moderation'[p] = << >>
      BY <2>1, <2>3 DEF RemoveFromFeed, ResetFeed
    <3> QED BY <1>0, <1>1, <2>1, <2>2, <3>1 DEF LogsInv
  <2>4. CASE ~LoopExits(members')
    <3>1. UNCHANGED <<running, moderation>>
      BY <2>1, <2>4 DEF RemoveFromFeed
    <3> QED BY <1>0, <1>1, <2>1, <2>2, <3>1 DEF LogsInv
  <2> QED BY <2>3, <2>4
<1>4. ASSUME UNCHANGED <<running, members, buffer, moderation, post>>,
             \A c \in Readers \ members : queue'[c] = queue[c]
      PROVE  LogsInv'
  BY <1>1, <1>4 DEF LogsInv
<1>5. ASSUME NEW d \in Readers, LoadPage(d)
      PROVE  LogsInv'
  BY <1>4, <1>5 DEF LoadPage, vars
<1>6. ASSUME NEW d \in Readers, Receive(d)
      PROVE  LogsInv'
  <2>1. queue[d] # << >> /\ queue' = [queue EXCEPT ![d] = Tail(queue[d])] /\ UNCHANGED vars
    BY <1>6 DEF Receive
  <2>2. \A c \in Readers \ members : queue'[c] = queue[c]
    BY <1>1, <2>1 DEF ReplicaTypeOK
  <2> QED BY <1>4, <2>1, <2>2 DEF vars
<1>7. ASSUME NEW d \in Readers, NEW q \in Posts, Answer(d, q)
      PROVE  LogsInv'
  BY <1>4, <1>7 DEF Answer, vars
<1>8. CASE Broadcast
  <2>1. running /\ buffer' = << >> /\ UNCHANGED <<running, members, moderation, post>>
    BY <1>8 DEF Broadcast, Flush
  <2>2. \A c \in Readers \ members : queue'[c] = queue[c]
    BY <1>8 DEF Broadcast, Send, browserVars
  <2> QED BY <1>1, <2>1, <2>2 DEF LogsInv
<1>9. CASE (Evict \/ Clock) /\ UNCHANGED browserVars
  BY <1>4, <1>9 DEF Evict, Clock, browserVars
<1>10. CASE UNCHANGED allVars
  BY <1>4, <1>10 DEF allVars, vars, browserVars
<1>11. ASSUME NEW q \in Posts, ChangePost(q), UNCHANGED browserVars
       PROVE  LogsInv'
  <2>1. LogFrame(q)
    BY <1>1, <1>11, ChangePostLog
  <2>2. UNCHANGED <<running, members, queue>>
    BY <1>11, ChangePostFrame DEF ChangeFrame, browserVars
  <2>3. post'[OP].state = "closed"
    BY <1>1, <2>1, ConstantsAssumption DEF LogFrame
  <2>4. \A p \in Posts : ToSet(moderation'[p]) \subseteq ToSet(post'[p].mods)
    BY <1>1, <2>1 DEF LogFrame
  <2> QED BY <1>1, <2>1, <2>2, <2>3, <2>4 DEF LogsInv, LogFrame
<1> QED BY <1>2, <1>3, <1>5, <1>6, <1>7, <1>8, <1>9, <1>10, <1>11 DEF ReplicaNext

LEMMA QuietStep ==
    ASSUME ReplicaInv, ReplicaInv', KeptInv, LogsInv', [ReplicaNext]_allVars
    PROVE  QuietInv'
<1>1. TypeOK /\ ReplicaTypeOK /\ RunsIffSubscribed /\ ModerationInv /\ LogsInv /\ QuietInv
  BY DEF ReplicaInv, KeptInv
<1>2. /\ buffer \in Seq(Message)
      /\ \A c \in Readers : queue[c] \in Seq(Frame) /\ page[c] \in Models
  BY <1>1 DEF TypeOK, ReplicaTypeOK, Models
<1> SUFFICES ASSUME NEW p \in Posts, post'[p].state = "none"
             PROVE  /\ Unheard(buffer', p)
                    /\ \A c \in Readers : /\ page'[c][p] = Absent
                                          /\ fetching'[c][p] = NoFetch
                                          /\ Untouched(queue'[c], p)
  BY DEF QuietInv
<1> DEFINE Quiet == /\ Unheard(buffer', p)
                    /\ \A c \in Readers : /\ page'[c][p] = Absent
                                          /\ fetching'[c][p] = NoFetch
                                          /\ Untouched(queue'[c], p)
<1>3. Unheard(<< >>, p) /\ Untouched(<< >>, p)
  BY DEF Unheard, Untouched
<1>4. ASSUME post[p].state = "none"
      PROVE  /\ Unheard(buffer, p)
             /\ \A c \in Readers : /\ page[c][p] = Absent
                                   /\ fetching[c][p] = NoFetch
                                   /\ Untouched(queue[c], p)
  BY <1>1, <1>4 DEF QuietInv
<1>5. ASSUME Unheard(buffer, p), buffer' = buffer \/ buffer' = Append(buffer, SyncCount)
      PROVE  Unheard(buffer', p)
  BY <1>2, <1>5, CountIsMessage, UnheardAppend
<1>6. ASSUME NEW d \in Clients, Join(d)
      PROVE  Quiet
  <2> DEFINE frame == [kind |-> "synchronise", state |-> memoized']
  <2>1. /\ UNCHANGED <<post, page, fetching>> /\ memoized' # NoSnapshot
        /\ buffer' = buffer \/ buffer' = Append(buffer, SyncCount)
        /\ Send({d}, frame)
    BY <1>6 DEF Join, AddToFeed, SendIPCount, SyncCount, State, NoSnapshot
  <2>2. memoized' \in Snapshot /\ memoized'.recent = recent' /\ memoized'.moderation = moderation'
    <3>1. memoized' = State(recent', moderation') /\ memoized' \in Snapshot \cup {NoSnapshot}
      BY <2>1 DEF ReplicaInv, MemoizedInv, MemoizedIsCurrent, TypeOK
    <3> QED BY <2>1, <3>1 DEF State
  <2>3. frame \in Frame /\ frame.kind = "synchronise" /\ frame.state = memoized'
    BY <2>2 DEF Frame
  <2>4. recent'[p] = Absent
    BY DEF ReplicaInv, MirrorInv, Faithful
  <2>5. moderation'[p] = << >>
    <3>1. moderation'[p] \in Seq(ModActions) /\ post'[p].mods = << >>
      BY DEF ReplicaInv, TypeOK, ModerationInv
    <3>2. ToSet(moderation'[p]) \subseteq ToSet(<< >>)
      BY <3>1 DEF LogsInv
    <3> QED BY <3>1, <3>2, EmptyLog
  <2>6. Omits(frame, p)
    BY <2>2, <2>3, <2>4, <2>5 DEF Omits
  <2> HIDE DEF frame
  <2>7. /\ Unheard(buffer, p)
        /\ \A c \in Readers :
             page[c][p] = Absent /\ fetching[c][p] = NoFetch /\ Untouched(queue[c], p)
    BY <1>4, <2>1
  <2>8. ASSUME NEW c \in Readers PROVE Untouched(queue'[c], p)
    <3>1. queue'[c] \in {queue[c], Append(queue[c], frame)}
      BY <2>1 DEF Send
    <3> QED BY <1>2, <2>3, <2>6, <2>7, <3>1, UntouchedAppend
  <2> QED BY <1>5, <2>1, <2>7, <2>8
<1>7. ASSUME NEW d \in Clients, Leave(d)
      PROVE  Quiet
  <2>1. RemoveFromFeed(d) /\ UNCHANGED <<post, page, fetching>>
        /\ \A c \in Readers : queue'[c] = IF c = d THEN << >> ELSE queue[c]
    BY <1>7 DEF Leave, RemoveFromFeed
  <2>2. /\ Unheard(buffer, p)
        /\ \A c \in Readers :
             page[c][p] = Absent /\ fetching[c][p] = NoFetch /\ Untouched(queue[c], p)
    BY <1>4, <2>1
  <2>3. buffer' = << >> \/ buffer' = buffer \/ buffer' = Append(buffer, SyncCount)
    BY <2>1 DEF RemoveFromFeed, ResetFeed, SendIPCount, SyncCount
  <2> QED BY <1>3, <1>5, <2>1, <2>2, <2>3
<1>8. ASSUME NEW d \in Readers, LoadPage(d)
      PROVE  Quiet
  <2>1. /\ UNCHANGED <<post, buffer, queue>>
        /\ page' = [page EXCEPT ![d] = Rendered]
        /\ fetching' = [fetching EXCEPT ![d] = [r \in Posts |-> NoFetch]]
    BY <1>8 DEF LoadPage, vars
  <2>2. Rendered[p] = Absent
    BY <2>1 DEF Rendered
  <2>3. \A c \in Readers : /\ page'[c] \in {page[c], Rendered}
                           /\ fetching'[c] \in {fetching[c], [r \in Posts |-> NoFetch]}
    BY <1>1, <2>1 DEF ReplicaTypeOK
  <2>4. \A c \in Readers : page'[c][p] = Absent /\ fetching'[c][p] = NoFetch
    BY <1>4, <2>1, <2>2, <2>3
  <2> QED BY <1>4, <2>1, <2>4
<1>9. ASSUME NEW d \in Readers, Receive(d)
      PROVE  Quiet
  <2> DEFINE frame == Head(queue[d])
  <2>1. /\ queue[d] # << >> /\ UNCHANGED <<post, buffer>>
        /\ page' = [page EXCEPT ![d] = Handle(page[d], frame)]
        /\ queue' = [queue EXCEPT ![d] = Tail(queue[d])]
        /\ fetching' = IF frame.kind = "concat" THEN fetching
                       ELSE [fetching EXCEPT ![d] = Fetches(page[d], frame.state, fetching[d])]
    BY <1>9 DEF Receive, vars
  <2>2. /\ Unheard(buffer, p)
        /\ \A c \in Readers :
             page[c][p] = Absent /\ fetching[c][p] = NoFetch /\ Untouched(queue[c], p)
    BY <1>4, <2>1
  <2>3. /\ frame \in Frame /\ frame = queue[d][1] /\ Len(queue[d]) \in Nat \ {0}
        /\ Tail(queue[d]) \in Seq(Frame)
    BY <1>2, <2>1, HeadTailProperties, EmptySeq
  <2>4. Omits(frame, p)
    <3>1. 1 \in DOMAIN queue[d]
      BY <1>2, <2>3, LenProperties
    <3> QED BY <2>2, <2>3, <3>1 DEF Omits, Untouched
  <2>5. Untouched(Tail(queue[d]), p)
    <3>1. Tail(queue[d]) = Suffix(queue[d], 2)
      BY <1>2, <2>1, TailIsSubSeq DEF Suffix
    <3>2. 2 \in 1..Len(queue[d]) + 1
      BY <2>3
    <3> QED BY <1>2, <2>2, <3>1, <3>2, UntouchedSuffix
  <2> HIDE DEF frame
  <2>6. Handle(page[d], frame)[p] = Absent
    <3>1. CASE frame.kind = "concat"
      <4>1. frame.msgs \in Seq(Message) /\ Unheard(frame.msgs, p)
        BY <2>3, <2>4, <3>1 DEF Frame, Omits
      <4> QED BY <1>2, <2>2, <3>1, <4>1, HandledAllUnheard DEF Handle
    <3>2. CASE frame.kind # "concat"
      BY <2>2, <3>2 DEF Handle, Synced
    <3> QED BY <3>1, <3>2
  <2>7. frame.kind # "concat" => Fetches(page[d], frame.state, fetching[d])[p] = NoFetch
    <3>1. frame.kind # "concat" => frame.state.recent[p] = Absent
      BY <2>3, <2>4 DEF Frame, Omits
    <3> QED BY <2>2, <3>1 DEF Fetches, Missing, Unclosed
  <2>8. ASSUME NEW c \in Readers
        PROVE  page'[c][p] = Absent /\ fetching'[c][p] = NoFetch /\ Untouched(queue'[c], p)
    <3>1. CASE c = d
      <4>1. /\ page'[d] = Handle(page[d], frame) /\ queue'[d] = Tail(queue[d])
            /\ fetching'[d] = IF frame.kind = "concat" THEN fetching[d]
                              ELSE Fetches(page[d], frame.state, fetching[d])
        BY <1>1, <2>1 DEF ReplicaTypeOK
      <4> QED BY <2>2, <2>5, <2>6, <2>7, <3>1, <4>1
    <3>2. CASE c # d
      <4>1. page'[c] = page[c] /\ queue'[c] = queue[c] /\ fetching'[c] = fetching[c]
        BY <1>1, <2>1, <3>2 DEF ReplicaTypeOK
      <4> QED BY <2>2, <4>1
    <3> QED BY <3>1, <3>2
  <2> QED BY <2>1, <2>2, <2>8
<1>10. ASSUME NEW d \in Readers, NEW q \in Posts, Answer(d, q)
       PROVE  Quiet
  <2> DEFINE m == Fetched(page[d][q], post[q], fetching[d][q])
  <2>1. /\ fetching[d][q] # NoFetch /\ UNCHANGED <<post, buffer, queue>>
        /\ page' = [page EXCEPT ![d][q] = m]
        /\ fetching' = [fetching EXCEPT ![d][q] = NoFetch]
    BY <1>10 DEF Answer, vars
  <2> HIDE DEF m
  <2>2. /\ Unheard(buffer, p)
        /\ \A c \in Readers :
             page[c][p] = Absent /\ fetching[c][p] = NoFetch /\ Untouched(queue[c], p)
    BY <1>4, <2>1
  <2>3. q # p
    BY <2>1, <2>2
  <2>4. \A c \in Readers : page'[c][p] = page[c][p] /\ fetching'[c][p] = fetching[c][p]
    BY <1>1, <2>1, <2>3 DEF ReplicaTypeOK
  <2> QED BY <2>1, <2>2, <2>4
<1>11. CASE Broadcast
  <2>1. UNCHANGED <<post, page, fetching>> /\ buffer' = << >>
    BY <1>11 DEF Broadcast, Flush, browserVars
  <2>2. /\ Unheard(buffer, p)
        /\ \A c \in Readers :
             page[c][p] = Absent /\ fetching[c][p] = NoFetch /\ Untouched(queue[c], p)
    BY <1>4, <2>1
  <2> DEFINE frame == [kind |-> "concat", msgs |-> buffer]
  <2>3. frame \in Frame /\ frame.kind = "concat" /\ frame.msgs = buffer
    BY <1>2 DEF Frame
  <2>4. UNCHANGED queue \/ Send(members, frame)
    BY <1>11 DEF Broadcast, browserVars
  <2> HIDE DEF frame
  <2>5. Omits(frame, p)
    BY <2>2, <2>3 DEF Omits
  <2>6. ASSUME NEW c \in Readers PROVE Untouched(queue'[c], p)
    <3>1. queue'[c] \in {queue[c], Append(queue[c], frame)}
      BY <2>4 DEF Send
    <3> QED BY <1>2, <2>2, <2>3, <2>5, <3>1, UntouchedAppend
  <2> QED BY <1>3, <2>1, <2>2, <2>6
<1>12. CASE ((Evict \/ Clock) /\ UNCHANGED browserVars) \/ UNCHANGED allVars
  <2>1. UNCHANGED <<post, buffer, page, fetching, queue>>
    BY <1>12 DEF Evict, Clock, browserVars, allVars, vars
  <2> QED BY <1>4, <2>1
<1>13. ASSUME NEW q \in Posts, ChangePost(q), UNCHANGED browserVars
       PROVE  Quiet
  <2>1. LogFrame(q)
    BY <1>1, <1>13, ChangePostLog DEF LogsInv
  <2>2. q # p /\ post'[p] = post[p]
    BY <2>1 DEF LogFrame
  <2>3. /\ Unheard(buffer, p)
        /\ \A c \in Readers :
             page[c][p] = Absent /\ fetching[c][p] = NoFetch /\ Untouched(queue[c], p)
    BY <1>4, <2>2
  <2>4. Unheard(buffer', p)
    <3>1. ASSUME NEW msg \in Message, Announces(q, msg)
          PROVE  Unheard(buffer', p)
      <4> DEFINE told == Append(buffer, msg)
      <4>1. told \in Seq(Message) /\ Unheard(told, p)
        BY <1>2, <2>2, <2>3, <3>1, AppendProperties, UnheardAppend DEF Announces
      <4>2. buffer' = told \/ buffer' = Append(told, SyncCount)
        BY <3>1 DEF Announces
      <4> HIDE DEF told
      <4> QED BY <4>1, <4>2, CountIsMessage, UnheardAppend
    <3> QED BY <1>5, <2>1, <2>3, <3>1 DEF LogFrame, Announced
  <2> QED BY <1>13, <2>3, <2>4 DEF browserVars
<1> QED BY <1>6, <1>7, <1>8, <1>9, <1>10, <1>11, <1>12, <1>13 DEF ReplicaNext

LEMMA HealsStep ==
    ASSUME ReplicaInv, ReplicaInv', KeptInv, [ReplicaNext]_allVars
    PROVE  HealsInv'
<1>1. TypeOK /\ ReplicaTypeOK /\ RunsIffSubscribed /\ ModerationInv
      /\ LogsInv /\ QuietInv /\ HealsInv
  BY DEF ReplicaInv, KeptInv
<1>2. /\ buffer \in Seq(Message)
      /\ \A c \in Readers : queue[c] \in Seq(Frame)
      /\ buffer' \in Seq(Message)
      /\ \A c \in Readers : queue'[c] \in Seq(Frame)
      /\ << >> \in Seq(Frame)
  BY <1>1, EmptySeq DEF ReplicaInv, TypeOK, ReplicaTypeOK
<1> SUFFICES ASSUME NEW p \in Posts
             PROVE  /\ Heals(<< >>, buffer', moderation'[p], p)
                    /\ \A c \in Readers \ lost' :
                         HealsFrom(queue'[c], buffer', moderation'[p], p)
  BY DEF HealsInv
<1> DEFINE Healing == /\ Heals(<< >>, buffer', moderation'[p], p)
                      /\ \A c \in Readers \ lost' :
                           HealsFrom(queue'[c], buffer', moderation'[p], p)
<1>3. /\ Heals(<< >>, buffer, moderation[p], p)
      /\ \A c \in Readers \ lost : HealsFrom(queue[c], buffer, moderation[p], p)
  BY <1>1 DEF HealsInv
\* The suffixes are sequences of frames.
<1>4. ASSUME NEW frames \in Seq(Frame), NEW k \in 1..Len(frames) + 1
      PROVE  Suffix(frames, k) \in Seq(Frame)
  BY SuffixParts
\* What is sent stays, but for a count.
<1>5. ASSUME NEW frames \in Seq(Frame), HealsFrom(frames, buffer, moderation[p], p),
             buffer' = buffer \/ buffer' = Append(buffer, SyncCount),
             moderation'[p] = moderation[p]
      PROVE  HealsFrom(frames, buffer', moderation'[p], p)
  <2>1. ASSUME NEW k \in 1..Len(frames) + 1
        PROVE  Heals(Suffix(frames, k), buffer', moderation'[p], p)
    <3>1. Heals(Suffix(frames, k), buffer, moderation[p], p)
      BY <1>5 DEF HealsFrom
    <3>2. Suffix(frames, k) \in Seq(Frame)
      BY <1>4
    <3> QED BY <1>2, <1>5, <3>1, <3>2, HealsCounted
  <2> QED BY <2>1 DEF HealsFrom
<1>6. ASSUME buffer' = buffer \/ buffer' = Append(buffer, SyncCount),
             moderation'[p] = moderation[p]
      PROVE  Heals(<< >>, buffer', moderation'[p], p)
  BY <1>2, <1>3, <1>6, HealsCounted
<1>7. ASSUME NEW d \in Clients, Join(d)
      PROVE  Healing
  <2> DEFINE frame == [kind |-> "synchronise", state |-> memoized']
  <2>1. /\ d \notin members /\ memoized' # NoSnapshot
        /\ moderation' = IF running THEN moderation ELSE LoadModeration
        /\ buffer' = buffer \/ buffer' = Append(buffer, SyncCount)
        /\ Send({d}, frame)
    BY <1>7 DEF Join, AddToFeed, SendIPCount, SyncCount, State, NoSnapshot
  <2>2. memoized' \in Snapshot /\ memoized'.moderation = moderation'
    <3>1. memoized' = State(recent', moderation') /\ memoized' \in Snapshot \cup {NoSnapshot}
      BY <2>1 DEF ReplicaInv, MemoizedInv, MemoizedIsCurrent, TypeOK
    <3> QED BY <2>1, <3>1 DEF State
  <2>3. /\ frame \in Frame /\ frame.kind = "synchronise"
        /\ frame.state.moderation[p] = moderation'[p]
    BY <2>2 DEF Frame
  <2> HIDE DEF frame
  <2>4. Heals(<< >>, buffer', moderation'[p], p)
    <3>1. CASE running
      BY <1>6, <2>1, <3>1
    <3>2. CASE ~running
      <4>1. buffer = << >>
        BY <1>1, <3>2 DEF LogsInv
      <4> QED BY <1>2, <2>1, <4>1, HealsNone, HealsCounted
    <3> QED BY <3>1, <3>2
  <2>5. ASSUME NEW c \in Readers, c \notin lost'
        PROVE  HealsFrom(queue'[c], buffer', moderation'[p], p)
    <3>1. c \notin lost
      BY <2>1, <2>5 DEF Send
    <3>2. CASE c = d
      <4>1. queue[c] = << >> /\ << >> \in Seq(Frame)
        BY <1>1, <1>2, <2>1, <3>2 DEF LogsInv
      <4>2. ~Full(c)
        BY <2>1, <2>5, <3>2 DEF Send
      <4>3. queue'[c] = <<frame>>
        <5>1. queue'[c] = Append(queue[c], frame)
          BY <2>1, <3>2, <4>2 DEF Send
        <5> QED BY <4>1, <5>1
      <4>4. Heals(<<frame>>, buffer', moderation'[p], p)
        BY <1>2, <2>3, <2>4, HealsSnapshot
      <4>5. <<frame>> \in Seq(Frame) /\ Len(<<frame>>) = 1
        BY <2>3
      <4>6. Suffix(<<frame>>, 1) = <<frame>> /\ Suffix(<<frame>>, 2) = << >>
        <5>1. 1 + 1 = 2
          OBVIOUS
        <5>2. Suffix(<<frame>>, 1) = <<frame>> /\ Suffix(<<frame>>, Len(<<frame>>) + 1) = << >>
          BY <4>5, SuffixEnds
        <5> QED BY <4>5, <5>1, <5>2
      <4>7. \A k \in 1..Len(<<frame>>) + 1 : k = 1 \/ k = 2
        BY <4>5
      <4> QED BY <2>4, <4>3, <4>4, <4>6, <4>7 DEF HealsFrom
    <3>3. CASE c # d
      <4>1. queue'[c] = queue[c]
        BY <2>1, <3>3 DEF Send
      <4>2. CASE running
        BY <1>2, <1>3, <1>5, <2>1, <3>1, <4>1, <4>2
      <4>3. CASE ~running
        <5>1. queue[c] = << >>
          BY <1>1, <4>3 DEF LogsInv, RunsIffSubscribed
        <5> QED BY <2>4, <4>1, <5>1, HealsFromNone
      <4> QED BY <4>2, <4>3
    <3> QED BY <3>2, <3>3
  <2> QED BY <2>4, <2>5
<1>8. ASSUME NEW d \in Clients, Leave(d)
      PROVE  Healing
  <2>1. RemoveFromFeed(d) /\ lost' = lost \ {d}
        /\ \A c \in Readers : queue'[c] = IF c = d THEN << >> ELSE queue[c]
    BY <1>8 DEF Leave
  <2>2. CASE LoopExits(members')
    <3>1. moderation'[p] = << >>
      BY <2>1, <2>2 DEF RemoveFromFeed, ResetFeed
    <3>2. Heals(<< >>, buffer', moderation'[p], p)
      BY <1>2, <3>1, HealsEmpty
    <3>3. \A c \in Readers : HealsFrom(queue'[c], buffer', moderation'[p], p)
      BY <1>2, <1>4, <3>1, HealsEmpty DEF HealsFrom
    <3> QED BY <3>2, <3>3
  <2>3. CASE ~LoopExits(members')
    <3>1. moderation' = moderation /\ (buffer' = buffer \/ buffer' = Append(buffer, SyncCount))
      BY <2>1, <2>3 DEF RemoveFromFeed, SendIPCount, SyncCount
    <3>2. Heals(<< >>, buffer', moderation'[p], p)
      BY <1>6, <3>1
    <3>3. ASSUME NEW c \in Readers, c \notin lost'
          PROVE  HealsFrom(queue'[c], buffer', moderation'[p], p)
      <4>1. CASE c = d
        BY <2>1, <3>2, <4>1, HealsFromNone
      <4>2. CASE c # d
        BY <1>2, <1>3, <1>5, <2>1, <3>1, <3>3, <4>2
      <4> QED BY <4>1, <4>2
    <3> QED BY <3>2, <3>3
  <2> QED BY <2>2, <2>3
<1>9. ASSUME UNCHANGED <<buffer, moderation, queue, lost>>
      PROVE  Healing
  BY <1>3, <1>9
<1>10. ASSUME NEW d \in Readers, LoadPage(d)
       PROVE  Healing
  BY <1>9, <1>10 DEF LoadPage, vars
<1>11. ASSUME NEW d \in Readers, Receive(d)
       PROVE  Healing
  <2>1. /\ queue[d] # << >> /\ UNCHANGED <<buffer, moderation, lost>>
        /\ queue' = [queue EXCEPT ![d] = Tail(queue[d])]
    BY <1>11 DEF Receive, vars
  <2>2. /\ Tail(queue[d]) \in Seq(Frame) /\ Len(Tail(queue[d])) = Len(queue[d]) - 1
        /\ Len(queue[d]) \in Nat
    BY <1>2, <2>1, HeadTailProperties, LenProperties
  <2>3. ASSUME NEW c \in Readers, c \notin lost'
        PROVE  HealsFrom(queue'[c], buffer', moderation'[p], p)
    <3>1. HealsFrom(queue[c], buffer, moderation[p], p)
      BY <1>3, <2>1, <2>3
    <3>2. CASE c = d
      <4>1. queue'[c] = Tail(queue[c])
        BY <1>1, <2>1, <3>2 DEF ReplicaTypeOK
      <4>2. ASSUME NEW k \in 1..Len(Tail(queue[c])) + 1
            PROVE  Heals(Suffix(Tail(queue[c]), k), buffer, moderation[p], p)
        <5>1. k \in 1..Len(queue[c]) /\ k + 1 \in 1..Len(queue[c]) + 1
          BY <2>2, <3>2
        <5>2. Suffix(Tail(queue[c]), k) = Suffix(queue[c], k + 1)
          BY <1>2, <2>1, <3>2, <5>1, SuffixTail
        <5> QED BY <3>1, <5>1, <5>2 DEF HealsFrom
      <4> QED BY <2>1, <4>1, <4>2 DEF HealsFrom
    <3>3. CASE c # d
      <4>1. queue'[c] = queue[c]
        BY <1>1, <2>1, <3>3 DEF ReplicaTypeOK
      <4> QED BY <2>1, <3>1, <4>1
    <3> QED BY <3>2, <3>3
  <2> QED BY <1>3, <2>1, <2>3
<1>12. ASSUME NEW d \in Readers, NEW q \in Posts, Answer(d, q)
       PROVE  Healing
  BY <1>9, <1>12 DEF Answer, vars
<1>13. CASE Broadcast
  <2>1. UNCHANGED moderation /\ buffer' = << >>
    BY <1>13 DEF Broadcast, Flush
  <2>2. CASE buffer = << >>
    <3>1. UNCHANGED <<queue, lost>>
      BY <1>13, <2>2 DEF Broadcast, browserVars
    <3> QED BY <1>9, <2>1, <2>2, <3>1
  <2>3. CASE buffer # << >>
    <3> DEFINE frame == [kind |-> "concat", msgs |-> buffer]
    <3>1. frame \in Frame /\ frame.kind = "concat" /\ frame.msgs = buffer
      BY <1>2 DEF Frame
    <3>2. Send(members, frame)
      BY <1>13, <2>3 DEF Broadcast
    <3> HIDE DEF frame
    <3>3. Heals(<< >>, << >>, moderation'[p], p)
      BY HealsNone
    <3>4. ASSUME NEW c \in Readers, c \notin lost'
          PROVE  HealsFrom(queue'[c], << >>, moderation'[p], p)
      <4>1. c \notin lost /\ HealsFrom(queue[c], buffer, moderation[p], p)
        BY <1>3, <3>2, <3>4 DEF Send
      <4>2. CASE c \notin members
        <5>1. queue'[c] = queue[c] /\ queue[c] = << >>
          BY <1>1, <3>2, <4>2 DEF Send, LogsInv
        <5> QED BY <3>3, <5>1, HealsFromNone
      <4>3. CASE c \in members
        <5> DEFINE q == queue[c]
        <5>1. ~Full(c)
          BY <3>2, <3>4, <4>3 DEF Send
        <5>2. queue'[c] = Append(q, frame)
          BY <3>2, <4>3, <5>1 DEF Send
        <5>3. q \in Seq(Frame) /\ Len(q) \in Nat /\ HealsFrom(q, buffer, moderation[p], p)
          BY <1>2, <4>1, LenProperties
        <5> HIDE DEF q
        <5>4. Append(q, frame) \in Seq(Frame) /\ Len(Append(q, frame)) = Len(q) + 1
          BY <3>1, <5>3, AppendProperties
        <5>5. ASSUME NEW k \in 1..Len(q) + 1
              PROVE  Heals(Suffix(Append(q, frame), k), << >>, moderation[p], p)
          <6>1. Suffix(Append(q, frame), k) = Append(Suffix(q, k), frame)
            BY <3>1, <5>3, SuffixAppend
          <6>2. Suffix(q, k) \in Seq(Frame) /\ Heals(Suffix(q, k), buffer, moderation[p], p)
            BY <1>4, <5>3 DEF HealsFrom
          <6>3. Heals(Append(Suffix(q, k), frame), << >>, moderation[p], p)
            BY <1>2, <3>1, <6>2, HealsFlush
          <6> QED BY <6>1, <6>3
        <5>6. Suffix(Append(q, frame), Len(q) + 1 + 1) = << >>
          BY <5>4, SuffixEnds
        <5>7. \A k \in 1..Len(q) + 1 + 1 : k \in 1..Len(q) + 1 \/ k = Len(q) + 1 + 1
          BY <5>3
        <5> QED BY <2>1, <3>3, <5>2, <5>4, <5>5, <5>6, <5>7 DEF HealsFrom
      <4> QED BY <4>2, <4>3
    <3> QED BY <2>1, <3>3, <3>4
  <2> QED BY <2>2, <2>3
<1>14. CASE ((Evict \/ Clock) /\ UNCHANGED browserVars) \/ UNCHANGED allVars
  BY <1>9, <1>14 DEF Evict, Clock, browserVars, allVars, vars
<1>15. ASSUME NEW q \in Posts, ChangePost(q), UNCHANGED browserVars
       PROVE  Healing
  <2>1. LogFrame(q)
    BY <1>1, <1>15, ChangePostLog DEF LogsInv
  <2>2. UNCHANGED <<queue, lost>>
    BY <1>15 DEF browserVars
  <2>3. post[q].state = "none" => Unheard(buffer, q) /\ \A c \in Readers : Untouched(queue[c], q)
    BY <1>1 DEF QuietInv
  <2>4. Untouched(<< >>, q)
    BY DEF Untouched
  <2>5. Heals(<< >>, buffer', moderation'[p], p)
    BY <1>1, <1>2, <1>3, <2>1, <2>3, <2>4, HealsChanged
  <2>6. ASSUME NEW c \in Readers, c \notin lost', NEW k \in 1..Len(queue[c]) + 1
        PROVE  Heals(Suffix(queue[c], k), buffer', moderation'[p], p)
    <3>1. Suffix(queue[c], k) \in Seq(Frame)
      BY <1>2, <1>4
    <3>2. Heals(Suffix(queue[c], k), buffer, moderation[p], p)
      BY <1>3, <2>2, <2>6 DEF HealsFrom
    <3>3. post[q].state = "none" => Untouched(Suffix(queue[c], k), q)
      BY <1>2, <2>3, UntouchedSuffix
    <3> QED BY <1>1, <2>1, <2>3, <3>1, <3>2, <3>3, HealsChanged
  <2> QED BY <2>2, <2>5, <2>6 DEF HealsFrom
<1> QED BY <1>7, <1>8, <1>10, <1>11, <1>12, <1>13, <1>14, <1>15 DEF ReplicaNext

LEMMA ReplicaInvHolds == ReplicaSpec => []ReplicaInv
BY ReplicaKeepsFeed, TypeCorrect, ReplicaTypeCorrect, LoopRunsForSubscribers, MirrorHolds,
   MemoizedHolds, ModerationHolds, PTL DEF ReplicaInv

LEMMA KeptHolds == ReplicaSpec => []KeptInv
<1>1. ReplicaInv /\ ReplicaInit => KeptInv
  BY KeptInit DEF ReplicaInv
<1>2. ReplicaInv /\ ReplicaInv' /\ KeptInv /\ [ReplicaNext]_allVars => KeptInv'
  <2> SUFFICES ASSUME ReplicaInv, ReplicaInv', KeptInv, [ReplicaNext]_allVars PROVE KeptInv'
    OBVIOUS
  <2>1. LogsInv'
    BY LogsStep
  <2>2. QuietInv'
    BY <2>1, QuietStep
  <2>3. HealsInv'
    BY HealsStep
  <2> QED BY <2>1, <2>2, <2>3 DEF KeptInv
<1> QED BY <1>1, <1>2, ReplicaInvHolds, PTL DEF ReplicaSpec

-----------------------------------------------------------------------------
(* No reader goes on seeing what a moderator removes.                      *)

LEMMA ReachesWithin ==
    ASSUME NEW c \in Readers, NEW p \in Posts
    PROVE  Reaches(c, p) <=> Within(moderation[p], Outcome(page[c], queue[c], buffer)[p])
<1>1. moderation[p] = << >> => ToSet(moderation[p]) = {}
  BY DEF ToSet
<1> QED BY <1>1 DEF Reaches, Within, Eventually, Outcome

\* What is sent reaches the page if it does on a page that differs in other posts.
LEMMA OutcomeAlike ==
    ASSUME NEW v \in Models, NEW w \in Models, NEW p \in Posts, Alike(v[p], w[p]),
           NEW frames \in Seq(Frame), NEW msgs \in Seq(Message), ~Spoils(frames, msgs)
    PROVE  Alike(Outcome(v, frames, msgs)[p], Outcome(w, frames, msgs)[p])
<1>1. ~HasSpoiler(msgs)
      /\ \A i \in DOMAIN frames : frames[i].kind = "concat" => ~HasSpoiler(frames[i].msgs)
  BY DEF Spoils
<1>2. Alike(Delivered(v, frames)[p], Delivered(w, frames)[p])
  BY <1>1, DeliveredAlike
<1>3. Delivered(v, frames) \in Models /\ Delivered(w, frames) \in Models
  BY DeliveredType
<1> QED BY <1>1, <1>2, <1>3, HandledAllAlike DEF Outcome

\* A step that leaves what is sent to a client, but for a count, and the log
LEMMA ReachesStill ==
    ASSUME TypeOK, ReplicaTypeOK, NEW c \in Readers, NEW p \in Posts, Reaches(c, p),
           page'[c] = page[c], queue'[c] = queue[c], moderation'[p] = moderation[p],
           buffer' = buffer \/ buffer' = Append(buffer, SyncCount)
    PROVE  Reaches(c, p)'
<1>1. queue[c] \in Seq(Frame) /\ page[c] \in Models /\ buffer \in Seq(Message)
  BY DEF TypeOK, ReplicaTypeOK, Models
<1>2. Delivered(page[c], queue[c]) \in Models
  BY <1>1, DeliveredType
<1>3. Outcome(page[c], queue[c], buffer') = Outcome(page[c], queue[c], buffer)
  BY <1>2, CountCarried DEF Outcome, SyncCount
<1>4. Within(moderation[p], Outcome(page[c], queue[c], buffer)[p])
  BY ReachesWithin
<1>5. moderation[p] = << >> => ToSet(moderation[p]) = {}
  BY DEF ToSet
<1>6. Within(moderation'[p], Outcome(page'[c], queue'[c], buffer')[p])
  BY <1>3, <1>4
<1> QED BY <1>6 DEF Reaches, Within, Eventually, Outcome

LEMMA ReachesStep ==
    ASSUME ReplicaInv, ReplicaInv', KeptInv, KeptInv', [ReplicaNext]_allVars,
           NEW c \in Readers, NEW p \in Posts, c \in members', c \notin lost', ~SpoilerSent(c)',
           c \in members => c \notin lost /\ Reaches(c, p),
           c \notin members => ~Mistaken(c, p)
    PROVE  Reaches(c, p)'
<1>1. TypeOK /\ ReplicaTypeOK /\ RunsIffSubscribed /\ ModerationInv
      /\ LogsInv /\ QuietInv /\ HealsInv
  BY DEF ReplicaInv, KeptInv
<1>2. /\ buffer \in Seq(Message) /\ buffer' \in Seq(Message)
      /\ queue[c] \in Seq(Frame) /\ queue'[c] \in Seq(Frame)
      /\ page[c] \in Models /\ page'[c] \in Models
  BY DEF ReplicaInv, TypeOK, ReplicaTypeOK, Models
<1>3. ~Spoils(queue'[c], buffer')
  BY DEF SpoilerSent, Spoils, HasSpoiler
<1>4. ASSUME Within(moderation'[p], Outcome(page'[c], queue'[c], buffer')[p])
      PROVE  Reaches(c, p)'
  BY <1>4 DEF Reaches, Within, Eventually, Outcome
<1>5. ASSUME c \in members
      PROVE  /\ Within(moderation[p], Outcome(page[c], queue[c], buffer)[p])
             /\ running /\ c \notin lost /\ Reaches(c, p)
             /\ Heals(queue[c], buffer, moderation[p], p)
  <2>1. running /\ c \notin lost /\ Reaches(c, p)
    BY <1>1, <1>5 DEF RunsIffSubscribed
  <2>2. HealsFrom(queue[c], buffer, moderation[p], p)
    BY <1>1, <2>1 DEF HealsInv
  <2>3. 1 \in 1..Len(queue[c]) + 1 /\ Suffix(queue[c], 1) = queue[c]
    BY <1>2, LenProperties, SuffixEnds
  <2> QED BY <2>1, <2>2, <2>3, ReachesWithin DEF HealsFrom
<1>6. ASSUME NEW d \in Clients, Join(d)
      PROVE  Reaches(c, p)'
  <2> DEFINE frame == [kind |-> "synchronise", state |-> memoized']
  <2>1. /\ d \notin members /\ memoized' # NoSnapshot /\ members' = members \cup {d}
        /\ moderation' = IF running THEN moderation ELSE LoadModeration
        /\ buffer' = buffer \/ buffer' = Append(buffer, SyncCount)
        /\ Send({d}, frame) /\ UNCHANGED page
    BY <1>6 DEF Join, AddToFeed, SendIPCount, SyncCount, State, NoSnapshot
  <2>2. memoized' \in Snapshot /\ memoized'.moderation = moderation'
    <3>1. memoized' = State(recent', moderation') /\ memoized' \in Snapshot \cup {NoSnapshot}
      BY <2>1 DEF ReplicaInv, MemoizedInv, MemoizedIsCurrent, TypeOK
    <3> QED BY <2>1, <3>1 DEF State
  <2>3. frame \in Frame /\ frame.kind = "synchronise" /\ frame.state = memoized'
    BY <2>2 DEF Frame
  <2> HIDE DEF frame
  <2>4. CASE c # d
    <3>1. c \in members
      BY <2>1, <2>4
    <3>2. queue'[c] = queue[c]
      BY <2>1, <2>4 DEF Send
    <3> QED BY <1>1, <1>5, <2>1, <3>1, <3>2, ReachesStill
  <2>5. CASE c = d
    <3>1. queue[c] = << >> /\ << >> \in Seq(Frame)
      BY <1>1, <2>1, <2>5, EmptySeq DEF LogsInv
    <3>2. ~Full(c)
      BY <2>1, <2>5 DEF Send
    <3>3. queue'[c] = Append(queue[c], frame)
      BY <2>1, <2>5, <3>2 DEF Send
    <3> DEFINE s == memoized'
               w == Synced(page[c], s)
               log == moderation'[p]
    <3>4. Delivered(page[c], queue'[c]) = w
      <4>1. Delivered(page[c], Append(<< >>, frame)) = Handle(Delivered(page[c], << >>), frame)
        BY <1>2, <2>3, <3>1, DeliveredAppend
      <4>2. Handle(page[c], frame) = Synced(page[c], memoized')
        BY <2>3 DEF Handle
      <4> QED BY <1>2, <3>1, <3>3, <4>1, <4>2, DeliveredNone
    <3>5. s \in Snapshot /\ w \in Models /\ s.moderation[p] = log
      BY <1>2, <2>2, SyncedType
    <3>6. Within(log, w[p])
      <4>1. /\ page[c][p] = Absent => w[p] = Absent
            /\ page[c][p] # Absent =>
                 w[p].mods =
                   IF s.moderation[p] = << >> \/ Len(page[c][p].mods) = Len(s.moderation[p])
                   THEN page[c][p].mods ELSE s.moderation[p]
        BY <1>2, <3>5, SyncedLog
      <4>2. /\ page[c][p] # Absent => Len(page[c][p].mods) # Len(log) \/ page[c][p].mods = log
        BY <2>1, <2>5 DEF Mistaken
      <4>3. log = << >> => ToSet(log) = {}
        BY DEF ToSet
      <4> HIDE DEF s, w, log
      <4> QED BY <3>5, <4>1, <4>2, <4>3 DEF Within
    <3>7. Heals(<< >>, buffer', log, p)
      BY DEF KeptInv, HealsInv
    <3>8. ~Spoils(<< >>, buffer')
      BY <1>3 DEF Spoils
    <3> HIDE DEF s, w, log
    <3>9. Within(log, Outcome(w, << >>, buffer')[p])
      BY <3>5, <3>6, <3>7, <3>8 DEF Heals
    <3>10. Outcome(w, << >>, buffer') = Outcome(page'[c], queue'[c], buffer')
      BY <2>1, <3>4, <3>5, DeliveredNone DEF Outcome
    <3> QED BY <1>4, <3>9, <3>10 DEF log
  <2> QED BY <2>4, <2>5
<1>7. ASSUME c \in members, page'[c] = page[c], queue'[c] = queue[c],
             moderation'[p] = moderation[p],
             buffer' = buffer \/ buffer' = Append(buffer, SyncCount)
      PROVE  Reaches(c, p)'
  BY <1>1, <1>5, <1>7, ReachesStill
<1>8. ASSUME NEW d \in Clients, Leave(d)
      PROVE  Reaches(c, p)'
  <2>1. /\ RemoveFromFeed(d) /\ UNCHANGED page /\ members' = members \ {d}
        /\ \A r \in Readers : queue'[r] = IF r = d THEN << >> ELSE queue[r]
    BY <1>8 DEF Leave, RemoveFromFeed
  <2>2. c \in members /\ c # d /\ ~LoopExits(members')
    BY <2>1 DEF LoopExits
  <2>3. moderation' = moderation /\ (buffer' = buffer \/ buffer' = Append(buffer, SyncCount))
    BY <2>1, <2>2 DEF RemoveFromFeed, SendIPCount, SyncCount
  <2> QED BY <1>7, <2>1, <2>2, <2>3
<1>9. ASSUME NEW d \in Readers, LoadPage(d)
      PROVE  Reaches(c, p)'
  <2>1. /\ d \notin members /\ UNCHANGED <<members, moderation, buffer, queue>>
        /\ page' = [page EXCEPT ![d] = Rendered]
    BY <1>9 DEF LoadPage, vars
  <2>2. c \in members /\ page'[c] = page[c]
    BY <1>1, <2>1 DEF ReplicaTypeOK
  <2> QED BY <1>7, <2>1, <2>2
<1>10. ASSUME NEW d \in Readers, Receive(d)
       PROVE  Reaches(c, p)'
  <2>1. /\ queue[d] # << >> /\ UNCHANGED <<members, moderation, buffer>>
        /\ page' = [page EXCEPT ![d] = Handle(page[d], Head(queue[d]))]
        /\ queue' = [queue EXCEPT ![d] = Tail(queue[d])]
    BY <1>10 DEF Receive, vars
  <2>2. c \in members
    BY <2>1
  <2>3. CASE d # c
    <3>1. page'[c] = page[c] /\ queue'[c] = queue[c]
      BY <1>1, <2>1, <2>3 DEF ReplicaTypeOK
    <3> QED BY <1>7, <2>1, <2>2, <3>1
  <2>4. CASE d = c
    <3>1. page'[c] = Handle(page[c], Head(queue[c])) /\ queue'[c] = Tail(queue[c])
      BY <1>1, <2>1, <2>4 DEF ReplicaTypeOK
    <3>2. Delivered(page'[c], queue'[c]) = Delivered(page[c], queue[c])
      BY <1>2, <2>1, <2>4, <3>1, DeliveredHead
    <3>3. Outcome(page'[c], queue'[c], buffer') = Outcome(page[c], queue[c], buffer)
      BY <2>1, <3>2 DEF Outcome
    <3> QED BY <1>4, <1>5, <2>1, <2>2, <3>3
  <2> QED BY <2>3, <2>4
<1>11. ASSUME NEW d \in Readers, NEW q \in Posts, Answer(d, q)
       PROVE  Reaches(c, p)'
  <2> DEFINE m == Fetched(page[d][q], post[q], fetching[d][q])
  <2>1. /\ fetching[d][q] # NoFetch /\ UNCHANGED <<members, moderation, buffer, queue, post>>
        /\ page' = [page EXCEPT ![d][q] = m]
    BY <1>11 DEF Answer, vars
  <2>2. c \in members /\ ~Spoils(queue[c], buffer)
    BY <1>3, <2>1
  <2>3. /\ Within(moderation[p], Outcome(page[c], queue[c], buffer)[p])
        /\ Heals(queue[c], buffer, moderation[p], p)
    BY <1>5, <2>2
  <2>4. ASSUME Alike(page[c][p], page'[c][p])
        PROVE  Reaches(c, p)'
    <3>1. Alike(Outcome(page[c], queue[c], buffer)[p], Outcome(page'[c], queue[c], buffer)[p])
      BY <1>2, <2>2, <2>4, OutcomeAlike
    <3>2. Within(moderation[p], Outcome(page'[c], queue[c], buffer)[p])
      BY <2>3, <3>1, AlikeWithin
    <3> QED BY <1>4, <2>1, <3>2
  <2>5. CASE ~(d = c /\ q = p)
    <3> HIDE DEF m
    <3>1. page'[c][p] = page[c][p]
      BY <1>1, <2>1, <2>5 DEF ReplicaTypeOK
    <3> QED BY <2>4, <3>1 DEF Alike
  <2>6. CASE d = c /\ q = p
    <3>1. /\ fetching[c][p] \in Fetch /\ page[c][p] \in Model \cup {Absent} /\ post[p] \in PostRow
          /\ post[p].mods \in Seq(ModActions)
      BY <1>1, <2>1, <2>6 DEF ReplicaTypeOK, TypeOK, PostRow
    <3>2. m \in Model
      BY <2>6, <3>1, FetchedType
    <3>3. page'[c][p] = m
      <4> HIDE DEF m
      <4> QED BY <1>1, <2>1, <2>6 DEF ReplicaTypeOK
    <3>4. CASE fetching[c][p].why = "missing" /\ page[c][p] # Absent
      <4> DEFINE model == page[c][p]
                 fetch == fetching[c][p]
      <4>1. m = [model EXCEPT !.body = IF fetch.body # << >> THEN fetch.body ELSE model.body]
        BY <2>6, <3>4 DEF Fetched
      <4>2. model \in Model
        BY <3>1, <3>4
      <4> HIDE DEF fetch, model, m
      <4>3. m.mods = model.mods
        BY <4>1, <4>2 DEF Model
      <4> QED BY <2>4, <3>2, <3>3, <3>4, <4>3, ReplicaAssumption DEF Alike, model
    <3>5. CASE ~(fetching[c][p].why = "missing" /\ page[c][p] # Absent)
      <4> DEFINE row == FromRow(post[p])
                 model == page[c][p]
                 fetch == fetching[c][p]
      <4>1. row \in Model /\ row.mods = post[p].mods
        BY <3>1, FromType DEF FromRow
      <4>2. m = IF fetch.why = "missing"
                  THEN [row EXCEPT !.body = IF fetch.body # << >> THEN fetch.body ELSE row.body]
                  ELSE [row EXCEPT !.image = row.image \/ model.image]
        BY <2>6, <3>5 DEF Fetched
      <4> HIDE DEF row, model, fetch, m
      <4>3. m.mods = post[p].mods
        BY <4>1, <4>2 DEF Model
      <4>4. Within(moderation[p], page'[c][p])
        BY <1>1, <3>3, <4>3 DEF LogsInv, Within
      <4>5. Within(moderation[p], Outcome(page'[c], queue[c], buffer)[p])
        BY <1>2, <2>2, <2>3, <4>4 DEF Heals
      <4> QED BY <1>4, <2>1, <4>5
    <3> QED BY <3>4, <3>5
  <2> QED BY <2>5, <2>6
<1>12. CASE Broadcast
  <2>1. UNCHANGED <<members, moderation, page>> /\ buffer' = << >>
    BY <1>12 DEF Broadcast, Flush, browserVars
  <2>2. c \in members
    BY <2>1
  <2>3. CASE buffer = << >>
    <3>1. UNCHANGED queue
      BY <1>12, <2>3 DEF Broadcast, browserVars
    <3> QED BY <1>7, <2>1, <2>2, <2>3, <3>1
  <2>4. CASE buffer # << >>
    <3> DEFINE frame == [kind |-> "concat", msgs |-> buffer]
    <3>1. frame \in Frame /\ frame.kind = "concat" /\ frame.msgs = buffer
      BY <1>2 DEF Frame
    <3>2. Send(members, frame)
      BY <1>12, <2>4 DEF Broadcast
    <3> HIDE DEF frame
    <3>3. ~Full(c)
      BY <2>2, <3>2 DEF Send
    <3>4. queue'[c] = Append(queue[c], frame)
      BY <2>2, <3>2, <3>3 DEF Send
    <3>5. Delivered(page[c], Append(queue[c], frame)) = Outcome(page[c], queue[c], buffer)
      BY <1>2, <3>1, DeliveredAppend DEF Outcome, Handle
    <3>6. Outcome(page[c], queue[c], buffer) \in Models
      BY <1>2, OutcomeType
    <3>7. Outcome(page'[c], queue'[c], buffer') = Outcome(page[c], queue[c], buffer)
      BY <2>1, <3>4, <3>5, <3>6, HandlingNone DEF Outcome
    <3> QED BY <1>4, <1>5, <2>1, <2>2, <3>7
  <2> QED BY <2>3, <2>4
<1>13. CASE ((Evict \/ Clock) /\ UNCHANGED browserVars) \/ UNCHANGED allVars
  <2>1. UNCHANGED <<members, moderation, buffer, page, queue>>
    BY <1>13 DEF Evict, Clock, browserVars, allVars, vars
  <2>2. c \in members
    BY <2>1
  <2> QED BY <1>7, <2>1, <2>2
<1>14. ASSUME NEW q \in Posts, ChangePost(q), UNCHANGED browserVars
       PROVE  Reaches(c, p)'
  <2>1. LogFrame(q)
    BY <1>1, <1>14, ChangePostLog DEF LogsInv
  <2>2. UNCHANGED <<members, page, queue>>
    BY <1>14, ChangePostFrame DEF ChangeFrame, browserVars
  <2>3. c \in members
    BY <2>2
  <2>4. CASE moderation'[q] = moderation[q]
             /\ (buffer' = buffer \/ buffer' = Append(buffer, SyncCount))
    <3>1. moderation'[p] = moderation[p]
      BY <2>1, <2>4 DEF LogFrame
    <3> QED BY <1>7, <2>2, <2>3, <2>4, <3>1
  <2>5. ASSUME NEW msg \in Message, Announces(q, msg)
        PROVE  Reaches(c, p)'
    <3> DEFINE told == Append(buffer, msg)
               w == Delivered(page[c], queue[c])
               x == HandledAll(w, buffer)
    <3>1. told \in Seq(Message) /\ w \in Models
      BY <1>2, AppendProperties, DeliveredType
    <3>2. x \in Models /\ x = Outcome(page[c], queue[c], buffer)
      BY <1>2, <3>1, HandledAllType DEF Outcome
    <3>3. buffer' = told \/ buffer' = Append(told, SyncCount)
      BY <2>5 DEF Announces
    <3>4. ~Spoils(queue'[c], told)
      BY <1>3, <3>1, <3>3, CountIsMessage, SpoilsLess
    <3>5. ~HasSpoiler(buffer) /\ msg.type # "spoiler"
      BY <1>2, <3>4, SpoilsLess
    <3>6. HandledAll(w, told) = Handled(x, msg)
      <4> HIDE DEF w
      <4> QED BY <1>2, <3>1, <3>5, HandledAllAppend
    <3>7. HandledAll(w, buffer') = Handled(x, msg)
      <4>1. HandledAll(w, Append(told, SyncCount)) = HandledAll(w, told)
        <5> HIDE DEF w, told
        <5> QED BY <3>1, CountIsMessage, HandledAllCount
      <4> QED BY <3>3, <3>6, <4>1
    <3>8. Within(moderation[p], x[p])
      BY <1>5, <2>3, <3>2
    <3>9. p = q /\ post[q].state = "none" => x[p] = Absent
      <4> SUFFICES ASSUME p = q, post[q].state = "none" PROVE x[p] = Absent
        OBVIOUS
      <4>1. page[c][p] = Absent /\ Untouched(queue[c], p) /\ Unheard(buffer, p)
        BY <1>1 DEF QuietInv
      <4>2. w[p] = Absent
        BY <1>2, <4>1, DeliveredUntouched
      <4> HIDE DEF w
      <4> QED BY <1>2, <3>1, <4>1, <4>2, HandledAllUnheard
    <3>10. p # q => moderation'[p] = moderation[p]
      BY <2>1 DEF LogFrame
    <3> HIDE DEF x, w, told
    <3>11. Within(moderation'[p], Handled(x, msg)[p])
      BY <1>1, <2>5, <3>2, <3>8, <3>9, <3>10, AnnouncementHandled
    <3>12. Outcome(page'[c], queue'[c], buffer') = Handled(x, msg)
      BY <2>2, <3>7 DEF Outcome, w
    <3> QED BY <1>4, <3>11, <3>12
  <2> QED BY <2>1, <2>4, <2>5 DEF LogFrame, Announced
<1> QED BY <1>6, <1>8, <1>9, <1>10, <1>11, <1>12, <1>13, <1>14 DEF ReplicaNext

\* Once a moderator's action has reached a subscriber's page, or is on its way
\* there, it stays: in the message, the snapshot (synchronization.ts:155) and the
\* row fetched, in whatever order they come.
THEOREM ModerationIsKept == ReplicaSpec => ModerationKept
<1> DEFINE Inv == ReplicaInv /\ KeptInv
<1>1. ReplicaSpec => []Inv
  BY ReplicaInvHolds, KeptHolds, PTL
<1>2. Inv /\ Inv' /\ [ReplicaNext]_allVars =>
        [\A c \in (members' \cap Readers) \ lost', p \in Posts :
           ~Reaches(c, p)' => \/ SpoilerSent(c)'
                              \/ c \in members /\ (c \in lost \/ ~Reaches(c, p))
                              \/ c \notin members /\ Mistaken(c, p)]_allVars
  BY ReachesStep
<1> HIDE DEF Inv
<1> QED BY <1>1, <1>2, PTL DEF ReplicaSpec, ModerationKept
=============================================================================

--------------------------- MODULE PageCacheProofs ----------------------------
(***************************************************************************)
(* Of PageCache, for any getters, stores, size, updates, deletions and     *)
(* bounds: the map and the LRU list hold the same stores, and no thread    *)
(* page's counter is ahead of its data, a failed fetch apart.              *)
(*                                                                         *)
(* PagesInv is inductive.  What it adds to the properties is where         *)
(* requests are: who works on a store holds its lock and looked for its    *)
(* key, a board page waits while its thread is fetched, and a counter that *)
(* is ahead of the data is so under the lock of someone whose data, when   *)
(* they come, show the update it counts.                                   *)
(***************************************************************************)
EXTENDS PageCache, SequenceTheorems, TLAPS

(***************************************************************************)
(* The inductive invariant.                                                *)
(***************************************************************************)

\* What a getter holds a lock for.
Locked == {"counter", "fetch", "child", "save"}

\* A getter that works on a store holds its lock.
Holding ==
    \A g \in Getters, k \in Keys :
        frame[g][k].step \in Locked => owner[frame[g][k].store] = g

\* A getter past the list works on a store of its key.
Keyed ==
    \A g \in Getters, k \in Keys :
        frame[g][k].step \notin {"idle", "store"} =>
            /\ frame[g][k].store \in Stores
            /\ store[frame[g][k].store].key = k

\* The board page waits while a getter is with the thread page.
Nested ==
    \A g \in Getters : \/ frame[g][Board].step \in {"idle", "child"}
                       \/ frame[g][Thread].step = "idle"

\* Data of n updates show one at the time that is the counter of s.
Shows(s, n) ==
    \E u \in 1..Len(updates) : u <= n /\ updates[u] = store[s].counter

\* The counter of a thread page is that of an update the data will have, and of
\* one they have once they are fetched.
Fetching ==
    \A g \in Getters :
        LET f == frame[g][Thread] IN
        /\ f.step = "fetch" => Shows(f.store, Len(updates))
        /\ f.step = "save" => f.data \in Versions /\ Shows(f.store, f.data)

\* Someone is between the counter of s and its data.
Between(s) == \E g \in Getters : /\ frame[g][Thread].store = s
                                 /\ frame[g][Thread].step \in {"fetch", "save"}

\* The counter of a thread page is behind its data, a failed fetch apart, or
\* someone is between the two.
Aligned ==
    \A s \in Stores \ ahead :
        store[s].key = Thread /\ store[s].data # None =>
            Shows(s, store[s].data) \/ Between(s)

\* Every notification is of a thread that has gone.
Gone == others + notices <= Others

PagesInv == /\ TypeOK /\ Gone /\ MapIsList
            /\ Holding /\ Keyed /\ Nested /\ Fetching /\ Aligned

-----------------------------------------------------------------------------
(* The parts of the type invariant.                                        *)

DbTyped ==
    /\ now \in 0..MaxTime
    /\ updates \in Seq(0..MaxTime) /\ Len(updates) \in Versions
    /\ others \in 0..Others /\ notices \in 0..Others
ListTyped ==
    /\ cache \in [Keys -> Stores \cup {None}]
    /\ ll \in Seq(Stores)
    /\ totalUsed \in Int
    /\ endless \in BOOLEAN
JobsTyped ==
    /\ IsABag(jobs)
    /\ \A j \in BagToSet(jobs) : j.key \in Keys /\ j.delta \in Int
RequestTyped ==
    /\ store \in [Stores -> Store]
    /\ owner \in [Stores -> Getters \cup {None}]
    /\ frame \in [Getters -> [Keys -> Frame]]
    /\ requests \in 0..MaxRequests
    /\ ahead \subseteq Stores

\* The type invariant is its parts.
LEMMA TypeParts == TypeOK <=> DbTyped /\ ListTyped /\ JobsTyped /\ RequestTyped
  BY DEF TypeOK, DbTyped, ListTyped, JobsTyped, RequestTyped

-----------------------------------------------------------------------------
(* Bags and sequences.                                                     *)

\* A bag without one of its elements is a bag of elements it had.
LEMMA BagMinus ==
    ASSUME NEW B, IsABag(B), NEW j \in BagToSet(B)
    PROVE  /\ IsABag(B (-) SetToBag({j}))
           /\ BagToSet(B (-) SetToBag({j})) \subseteq BagToSet(B)
<1> DEFINE C == [e \in DOMAIN B |-> IF e \in DOMAIN SetToBag({j})
                                      THEN B[e] - SetToBag({j})[e] ELSE B[e]]
<1>1. B (-) SetToBag({j}) = [e \in {d \in DOMAIN C : C[d] > 0} |-> C[e]]
  BY DEF (-)
<1>2. C \in [DOMAIN B -> Int]
  BY DEF IsABag, BagToSet, SetToBag
<1> HIDE DEF C
<1>3. B (-) SetToBag({j}) \in [{d \in DOMAIN B : C[d] > 0} -> {n \in Nat : n > 0}]
  BY <1>1, <1>2
<1>4. DOMAIN (B (-) SetToBag({j})) = {d \in DOMAIN B : C[d] > 0}
  BY <1>3
<1> HIDE DEF (-)
<1> QED BY <1>3, <1>4 DEF IsABag, BagToSet

\* A bag with one more element.
LEMMA BagPlus ==
    ASSUME NEW B, IsABag(B), NEW j
    PROVE  /\ IsABag(B (+) SetToBag({j}))
           /\ BagToSet(B (+) SetToBag({j})) = BagToSet(B) \cup {j}
<1> DEFINE e(x) == (IF x \in DOMAIN B THEN B[x] ELSE 0)
                      + (IF x \in DOMAIN SetToBag({j}) THEN SetToBag({j})[x] ELSE 0)
<1>1. B (+) SetToBag({j}) = [x \in DOMAIN B \cup DOMAIN SetToBag({j}) |-> e(x)]
  BY DEF (+)
<1>2. DOMAIN SetToBag({j}) = {j} /\ SetToBag({j})[j] = 1
  BY DEF SetToBag
<1>3. \A x \in DOMAIN B \cup {j} : e(x) \in Nat /\ e(x) > 0
  BY <1>2 DEF IsABag
<1> HIDE DEF e
<1>4. DOMAIN (B (+) SetToBag({j})) = DOMAIN B \cup {j}
  BY <1>1, <1>2
<1>5. B (+) SetToBag({j}) \in [DOMAIN B \cup {j} -> {n \in Nat : n > 0}]
  BY <1>1, <1>2, <1>3
<1> QED BY <1>4, <1>5 DEF IsABag, BagToSet
\* The first stores of the list are stores of the list, each once.
LEMMA FirstOfList ==
    ASSUME NEW S, NEW q \in Seq(S), IsInjective(q), NEW n \in 0..Len(q)
    PROVE  /\ SubSeq(q, 1, n) \in Seq(S) /\ IsInjective(SubSeq(q, 1, n))
           /\ ToSet(SubSeq(q, 1, n)) \subseteq ToSet(q)
<1>1. /\ SubSeq(q, 1, n) \in Seq(S) /\ Len(SubSeq(q, 1, n)) = n
      /\ \A i \in 1..n : SubSeq(q, 1, n)[i] = q[i]
  OBVIOUS
<1>2. DOMAIN SubSeq(q, 1, n) = 1..n /\ DOMAIN q = 1..Len(q)
  BY <1>1
<1> QED BY <1>1, <1>2 DEF IsInjective, ToSet

\* A new store in front of a list.
LEMMA PushFront ==
    ASSUME NEW S, NEW q \in Seq(S), IsInjective(q), NEW s \in S, s \notin ToSet(q)
    PROVE  /\ <<s>> \o q \in Seq(S) /\ IsInjective(<<s>> \o q)
           /\ ToSet(<<s>> \o q) = ToSet(q) \cup {s}
<1> DEFINE p == <<s>> \o q
<1>1. /\ p \in Seq(S) /\ Len(p) = Len(q) + 1 /\ p[1] = s
      /\ \A i \in 2..Len(q) + 1 : p[i] = q[i - 1]
  OBVIOUS
<1>2. DOMAIN p = 1..Len(q) + 1 /\ DOMAIN q = 1..Len(q)
  BY <1>1
<1> HIDE DEF p
<1>3. \A i \in 2..Len(q) + 1 : p[i] \in ToSet(q) /\ p[i] # s
  BY <1>1, <1>2 DEF ToSet
<1>4. \A i \in 1..Len(q) : i + 1 \in 2..Len(q) + 1 /\ p[i + 1] = q[i]
  BY <1>1
<1>5. IsInjective(p)
  <2> SUFFICES ASSUME NEW a \in 1..Len(q) + 1, NEW b \in 1..Len(q) + 1, p[a] = p[b]
               PROVE  a = b
    BY <1>2 DEF IsInjective
  <2>1. CASE a = 1 \/ b = 1
    BY <2>1, <1>1, <1>3
  <2>2. CASE a # 1 /\ b # 1
    BY <2>2, <1>1, <1>2 DEF IsInjective
  <2> QED BY <2>1, <2>2
<1>6. ToSet(p) = ToSet(q) \cup {s}
  <2>1. ToSet(p) \subseteq ToSet(q) \cup {s}
    BY <1>1, <1>2, <1>3 DEF ToSet
  <2>2. s \in ToSet(p)
    BY <1>1, <1>2 DEF ToSet
  <2>3. ToSet(q) \subseteq ToSet(p)
    BY <1>2, <1>4 DEF ToSet
  <2> QED BY <2>1, <2>2, <2>3
<1> QED BY <1>1, <1>5, <1>6 DEF p

\* How many elements follow the m-th of l.
LEMMA LengthOfRest ==
    \A m, l \in Int : /\ l - (m + 1) + 1 = l - m
                     /\ m <= l => (IF m + 1 <= l THEN l - (m + 1) + 1 ELSE 0) = l - m
  OBVIOUS

\* A list without one of its stores.
LEMMA WithoutOne ==
    ASSUME ll \in Seq(Stores), IsInjective(ll), NEW s \in ToSet(ll)
    PROVE  /\ Without(s) \in Seq(Stores) /\ IsInjective(Without(s))
           /\ ToSet(Without(s)) = ToSet(ll) \ {s}
<1> DEFINE i == CHOOSE j \in 1..Len(ll) : ll[j] = s
           p == RemoveAt(ll, i)
<1>1. DOMAIN ll = 1..Len(ll) /\ Len(ll) \in Nat
  OBVIOUS
<1>2. i \in 1..Len(ll) /\ ll[i] = s
  BY <1>1 DEF ToSet
<1>3. Without(s) = p
  BY DEF Without
<1> HIDE DEF i
<1> DEFINE u == SubSeq(ll, 1, i - 1)
           v == SubSeq(ll, i + 1, Len(ll))
<1>8. /\ u \in Seq(Stores) /\ Len(u) = i - 1
      /\ \A j \in 1..i - 1 : u[j] = ll[j]
  BY <1>1, <1>2
<1>9. /\ v \in Seq(Stores) /\ Len(v) = Len(ll) - i
      /\ \A j \in 1..Len(ll) - i : v[j] = ll[j + i]
  <2>1. \A j \in i + 1..Len(ll) : ll[j] \in Stores
    BY <1>1, <1>2
  <2>2. /\ v \in Seq(Stores)
        /\ Len(v) = IF i + 1 <= Len(ll) THEN Len(ll) - (i + 1) + 1 ELSE 0
        /\ \A j \in 1..Len(ll) - (i + 1) + 1 : v[j] = ll[i + 1 + j - 1]
    BY <2>1, <1>1, <1>2, SubSeqProperties
  <2> HIDE DEF v, i
  <2>5. i \in Int /\ i <= Len(ll) /\ Len(ll) \in Int
    BY <1>1, <1>2
  <2>3. Len(v) = Len(ll) - i /\ Len(ll) - (i + 1) + 1 = Len(ll) - i
    BY <2>2, <2>5, LengthOfRest
  <2>4. \A j \in 1..Len(ll) - i : i + 1 + j - 1 = j + i
    BY <2>5
  <2> QED BY <2>2, <2>3, <2>4
<1>10. p = u \o v
  BY DEF RemoveAt
<1> HIDE DEF u, v, p
<1>4. /\ p \in Seq(Stores) /\ Len(p) = Len(ll) - 1
      /\ \A j \in 1..Len(ll) - 1 : p[j] = IF j < i THEN ll[j] ELSE ll[j + 1]
  <2>1. p \in Seq(Stores) /\ Len(p) = Len(ll) - 1
    <3>1. p \in Seq(Stores) /\ Len(p) = Len(u) + Len(v)
      BY <1>8, <1>9, <1>10, ConcatProperties
    <3> QED BY <3>1, <1>1, <1>2, <1>8, <1>9
  <2>2. ASSUME NEW j \in 1..Len(ll) - 1, j < i PROVE p[j] = ll[j]
    BY <2>2, <1>1, <1>2, <1>8, <1>9, <1>10
  <2>3. ASSUME NEW j \in 1..Len(ll) - 1, ~(j < i) PROVE p[j] = ll[j + 1]
    <3>1. j - (i - 1) \in 1..Len(ll) - i /\ j - (i - 1) + i = j + 1
      BY <2>3, <1>1, <1>2
    <3>2. p[j] = v[j - (i - 1)]
      BY <2>3, <1>1, <1>2, <1>8, <1>9, <1>10
    <3> QED BY <3>1, <3>2, <1>9
  <2> QED BY <2>1, <2>2, <2>3
<1>5. DOMAIN p = 1..Len(ll) - 1
  BY <1>4
<1>6. IsInjective(p)
  <2> SUFFICES ASSUME NEW a \in 1..Len(ll) - 1, NEW b \in 1..Len(ll) - 1, p[a] = p[b]
               PROVE  a = b
    BY <1>5 DEF IsInjective
  <2>1. \A c, d \in 1..Len(ll) : ll[c] = ll[d] => c = d
    BY <1>1 DEF IsInjective
  <2> QED BY <2>1, <1>1, <1>2, <1>4
<1>7. ToSet(p) = ToSet(ll) \ {s}
  <2>1. ASSUME NEW a \in 1..Len(ll) - 1 PROVE p[a] \in ToSet(ll) /\ p[a] # s
    <3>1. PICK c \in 1..Len(ll) : p[a] = ll[c] /\ c # i
      BY <1>1, <1>2, <1>4
    <3> QED BY <3>1, <1>1, <1>2 DEF IsInjective, ToSet
  <2>2. ASSUME NEW c \in 1..Len(ll), ll[c] # s PROVE ll[c] \in ToSet(p)
    <3>1. PICK a \in 1..Len(ll) - 1 : p[a] = ll[c]
      <4>1. CASE c < i
        BY <4>1, <1>1, <1>2, <1>4
      <4>2. CASE c > i
        <5>1. c - 1 \in 1..Len(ll) - 1 /\ ~ c - 1 < i /\ (c - 1) + 1 = c
          BY <4>2, <1>1, <1>2
        <5> QED BY <5>1, <1>4
      <4> QED BY <4>1, <4>2, <1>2, <2>2
    <3> QED BY <3>1, <1>5 DEF ToSet
  <2> QED BY <2>1, <2>2, <1>1, <1>5 DEF ToSet
<1> QED BY <1>3, <1>4, <1>6, <1>7

-----------------------------------------------------------------------------
(* The list of stores.                                                     *)

\* What the stores of a set count for is a number.
LEMMA SizeIsNumber ==
    ASSUME TypeOK, NEW ss \in SUBSET Stores PROVE SizeOf(ss) \in Int
<1>1. ASSUME NEW k \in Keys PROVE SizeAt(k, ss) \in Int
  <2>1. CASE cache[k] \in ss
    BY <2>1 DEF SizeAt, TypeOK, Store
  <2> QED BY <2>1 DEF SizeAt
<1> QED BY <1>1 DEF SizeOf, Keys

\* Removing entries leaves the map the keys of the list.
LEMMA Removing ==
    ASSUME TypeOK, MapIsList, store' = store,
           NEW kept \in Seq(Stores), IsInjective(kept), ToSet(kept) \subseteq ToSet(ll),
           NEW used \in Int, RemoveEntries(kept, used)
    PROVE  /\ cache' \in [Keys -> Stores \cup {None}] /\ ll' \in Seq(Stores)
           /\ totalUsed' \in Int /\ MapIsList'
<1> DEFINE ss == Removed(kept)
<1>1. ToSet(ll) \subseteq Stores
  BY DEF TypeOK, ToSet
<1>2. ss \subseteq Stores /\ ss = ToSet(ll) \ ToSet(kept)
  BY <1>1 DEF Removed
<1>3. /\ ll' = kept /\ totalUsed' = used - SizeOf(ss)
      /\ cache' = [k \in Keys |-> IF \E s \in ss : store[s].key = k
                                    THEN None ELSE cache[k]]
  BY DEF RemoveEntries
<1>4. totalUsed' \in Int
  BY <1>2, <1>3, SizeIsNumber
<1> HIDE DEF ss
<1>5. \A k \in Keys : cache[k] # None => store[cache[k]].key = k
  BY DEF MapIsList
<1>6. {cache[k] : k \in Keys} \ {None} = ToSet(ll)
  BY DEF MapIsList
<1>7. ASSUME NEW k \in Keys
      PROVE  cache'[k] = IF cache[k] \in ss THEN None ELSE cache[k]
  <2>1. ASSUME NEW s \in ss, store[s].key = k PROVE cache[k] = s
    <3>1. PICK l \in Keys : cache[l] = s /\ s # None
      BY <2>1, <1>2, <1>6
    <3> QED BY <3>1, <2>1, <1>5
  <2>2. ASSUME cache[k] \in ss PROVE store[cache[k]].key = k
    BY <2>2, <1>2, <1>5, PageCacheAssumption
  <2> QED BY <2>1, <2>2, <1>3
<1>8. {cache'[k] : k \in Keys} \ {None} = ToSet(kept)
  BY <1>2, <1>6, <1>7
<1>9. \A k \in Keys : cache'[k] # None => store[cache'[k]].key = k
  BY <1>5, <1>7
<1> QED BY <1>3, <1>4, <1>8, <1>9 DEF MapIsList, TypeOK

\* Deleting the board's page.
LEMMA DeletionListed ==
    ASSUME TypeOK, MapIsList, DeleteByBoard
    PROVE  ListTyped' /\ MapIsList'
<1> DEFINE kept == IF cache[Board] = None THEN ll ELSE Without(cache[Board])
<1>1. store' = store /\ endless' = endless /\ RemoveEntries(kept, totalUsed)
  BY DEF DeleteByBoard, requestVars
<1>2. ll \in Seq(Stores) /\ IsInjective(ll) /\ Board \in Keys
  BY DEF TypeOK, MapIsList, Keys
<1>3. cache[Board] # None => cache[Board] \in ToSet(ll)
  BY <1>2 DEF MapIsList
<1>4. /\ kept \in Seq(Stores) /\ IsInjective(kept)
      /\ ToSet(kept) \subseteq ToSet(ll)
  BY <1>2, <1>3, WithoutOne
<1> HIDE DEF kept
<1>5. totalUsed \in Int /\ endless \in BOOLEAN
  BY DEF TypeOK
<1>6. /\ cache' \in [Keys -> Stores \cup {None}] /\ ll' \in Seq(Stores)
      /\ totalUsed' \in Int /\ MapIsList'
  BY <1>1, <1>4, <1>5, Removing
<1> QED BY <1>1, <1>5, <1>6 DEF ListTyped

\* Counting a change of size, with the evictions it asks for.
LEMMA EvictionListed ==
    ASSUME TypeOK, MapIsList, NEW j \in BagToSet(jobs), UpdateUsedSize(j)
    PROVE  ListTyped' /\ MapIsList'
<1>1. CASE cache[j.key] = None
  <2>1. UNCHANGED <<cache, ll, totalUsed, endless, store>>
    BY <1>1 DEF UpdateUsedSize, lruVars, requestVars
  <2> QED BY <2>1 DEF ListTyped, MapIsList, TypeOK
<1>2. CASE cache[j.key] # None
  <2> DEFINE used == totalUsed + j.delta
  <2>1. store' = store /\ Evict(used)
    BY <1>2 DEF UpdateUsedSize, requestVars
  <2>2. used \in Int
    BY DEF TypeOK
  <2> HIDE DEF used
  <2>3. PICK n \in Fitting(used) \cup {0} : RemoveEntries(SubSeq(ll, 1, n), used)
    BY <2>1 DEF Evict
  <2>4. n \in 0..Len(ll) /\ ll \in Seq(Stores) /\ IsInjective(ll)
    BY <2>3 DEF Fitting, TypeOK, MapIsList
  <2>5. /\ SubSeq(ll, 1, n) \in Seq(Stores) /\ IsInjective(SubSeq(ll, 1, n))
        /\ ToSet(SubSeq(ll, 1, n)) \subseteq ToSet(ll)
    BY <2>4, FirstOfList
  <2>6. /\ cache' \in [Keys -> Stores \cup {None}] /\ ll' \in Seq(Stores)
        /\ totalUsed' \in Int /\ MapIsList'
    BY <2>1, <2>2, <2>3, <2>5, Removing
  <2>7. endless' \in BOOLEAN
    BY <2>1 DEF Evict
  <2> QED BY <2>6, <2>7 DEF ListTyped
<1> QED BY <1>1, <1>2

-----------------------------------------------------------------------------
(* What the steps have in common.                                          *)

\* The two keys.
LEMMA TwoKeys == Thread \in Keys /\ Board \in Keys /\ Thread # Board
  BY PageCacheAssumption DEF Keys

\* A frame that is replaced.
LEMMA FrameAt ==
    ASSUME NEW fr \in [Getters -> [Keys -> Frame]],
           NEW g \in Getters, NEW k \in Keys, NEW f \in Frame
    PROVE  /\ [fr EXCEPT ![g][k] = f] \in [Getters -> [Keys -> Frame]]
           /\ \A h \in Getters, l \in Keys :
                [fr EXCEPT ![g][k] = f][h][l] =
                    IF h = g /\ l = k THEN f ELSE fr[h][l]
  OBVIOUS

\* The frame of no request.
LEMMA IdleIsFrame == Idle \in Frame /\ Idle.step = "idle"
  BY DEF Idle, Frame, Steps

\* The stores keep their keys, and the map and the list what they have.
LEMMA SameList ==
    ASSUME TypeOK, MapIsList, UNCHANGED lruVars,
           \A s \in Stores : store'[s].key = store[s].key
    PROVE  ListTyped' /\ MapIsList'
<1>1. cache' = cache /\ ll' = ll /\ totalUsed' = totalUsed /\ endless' = endless
  BY DEF lruVars
<1>2. \A k \in Keys : cache[k] # None => cache[k] \in Stores
  BY DEF TypeOK
<1> QED BY <1>1, <1>2 DEF ListTyped, MapIsList, TypeOK

\* The database and the notifications do not change.
LEMMA SameDatabase ==
    ASSUME TypeOK, Gone, UNCHANGED dbVars PROVE DbTyped' /\ Gone'
  BY DEF TypeOK, Gone, dbVars, DbTyped

\* Requests do not change, and updates are only added.
LEMMA SameRequests ==
    ASSUME PagesInv, UNCHANGED requestVars,
           updates' \in Seq(0..MaxTime), Len(updates') >= Len(updates),
           \A u \in 1..Len(updates) : updates'[u] = updates[u]
    PROVE  /\ RequestTyped'
           /\ Holding' /\ Keyed' /\ Nested' /\ Fetching' /\ Aligned'
<1>1. /\ store' = store /\ owner' = owner /\ frame' = frame
      /\ requests' = requests /\ ahead' = ahead
  BY DEF requestVars
<1>2. RequestTyped'
  BY <1>1 DEF RequestTyped, PagesInv, TypeOK
<1>3. Holding' /\ Keyed' /\ Nested'
  BY <1>1 DEF Holding, Keyed, Nested, PagesInv
<1>4. ASSUME NEW s, NEW n, Shows(s, n) PROVE Shows(s, n)'
  <2>1. PICK u \in 1..Len(updates) : u <= n /\ updates[u] = store[s].counter
    BY <1>4 DEF Shows
  <2>2. u \in 1..Len(updates') /\ updates'[u] = updates[u]
    <3>1. Len(updates) \in Nat /\ Len(updates') \in Nat
      BY DEF PagesInv, TypeOK
    <3> QED BY <3>1
  <2> QED BY <1>1, <2>1, <2>2 DEF Shows
<1>5. Fetching'
  <2> SUFFICES ASSUME NEW g \in Getters
               PROVE  LET f == frame[g][Thread] IN
                      /\ f.step = "fetch" => Shows(f.store, Len(updates))'
                      /\ f.step = "save" => f.data \in Versions
                                            /\ Shows(f.store, f.data)'
    BY <1>1 DEF Fetching
  <2>1. LET f == frame[g][Thread] IN
        /\ f.step = "fetch" => Shows(f.store, Len(updates))
        /\ f.step = "save" => f.data \in Versions /\ Shows(f.store, f.data)
    BY DEF PagesInv, Fetching
  <2>2. ASSUME NEW s, Shows(s, Len(updates)) PROVE Shows(s, Len(updates))'
    <3>1. PICK u \in 1..Len(updates) : updates[u] = store[s].counter
      BY <2>2 DEF Shows
    <3>2. u \in 1..Len(updates') /\ updates'[u] = updates[u]
      <4>1. Len(updates) \in Nat /\ Len(updates') \in Nat
        BY DEF PagesInv, TypeOK
      <4> QED BY <4>1
    <3>3. Len(updates') \in Nat /\ u <= Len(updates')
      BY <3>2
    <3> QED BY <1>1, <3>1, <3>2, <3>3 DEF Shows
  <2> DEFINE f == frame[g][Thread]
  <2>3. f' = f
    BY <1>1
  <2>4. f.step = "fetch" => Shows(f.store, Len(updates))'
    BY <1>1, <2>1, <2>2
  <2>5. f.step = "save" => f.data \in Versions /\ Shows(f.store, f.data)'
    BY <1>1, <1>4, <2>1
  <2> QED BY <2>4, <2>5
<1>6. Aligned'
  BY <1>1, <1>4 DEF PagesInv, Aligned, Between
<1> QED BY <1>2, <1>3, <1>5, <1>6

\* Neither the updates nor the stores change, nor who fetches data for one.
LEMMA SameFetching ==
    ASSUME Fetching, Aligned, UNCHANGED <<updates, store, ahead>>,
           \A h \in Getters : frame'[h][Thread].step \in {"fetch", "save"} \/
                              frame[h][Thread].step \in {"fetch", "save"} =>
                                frame'[h][Thread] = frame[h][Thread]
    PROVE  Fetching' /\ Aligned'
<1>1. Fetching'
  BY DEF Fetching, Shows
<1>2. ASSUME NEW s, Between(s) PROVE Between(s)'
  BY <1>2 DEF Between
<1>3. Aligned'
  BY <1>2 DEF Aligned, Shows
<1> QED BY <1>1, <1>3

\* A change of a store's contents, and the job that counts its size.
LEMMA SettingAStore ==
    ASSUME TypeOK, NEW s \in Stores, NEW contents \in Store, NEW html \in BOOLEAN,
           SetStore(s, contents, html)
    PROVE  /\ JobsTyped' /\ store' \in [Stores -> Store]
           /\ store'[s].key = contents.key /\ store'[s].counter = contents.counter
           /\ store'[s].data = contents.data
           /\ \A r \in Stores \ {s} : store'[r] = store[r]
<1> DEFINE size == ComputeSize(html)
           new == [contents EXCEPT !.html = html, !.size = size]
           job == [key |-> contents.key, delta |-> size - store[s].size]
<1>1. size \in Nat
  BY DEF ComputeSize
<1>2. store' = [store EXCEPT ![s] = new] /\ jobs' = jobs (+) SetToBag({job})
  BY DEF SetStore
<1> HIDE DEF size
<1>3. /\ new \in Store /\ new.key = contents.key /\ new.counter = contents.counter
      /\ new.data = contents.data
  BY <1>1 DEF Store
<1>4. job.key \in Keys /\ job.delta \in Int
  BY <1>1 DEF Store, TypeOK
<1> HIDE DEF new, job
<1>5. store \in [Stores -> Store] /\ IsABag(jobs)
      /\ \A j \in BagToSet(jobs) : j.key \in Keys /\ j.delta \in Int
  BY DEF TypeOK
<1>6. JobsTyped'
  <2>1. IsABag(jobs') /\ BagToSet(jobs') = BagToSet(jobs) \cup {job}
    BY <1>2, <1>5, BagPlus
  <2> QED BY <2>1, <1>4, <1>5 DEF JobsTyped
<1> QED BY <1>2, <1>3, <1>5, <1>6

\* A request that returns, to its caller or to the page built from it.
LEMMA ReturnAt ==
    ASSUME TypeOK, NEW g \in Getters, NEW k \in Keys,
           NEW data \in Versions \cup {None}, Return(g, k, data)
    PROVE  /\ frame' \in [Getters -> [Keys -> Frame]]
           /\ frame'[g][k] = Idle
           /\ \A h \in Getters, l \in Keys :
                /\ ~(h = g /\ l = k) =>
                     /\ frame'[h][l].store = frame[h][l].store
                     /\ frame'[h][l] # frame[h][l] =>
                          /\ h = g /\ l = Board /\ k = Thread
                          /\ frame[h][l].step = "child"
                          /\ frame'[h][l].step = "save"
<1>1. frame \in [Getters -> [Keys -> Frame]]
  BY DEF TypeOK
<1> DEFINE fr == [frame EXCEPT ![g][k] = Idle]
<1>2. /\ fr \in [Getters -> [Keys -> Frame]]
      /\ \A h \in Getters, l \in Keys :
           fr[h][l] = IF h = g /\ l = k THEN Idle ELSE frame[h][l]
  BY <1>1, IdleIsFrame, FrameAt
<1>3. CASE ~IsChild(g, k)
  BY <1>2, <1>3 DEF Return
<1>4. CASE IsChild(g, k)
  <2>1. k = Thread /\ frame[g][Board].step = "child"
    BY <1>4 DEF IsChild
  <2> DEFINE b == [fr[g][Board] EXCEPT !.step = "save", !.data = data]
  <2>2. frame' = [fr EXCEPT ![g][Board] = b]
    <3>1. frame' = [frame EXCEPT ![g][k] = Idle,
                                 ![g][Board] = [@ EXCEPT !.step = "save",
                                                         !.data = data]]
      BY <1>4 DEF Return
    <3> QED BY <3>1, <2>1, <1>1, TwoKeys
  <2>3. fr[g][Board] = frame[g][Board] /\ frame[g][Board] \in Frame
    BY <1>1, <1>2, <2>1, TwoKeys
  <2>4. b \in Frame /\ b.step = "save" /\ b.store = frame[g][Board].store
    BY <2>3 DEF Frame, Steps
  <2> HIDE DEF fr, b
  <2>5. /\ frame' \in [Getters -> [Keys -> Frame]]
        /\ \A h \in Getters, l \in Keys :
             frame'[h][l] = IF h = g /\ l = Board THEN b ELSE fr[h][l]
    BY <1>2, <2>2, <2>4, TwoKeys, FrameAt
  <2> QED BY <1>2, <2>1, <2>4, <2>5, TwoKeys
<1> QED BY <1>3, <1>4

\* What a request does to the contents of its store leaves the others' alone,
\* and its counter: the invariants of the frames hold again when it returns.
LEMMA Returning ==
    ASSUME PagesInv, NEW g \in Getters, NEW k \in Keys, NEW data \in Versions \cup {None},
           frame[g][k].step \in {"lock", "counter", "save"},
           owner[frame[g][k].store] \in {g, None},
           owner' = [owner EXCEPT ![frame[g][k].store] = None],
           Return(g, k, data),
           store' \in [Stores -> Store], updates' = updates,
           \A r \in Stores : /\ store'[r].key = store[r].key
                             /\ store'[r].counter = store[r].counter
    PROVE  /\ frame' \in [Getters -> [Keys -> Frame]]
           /\ owner' \in [Stores -> Getters \cup {None}]
           /\ Holding' /\ Keyed' /\ Nested' /\ Fetching'
<1> DEFINE s == frame[g][k].store
<1>1. /\ frame' \in [Getters -> [Keys -> Frame]]
      /\ frame'[g][k] = Idle
      /\ \A h \in Getters, l \in Keys :
           /\ ~(h = g /\ l = k) =>
                /\ frame'[h][l].store = frame[h][l].store
                /\ frame'[h][l] # frame[h][l] =>
                     /\ h = g /\ l = Board /\ k = Thread
                     /\ frame[h][l].step = "child"
                     /\ frame'[h][l].step = "save"
  BY ReturnAt DEF PagesInv
<1>2. s \in Stores /\ store[s].key = k
  BY DEF PagesInv, Keyed
<1>3. owner \in [Stores -> Getters \cup {None}]
  BY DEF PagesInv, TypeOK
<1>4. owner' \in [Stores -> Getters \cup {None}]
  BY <1>2, <1>3
<1>5. \A h \in Getters, l \in Keys :
        ~(h = g /\ l = k) /\ frame'[h][l].step # "idle" => frame[h][l].step # "idle"
  BY <1>1
<1>6. Keyed'
  <2> SUFFICES ASSUME NEW h \in Getters, NEW l \in Keys,
                      frame'[h][l].step \notin {"idle", "store"}
               PROVE  frame'[h][l].store \in Stores /\ store'[frame'[h][l].store].key = l
    BY DEF Keyed
  <2>1. ~(h = g /\ l = k) /\ frame'[h][l].store = frame[h][l].store
    BY <1>1, IdleIsFrame
  <2>2. frame[h][l].step \notin {"idle", "store"}
    BY <1>1, <2>1
  <2> QED BY <2>1, <2>2 DEF PagesInv, Keyed
<1>7. Holding'
  <2> SUFFICES ASSUME NEW h \in Getters, NEW l \in Keys, frame'[h][l].step \in Locked
               PROVE  owner'[frame'[h][l].store] = h
    BY DEF Holding
  <2>1. ~(h = g /\ l = k) /\ frame'[h][l].store = frame[h][l].store
    BY <1>1, IdleIsFrame DEF Locked
  <2>2. frame[h][l].step \in Locked
    BY <1>1, <2>1 DEF Locked
  <2>3. /\ owner[frame[h][l].store] = h
        /\ frame[h][l].store \in Stores /\ store[frame[h][l].store].key = l
    BY <2>2 DEF PagesInv, Holding, Keyed, Locked
  <2>4. frame[h][l].store # s
    BY <2>1, <2>3, <1>2, PageCacheAssumption
  <2> QED BY <2>1, <2>3, <2>4, <1>2, <1>3
<1>8. Nested'
  <2> SUFFICES ASSUME NEW h \in Getters
               PROVE  \/ frame'[h][Board].step \in {"idle", "child"}
                      \/ frame'[h][Thread].step = "idle"
    BY DEF Nested
  <2>1. \/ frame[h][Board].step \in {"idle", "child"}
        \/ frame[h][Thread].step = "idle"
    BY DEF PagesInv, Nested
  <2> QED BY <1>1, <2>1, TwoKeys, IdleIsFrame
<1>9. Fetching'
  <2> SUFFICES ASSUME NEW h \in Getters
               PROVE  /\ frame'[h][Thread].step = "fetch" =>
                           Shows(frame[h][Thread].store, Len(updates))'
                      /\ frame'[h][Thread].step = "save" =>
                           /\ frame'[h][Thread].data \in Versions
                           /\ Shows(frame[h][Thread].store, frame[h][Thread].data)'
    BY DEF Fetching
  <2>1. CASE frame'[h][Thread].step \in {"fetch", "save"}
    <3>1. frame'[h][Thread] = frame[h][Thread]
      BY <1>1, <2>1, IdleIsFrame, TwoKeys
    <3>2. LET f == frame[h][Thread] IN
          /\ f.store \in Stores
          /\ f.step = "fetch" => Shows(f.store, Len(updates))
          /\ f.step = "save" => f.data \in Versions /\ Shows(f.store, f.data)
      BY <2>1, <3>1, TwoKeys DEF PagesInv, Fetching, Keyed
    <3>3. store'[frame[h][Thread].store].counter = store[frame[h][Thread].store].counter
      BY <3>2
    <3> QED BY <3>1, <3>2, <3>3 DEF Shows
  <2> QED BY <2>1
<1> QED BY <1>1, <1>4, <1>6, <1>7, <1>8, <1>9

\* A cached page is served as it is, or with HTML added to it.
LEMMA ServingCached ==
    ASSUME PagesInv, NEW g \in Getters, NEW k \in Keys, NEW contents \in Store,
           frame[g][k].step \in {"lock", "counter"},
           owner[frame[g][k].store] \in {g, None},
           contents.key = store[frame[g][k].store].key,
           contents.counter = store[frame[g][k].store].counter,
           contents.data = store[frame[g][k].store].data, contents.data # None,
           ServeCached(g, k, contents),
           UNCHANGED <<dbVars, requests, lruVars, ahead>>
    PROVE  PagesInv'
<1> DEFINE s == frame[g][k].store
<1>1. s \in Stores /\ store[s].key = k /\ frame[g][k].html \in BOOLEAN
  BY DEF PagesInv, Keyed, TypeOK, Frame
<1>2. contents.data \in Versions /\ TypeOK /\ Gone /\ MapIsList
  BY DEF Store, PagesInv
<1>3. /\ JobsTyped' /\ store' \in [Stores -> Store]
      /\ \A r \in Stores : /\ store'[r].key = store[r].key
                           /\ store'[r].counter = store[r].counter
                           /\ store'[r].data = store[r].data
  <2>1. CASE frame[g][k].html /\ ~contents.html
    <3>1. SetStore(s, contents, TRUE)
      BY <2>1 DEF ServeCached
    <3> QED BY <3>1, <1>1, <1>2, SettingAStore
  <2>2. CASE ~(frame[g][k].html /\ ~contents.html)
    <3>1. store' = [store EXCEPT ![s] = contents] /\ jobs' = jobs
      BY <2>2 DEF ServeCached
    <3> QED BY <3>1, <1>1, <1>2 DEF TypeOK, JobsTyped
  <2> QED BY <2>1, <2>2
<1>4. /\ owner' = [owner EXCEPT ![s] = None] /\ Return(g, k, contents.data)
      /\ updates' = updates /\ requests' = requests /\ ahead' = ahead
      /\ UNCHANGED dbVars /\ UNCHANGED lruVars
  BY DEF ServeCached, dbVars
<1>5. /\ frame' \in [Getters -> [Keys -> Frame]]
      /\ owner' \in [Stores -> Getters \cup {None}]
      /\ Holding' /\ Keyed' /\ Nested' /\ Fetching'
  BY <1>2, <1>3, <1>4, Returning
<1>6. Aligned'
  <2> SUFFICES ASSUME NEW r \in Stores \ ahead,
                      store[r].key = Thread, store[r].data # None
               PROVE  Shows(r, store[r].data)' \/ Between(r)'
    BY <1>3, <1>4 DEF Aligned
  <2>1. CASE Shows(r, store[r].data)
    BY <2>1, <1>3, <1>4 DEF Shows
  <2>2. CASE Between(r)
    <3>1. PICK h \in Getters : /\ frame[h][Thread].store = r
                               /\ frame[h][Thread].step \in {"fetch", "save"}
      BY <2>2 DEF Between
    <3>2. frame'[h][Thread] = frame[h][Thread]
      BY <3>1, <1>2, <1>4, ReturnAt, TwoKeys
    <3> QED BY <3>1, <3>2 DEF Between
  <2> QED BY <2>1, <2>2 DEF PagesInv, Aligned
<1>7. RequestTyped'
  BY <1>2, <1>3, <1>4, <1>5 DEF RequestTyped, TypeOK
<1>8. ListTyped' /\ MapIsList' /\ DbTyped' /\ Gone'
  BY <1>2, <1>3, <1>4, SameList, SameDatabase
<1>9. TypeOK'
  BY <1>3, <1>7, <1>8 DEF TypeOK, DbTyped, ListTyped, JobsTyped, RequestTyped
<1> QED BY <1>5, <1>6, <1>8, <1>9 DEF PagesInv

\* What was fetched is saved, and returned.
LEMMA SaveKeeps ==
    ASSUME PagesInv, NEW g \in Getters, NEW k \in Keys, Save(g, k) PROVE PagesInv'
<1> DEFINE f == frame[g][k]
           s == f.store
           contents == [store[s] EXCEPT !.data = f.data, !.checked = now]
<1>1. f.step = "save" /\ f \in Frame
  BY DEF Save, PagesInv, TypeOK
<1>2. s \in Stores /\ store[s].key = k /\ owner[s] = g
  BY <1>1 DEF PagesInv, Keyed, Holding, Locked
<1>3. TypeOK /\ Gone /\ MapIsList
  BY DEF PagesInv
<1>4. /\ SetStore(s, contents, f.html) /\ ahead' = ahead \ {s}
      /\ owner' = [owner EXCEPT ![s] = None] /\ Return(g, k, f.data)
      /\ requests' = requests /\ UNCHANGED dbVars /\ UNCHANGED lruVars
      /\ updates' = updates
  BY DEF Save, dbVars
<1>5. /\ contents \in Store /\ contents.key = k
      /\ contents.counter = store[s].counter /\ contents.data = f.data
  <2>1. store[s] \in Store /\ now \in Nat
    BY <1>2, <1>3 DEF TypeOK
  <2>2. f.data \in Versions \cup {None}
    BY <1>1 DEF Frame
  <2> HIDE DEF f
  <2> QED BY <2>1, <2>2, <1>2 DEF Store
<1>6. f.html \in BOOLEAN /\ f.data \in Versions \cup {None}
  BY <1>1 DEF Frame
<1> HIDE DEF contents
<1>7. /\ JobsTyped' /\ store' \in [Stores -> Store]
      /\ \A r \in Stores : /\ store'[r].key = store[r].key
                           /\ store'[r].counter = store[r].counter
      /\ store'[s].data = f.data
      /\ \A r \in Stores \ {s} : store'[r] = store[r]
  BY <1>2, <1>3, <1>4, <1>5, <1>6, SettingAStore
<1> HIDE DEF f
<1>8. /\ frame' \in [Getters -> [Keys -> Frame]]
      /\ owner' \in [Stores -> Getters \cup {None}]
      /\ Holding' /\ Keyed' /\ Nested' /\ Fetching'
  BY <1>1, <1>2, <1>4, <1>6, <1>7, Returning DEF f
<1>9. Aligned'
  <2> SUFFICES ASSUME NEW r \in Stores, r \notin ahead',
                      store'[r].key = Thread, store'[r].data # None
               PROVE  Shows(r, store[r].data)' \/ Between(r)'
    BY DEF Aligned
  <2>1. CASE r = s
    <3>1. k = Thread /\ Shows(s, f.data)
      BY <2>1, <1>1, <1>2, <1>7 DEF PagesInv, Fetching, f
    <3>2. \E u \in 1..Len(updates) : u <= f.data /\ updates[u] = store[s].counter
      BY <3>1 DEF Shows
    <3>3. store'[r].counter = store[s].counter /\ store'[r].data = f.data
      BY <2>1, <1>2, <1>7
    <3> QED BY <3>2, <3>3, <1>4 DEF Shows
  <2>2. CASE r # s
    <3>1. r \notin ahead /\ store'[r] = store[r]
      BY <2>2, <1>4, <1>7
    <3>2. CASE Shows(r, store[r].data)
      BY <3>1, <3>2, <1>4 DEF Shows
    <3>3. CASE Between(r)
      <4>1. PICK h \in Getters : /\ frame[h][Thread].store = r
                                 /\ frame[h][Thread].step \in {"fetch", "save"}
        BY <3>3 DEF Between
      <4>2. frame'[h][Thread] = frame[h][Thread]
        BY <4>1, <2>2, <1>3, <1>4, <1>6, ReturnAt, TwoKeys DEF f
      <4> QED BY <4>1, <4>2 DEF Between
    <3> QED BY <3>1, <3>2, <3>3 DEF PagesInv, Aligned
  <2> QED BY <2>1, <2>2
<1>10. RequestTyped'
  BY <1>3, <1>4, <1>7, <1>8 DEF RequestTyped, TypeOK
<1>11. ListTyped' /\ MapIsList' /\ DbTyped' /\ Gone'
  BY <1>3, <1>4, <1>7, SameList, SameDatabase
<1>12. TypeOK'
  BY <1>7, <1>10, <1>11 DEF TypeOK, DbTyped, ListTyped, JobsTyped, RequestTyped
<1> QED BY <1>8, <1>9, <1>11, <1>12 DEF PagesInv

\* A request of a page begins.
LEMMA RequestKeeps ==
    ASSUME PagesInv, NEW g \in Getters, NEW k \in Keys, NEW html \in BOOLEAN,
           Request(g, k, html)
    PROVE  PagesInv'
<1> DEFINE f == [Idle EXCEPT !.step = "store", !.html = html]
<1>1. /\ \A l \in Keys : frame[g][l] = Idle
      /\ requests < MaxRequests /\ requests' = requests + 1
      /\ frame' = [frame EXCEPT ![g][k] = f]
      /\ UNCHANGED <<dbVars, lruVars, jobs>>
      /\ store' = store /\ owner' = owner /\ ahead' = ahead /\ updates' = updates
  BY DEF Request, dbVars
<1>2. TypeOK /\ Gone /\ MapIsList
  BY DEF PagesInv
<1>3. f \in Frame /\ f.step = "store"
  BY DEF Idle, Frame, Steps
<1> HIDE DEF f
<1>4. /\ frame' \in [Getters -> [Keys -> Frame]]
      /\ \A h \in Getters, l \in Keys :
           frame'[h][l] = IF h = g /\ l = k THEN f ELSE frame[h][l]
  BY <1>1, <1>2, <1>3, FrameAt DEF TypeOK
<1>5. Holding' /\ Keyed'
  BY <1>1, <1>3, <1>4 DEF PagesInv, Holding, Keyed, Locked
<1>6. Nested'
  BY <1>1, <1>3, <1>4, TwoKeys, IdleIsFrame DEF PagesInv, Nested
<1>7. \A h \in Getters : frame'[h][Thread].step \in {"fetch", "save"} \/
                         frame[h][Thread].step \in {"fetch", "save"} =>
                           frame'[h][Thread] = frame[h][Thread]
  BY <1>1, <1>3, <1>4, IdleIsFrame, TwoKeys
<1>8. Fetching' /\ Aligned'
  BY <1>1, <1>7, <1>2, SameFetching DEF PagesInv
<1>9. RequestTyped'
  BY <1>1, <1>2, <1>4, PageCacheAssumption DEF RequestTyped, TypeOK
<1>10. ListTyped' /\ MapIsList' /\ DbTyped' /\ Gone'
  BY <1>1, <1>2, SameList, SameDatabase
<1>11. TypeOK'
  BY <1>1, <1>2, <1>9, <1>10
  DEF TypeOK, DbTyped, ListTyped, JobsTyped, RequestTyped
<1> QED BY <1>5, <1>6, <1>8, <1>10, <1>11 DEF PagesInv

\* A request gets the store of its key, an old one or a new one.
LEMMA GetStoreKeeps ==
    ASSUME PagesInv, NEW g \in Getters, NEW k \in Keys, GetStore(g, k) PROVE PagesInv'
<1> DEFINE s == IF cache[k] = None THEN NewStore ELSE cache[k]
           f == [frame[g][k] EXCEPT !.step = "lock", !.store = s]
<1>1. /\ frame[g][k].step = "store" /\ frame' = [frame EXCEPT ![g][k] = f]
      /\ UNCHANGED dbVars /\ updates' = updates
      /\ requests' = requests /\ totalUsed' = totalUsed /\ endless' = endless
      /\ owner' = owner /\ jobs' = jobs
  BY DEF GetStore, dbVars
<1>2. TypeOK /\ Gone /\ MapIsList
  BY DEF PagesInv
<1>3. cache \in [Keys -> Stores \cup {None}] /\ ll \in Seq(Stores) /\ IsInjective(ll)
  BY <1>2 DEF TypeOK, MapIsList
<1>4. /\ ListTyped' /\ MapIsList'
      /\ s \in Stores /\ ahead' \subseteq Stores
      /\ store' \in [Stores -> Store] /\ store'[s].key = k
      /\ \A h \in Getters, l \in Keys :
           frame[h][l].store \in Stores =>
             store'[frame[h][l].store] = store[frame[h][l].store]
      /\ \A r \in Stores \ ahead' :
           store'[r].data # None => r \notin ahead /\ store'[r] = store[r]
  <2>1. CASE cache[k] = None
    <3>1. /\ cache' = [cache EXCEPT ![k] = s] /\ ll' = <<s>> \o ll
          /\ store' = [store EXCEPT ![s] = EmptyStore(k)] /\ ahead' = ahead \ {s}
          /\ s \in Garbage
      BY <2>1 DEF GetStore, NewStore
    <3>2. /\ s \in Stores /\ s \notin ToSet(ll)
          /\ \A h \in Getters, l \in Keys : frame[h][l].store # s
      BY <3>1 DEF Garbage
    <3> HIDE DEF s
    <3>3. EmptyStore(k) \in Store /\ EmptyStore(k).key = k /\ EmptyStore(k).data = None
      BY DEF EmptyStore, Store
    <3>4. /\ store' \in [Stores -> Store] /\ store'[s].key = k /\ store'[s].data = None
          /\ \A r \in Stores \ {s} : store'[r] = store[r]
      BY <1>2, <3>1, <3>2, <3>3 DEF TypeOK
    <3>5. /\ ll' \in Seq(Stores) /\ IsInjective(ll') /\ ToSet(ll') = ToSet(ll) \cup {s}
      BY <1>3, <3>1, <3>2, PushFront
    <3>6. ListTyped' /\ MapIsList'
      <4>1. \A l \in Keys : cache'[l] = IF l = k THEN s ELSE cache[l]
        BY <1>3, <3>1
      <4>2. s # None
        BY <3>2, PageCacheAssumption
      <4>3. {cache'[l] : l \in Keys} \ {None} = ToSet(ll')
        BY <1>2, <2>1, <3>5, <4>1, <4>2 DEF MapIsList
      <4>4. \A l \in Keys : cache'[l] # None => store'[cache'[l]].key = l
        <5> SUFFICES ASSUME NEW l \in Keys, cache'[l] # None
                     PROVE  store'[cache'[l]].key = l
          OBVIOUS
        <5>1. CASE l = k
          BY <5>1, <3>4, <4>1
        <5>2. CASE l # k
          <6>1. cache'[l] = cache[l] /\ cache[l] \in Stores
            BY <5>2, <4>1, <1>3
          <6>2. cache[l] \in ToSet(ll) /\ store[cache[l]].key = l
            BY <6>1, <1>2 DEF MapIsList
          <6> QED BY <6>1, <6>2, <3>2, <3>4
        <5> QED BY <5>1, <5>2
      <4>5. cache' \in [Keys -> Stores \cup {None}]
        BY <1>3, <3>1, <3>2
      <4> QED BY <1>1, <1>2, <3>5, <4>3, <4>4, <4>5 DEF MapIsList, ListTyped, TypeOK
    <3> QED BY <1>2, <3>1, <3>2, <3>4, <3>6 DEF TypeOK
  <2>2. CASE cache[k] # None
    <3>1. ll' = <<s>> \o Without(s) /\ cache' = cache /\ store' = store /\ ahead' = ahead
      BY <2>2 DEF GetStore
    <3>2. s = cache[k] /\ s \in Stores /\ s \in ToSet(ll) /\ store[s].key = k
      BY <1>2, <1>3, <2>2 DEF MapIsList
    <3> HIDE DEF s
    <3>3. /\ Without(s) \in Seq(Stores) /\ IsInjective(Without(s))
          /\ ToSet(Without(s)) = ToSet(ll) \ {s}
      BY <1>3, <3>2, WithoutOne
    <3>4. /\ ll' \in Seq(Stores) /\ IsInjective(ll') /\ ToSet(ll') = ToSet(ll)
      <4>1. s \notin ToSet(Without(s))
        BY <3>3
      <4>2. /\ <<s>> \o Without(s) \in Seq(Stores) /\ IsInjective(<<s>> \o Without(s))
            /\ ToSet(<<s>> \o Without(s)) = ToSet(Without(s)) \cup {s}
        BY <3>2, <3>3, <4>1, PushFront
      <4> QED BY <3>1, <3>2, <3>3, <4>2
    <3>5. ListTyped' /\ MapIsList'
      <4>1. ListTyped'
        BY <1>1, <1>2, <3>1, <3>4 DEF ListTyped, TypeOK
      <4>2. {cache'[l] : l \in Keys} \ {None} = ToSet(ll')
        BY <1>2, <3>1, <3>4 DEF MapIsList
      <4>3. \A l \in Keys : cache'[l] # None => store'[cache'[l]].key = l
        BY <1>2, <3>1 DEF MapIsList
      <4> QED BY <3>4, <4>1, <4>2, <4>3 DEF MapIsList
    <3> QED BY <1>2, <3>1, <3>2, <3>5 DEF TypeOK
  <2> QED BY <2>1, <2>2
<1>5. f \in Frame /\ f.step = "lock" /\ f.store = s
  <2>1. frame[g][k] \in Frame
    BY <1>2 DEF TypeOK
  <2> HIDE DEF s
  <2> QED BY <2>1, <1>4 DEF Frame, Steps
<1> HIDE DEF s, f
<1>6. /\ frame' \in [Getters -> [Keys -> Frame]]
      /\ \A h \in Getters, l \in Keys :
           frame'[h][l] = IF h = g /\ l = k THEN f ELSE frame[h][l]
  BY <1>1, <1>2, <1>5, FrameAt DEF TypeOK
<1>7. Holding'
  BY <1>1, <1>5, <1>6 DEF PagesInv, Holding, Locked
<1>8. Keyed'
  BY <1>4, <1>5, <1>6 DEF PagesInv, Keyed
<1>9. Nested'
  BY <1>1, <1>5, <1>6, TwoKeys DEF PagesInv, Nested
<1>10. \A h \in Getters : frame'[h][Thread].step \in {"fetch", "save"} \/
                          frame[h][Thread].step \in {"fetch", "save"} =>
                            frame'[h][Thread] = frame[h][Thread]
  BY <1>1, <1>5, <1>6, TwoKeys
<1>11. Fetching'
  <2> SUFFICES ASSUME NEW h \in Getters, frame[h][Thread].step \in {"fetch", "save"},
                      frame'[h][Thread] = frame[h][Thread]
               PROVE  /\ frame[h][Thread].step = "fetch" =>
                           Shows(frame[h][Thread].store, Len(updates))'
                      /\ frame[h][Thread].step = "save" =>
                           /\ frame[h][Thread].data \in Versions
                           /\ Shows(frame[h][Thread].store, frame[h][Thread].data)'
    BY <1>10 DEF Fetching
  <2>1. frame[h][Thread].store \in Stores
    BY TwoKeys DEF PagesInv, Keyed
  <2>2. store'[frame[h][Thread].store] = store[frame[h][Thread].store]
    BY <2>1, <1>4, TwoKeys
  <2> QED BY <2>2, <1>1 DEF PagesInv, Fetching, Shows
<1>12. Aligned'
  <2> SUFFICES ASSUME NEW r \in Stores \ ahead, store'[r] = store[r],
                      store[r].key = Thread, store[r].data # None
               PROVE  Shows(r, store[r].data)' \/ Between(r)'
    BY <1>4 DEF Aligned
  <2>1. CASE Shows(r, store[r].data)
    BY <2>1, <1>1 DEF Shows
  <2>2. CASE Between(r)
    BY <2>2, <1>10 DEF Between
  <2> QED BY <2>1, <2>2 DEF PagesInv, Aligned
<1>13. RequestTyped' /\ JobsTyped'
  BY <1>1, <1>2, <1>4, <1>6 DEF RequestTyped, JobsTyped, TypeOK
<1>14. DbTyped' /\ Gone'
  BY <1>1, <1>2, SameDatabase
<1>15. TypeOK'
  BY <1>4, <1>13, <1>14 DEF TypeOK, DbTyped, ListTyped, JobsTyped, RequestTyped
<1> QED BY <1>4, <1>7, <1>8, <1>9, <1>11, <1>12, <1>14, <1>15 DEF PagesInv

\* A request locks its store, and serves what is fresh in it.
LEMMA LockKeeps ==
    ASSUME PagesInv, NEW g \in Getters, NEW k \in Keys, Lock(g, k) PROVE PagesInv'
<1> DEFINE s == frame[g][k].store
<1>1. /\ frame[g][k].step = "lock" /\ owner[s] = None
      /\ UNCHANGED <<dbVars, requests, lruVars, ahead>>
  BY DEF Lock
<1>2. TypeOK /\ Gone /\ MapIsList
  BY DEF PagesInv
<1>3. s \in Stores /\ store[s] \in Store /\ store[s].key = k
  BY <1>1, <1>2 DEF PagesInv, Keyed, TypeOK
<1>4. CASE store[s].data # None /\ ServeCached(g, k, store[s])
  BY <1>1, <1>3, <1>4, ServingCached
<1>5. CASE /\ owner' = [owner EXCEPT ![s] = g]
           /\ frame' = [frame EXCEPT ![g][k].step = "counter"]
           /\ UNCHANGED <<store, jobs>>
  <2> DEFINE f == [frame[g][k] EXCEPT !.step = "counter"]
  <2>1. f \in Frame /\ f.step = "counter" /\ f.store = s
    <3>1. frame[g][k] \in Frame
      BY <1>2 DEF TypeOK
    <3> QED BY <3>1 DEF Frame, Steps
  <2>2. frame' = [frame EXCEPT ![g][k] = f]
    BY <1>5
  <2> HIDE DEF f
  <2>3. /\ frame' \in [Getters -> [Keys -> Frame]]
        /\ \A h \in Getters, l \in Keys :
             frame'[h][l] = IF h = g /\ l = k THEN f ELSE frame[h][l]
    BY <1>2, <2>1, <2>2, FrameAt DEF TypeOK
  <2>4. owner \in [Stores -> Getters \cup {None}]
    BY <1>2 DEF TypeOK
  <2>5. /\ owner' \in [Stores -> Getters \cup {None}] /\ owner'[s] = g
        /\ \A r \in Stores \ {s} : owner'[r] = owner[r]
    BY <1>3, <1>5, <2>4
  <2>6. Holding'
    <3> SUFFICES ASSUME NEW h \in Getters, NEW l \in Keys, frame'[h][l].step \in Locked
                 PROVE  owner'[frame'[h][l].store] = h
      BY DEF Holding
    <3>1. CASE h = g /\ l = k
      BY <3>1, <2>1, <2>3, <2>5
    <3>2. CASE ~(h = g /\ l = k)
      <4>1. frame'[h][l] = frame[h][l]
        BY <3>2, <2>3
      <4>2. owner[frame[h][l].store] = h /\ frame[h][l].store \in Stores
        BY <4>1 DEF PagesInv, Holding, Keyed, Locked
      <4>3. frame[h][l].store # s
        BY <4>2, <1>1, PageCacheAssumption
      <4> QED BY <4>1, <4>2, <4>3, <2>5
    <3> QED BY <3>1, <3>2
  <2>7. Keyed'
    BY <1>3, <1>5, <2>1, <2>3 DEF PagesInv, Keyed
  <2>8. Nested'
    BY <1>1, <2>1, <2>3, TwoKeys DEF PagesInv, Nested
  <2>9. \A h \in Getters : frame'[h][Thread].step \in {"fetch", "save"} \/
                           frame[h][Thread].step \in {"fetch", "save"} =>
                             frame'[h][Thread] = frame[h][Thread]
    BY <1>1, <2>1, <2>3, TwoKeys
  <2>10. Fetching' /\ Aligned'
    <3>1. UNCHANGED <<updates, store, ahead>>
      BY <1>1, <1>5 DEF dbVars
    <3> QED BY <2>9, <3>1, SameFetching DEF PagesInv
  <2>11. RequestTyped' /\ JobsTyped'
    BY <1>1, <1>2, <1>5, <2>3, <2>5 DEF RequestTyped, JobsTyped, TypeOK
  <2>12. ListTyped' /\ MapIsList' /\ DbTyped' /\ Gone'
    BY <1>1, <1>2, <1>5, SameList, SameDatabase
  <2>13. TypeOK'
    BY <2>11, <2>12 DEF TypeOK, DbTyped, ListTyped, JobsTyped, RequestTyped
  <2> QED BY <2>6, <2>7, <2>8, <2>10, <2>12, <2>13 DEF PagesInv
<1> QED BY <1>4, <1>5 DEF Lock

\* A request reads the counter, and serves what has not changed.
LEMMA GetCounterKeeps ==
    ASSUME PagesInv, NEW g \in Getters, NEW k \in Keys, GetCounter(g, k) PROVE PagesInv'
<1> DEFINE s == frame[g][k].store
           counter == Counter(k)
<1>1. /\ frame[g][k].step = "counter"
      /\ UNCHANGED <<dbVars, requests, lruVars, ahead>>
  BY DEF GetCounter
<1>2. TypeOK /\ Gone /\ MapIsList
  BY DEF PagesInv
<1>3. s \in Stores /\ store[s] \in Store /\ store[s].key = k /\ owner[s] = g
  BY <1>1, <1>2 DEF PagesInv, Keyed, TypeOK, Holding, Locked
<1>4. CASE store[s].data # None /\ counter = store[s].counter
  <2> DEFINE contents == [store[s] EXCEPT !.checked = now]
  <2>1. ServeCached(g, k, contents)
    BY <1>4 DEF GetCounter
  <2>2. now \in Nat
    BY <1>2 DEF TypeOK
  <2>3. /\ contents \in Store /\ contents.key = store[s].key
        /\ contents.counter = store[s].counter /\ contents.data = store[s].data
    BY <1>3, <2>2 DEF Store
  <2> HIDE DEF contents
  <2> QED BY <1>1, <1>3, <1>4, <2>1, <2>3, ServingCached
<1>5. CASE ~(store[s].data # None /\ counter = store[s].counter)
  <2> DEFINE f == [frame[g][k] EXCEPT !.step = "fetch"]
             new == [store[s] EXCEPT !.counter = counter]
  <2>1. /\ store' = [store EXCEPT ![s] = new] /\ frame' = [frame EXCEPT ![g][k] = f]
        /\ owner' = owner /\ jobs' = jobs
    BY <1>5 DEF GetCounter
  <2>2. f \in Frame /\ f.step = "fetch" /\ f.store = s
    <3>1. frame[g][k] \in Frame
      BY <1>2 DEF TypeOK
    <3> QED BY <3>1 DEF Frame, Steps
  <2>3. counter \in Nat /\ (k = Thread => \E u \in 1..Len(updates) : updates[u] = counter)
    <3>1. /\ updates \in Seq(0..MaxTime) /\ Len(updates) \in 1..MaxUpdates + 1
          /\ others \in Nat
      BY <1>2 DEF TypeOK, Versions
    <3>2. Len(updates) \in 1..Len(updates) /\ updates[Len(updates)] \in Nat
      <4>1. Len(updates) \in Nat /\ Len(updates) >= 1 /\ MaxTime \in Nat
        BY <3>1, PageCacheAssumption
      <4>2. Len(updates) \in 1..Len(updates)
        BY <4>1
      <4> QED BY <3>1, <4>1, <4>2
    <3> QED BY <3>1, <3>2, TwoKeys DEF Counter, Last
  <2> HIDE DEF counter, f
  <2>4. new \in Store /\ new.key = k /\ new.counter = counter /\ new.data = store[s].data
    BY <1>3, <2>3 DEF Store
  <2> HIDE DEF new
  <2>5. /\ store' \in [Stores -> Store] /\ store'[s] = new
        /\ \A r \in Stores \ {s} : store'[r] = store[r]
    BY <1>2, <1>3, <2>1, <2>4 DEF TypeOK
  <2>6. /\ frame' \in [Getters -> [Keys -> Frame]]
        /\ \A h \in Getters, l \in Keys :
             frame'[h][l] = IF h = g /\ l = k THEN f ELSE frame[h][l]
    BY <1>2, <2>1, <2>2, FrameAt DEF TypeOK
  <2>7. \A r \in Stores : store'[r].key = store[r].key
    BY <1>3, <2>4, <2>5
  <2>8. Holding'
    BY <1>3, <2>1, <2>2, <2>6 DEF PagesInv, Holding
  <2>9. Keyed'
    BY <1>3, <2>2, <2>6, <2>7 DEF PagesInv, Keyed
  <2>10. Nested'
    BY <1>1, <2>2, <2>6, TwoKeys DEF PagesInv, Nested
  <2>11. updates' = updates /\ ahead' = ahead
    BY <1>1 DEF dbVars
  <2>12. ASSUME NEW h \in Getters, ~(h = g /\ k = Thread),
                frame[h][Thread].step \in {"fetch", "save"}
         PROVE  frame[h][Thread].store \in Stores \ {s}
    <3>1. frame[h][Thread].store \in Stores /\ owner[frame[h][Thread].store] = h
      BY <2>12, TwoKeys DEF PagesInv, Keyed, Holding, Locked
    <3>2. h = g => k = Board /\ frame[g][Thread].step = "idle"
      BY <2>12, <1>1 DEF PagesInv, Nested, Keys
    <3> QED BY <3>1, <3>2, <2>12, <1>3
  <2>13. Fetching'
    <3> SUFFICES ASSUME NEW h \in Getters
                 PROVE  /\ frame'[h][Thread].step = "fetch" =>
                             Shows(frame[h][Thread].store, Len(updates))'
                        /\ frame'[h][Thread].step = "save" =>
                             /\ frame'[h][Thread].data \in Versions
                             /\ Shows(frame[h][Thread].store, frame[h][Thread].data)'
      BY DEF Fetching
    <3>1. CASE h = g /\ k = Thread
      <4>1. frame'[h][Thread].step = "fetch" /\ frame'[h][Thread].store = s
        BY <3>1, <2>2, <2>6, TwoKeys
      <4>2. PICK u \in 1..Len(updates) : updates[u] = counter
        BY <3>1, <2>3
      <4>3. u <= Len(updates) /\ store'[s].counter = counter
        BY <4>2, <2>4, <2>5
      <4> QED BY <4>1, <4>2, <4>3, <2>11 DEF Shows
    <3>2. CASE ~(h = g /\ k = Thread)
      <4>1. frame'[h][Thread] = frame[h][Thread]
        BY <3>2, <2>6, TwoKeys
      <4>2. frame[h][Thread].step \in {"fetch", "save"} =>
              store'[frame[h][Thread].store] = store[frame[h][Thread].store]
        BY <3>2, <2>5, <2>12
      <4> QED BY <4>1, <4>2, <2>11 DEF PagesInv, Fetching, Shows
    <3> QED BY <3>1, <3>2
  <2>14. Aligned'
    <3> SUFFICES ASSUME NEW r \in Stores \ ahead,
                        store'[r].key = Thread, store'[r].data # None
                 PROVE  Shows(r, store[r].data)' \/ Between(r)'
      BY <2>11 DEF Aligned
    <3>1. CASE r = s
      <4>1. k = Thread
        BY <3>1, <1>3, <2>7
      <4> QED BY <3>1, <4>1, <2>2, <2>6 DEF Between
    <3>2. CASE r # s
      <4>1. store'[r] = store[r]
        BY <3>2, <2>5
      <4>2. CASE Shows(r, store[r].data)
        BY <4>1, <4>2, <2>11 DEF Shows
      <4>3. CASE Between(r)
        <5>1. PICK h \in Getters : /\ frame[h][Thread].store = r
                                   /\ frame[h][Thread].step \in {"fetch", "save"}
          BY <4>3 DEF Between
        <5>2. frame'[h][Thread] = frame[h][Thread]
          BY <5>1, <1>1, <2>6, TwoKeys
        <5> QED BY <5>1, <5>2 DEF Between
      <4> QED BY <4>1, <4>2, <4>3 DEF PagesInv, Aligned
    <3> QED BY <3>1, <3>2
  <2>15. RequestTyped' /\ JobsTyped'
    BY <1>1, <1>2, <2>1, <2>5, <2>6 DEF RequestTyped, JobsTyped, TypeOK
  <2>16. ListTyped' /\ MapIsList' /\ DbTyped' /\ Gone'
    BY <1>1, <1>2, <2>7, SameList, SameDatabase
  <2>17. TypeOK'
    BY <2>15, <2>16 DEF TypeOK, DbTyped, ListTyped, JobsTyped, RequestTyped
  <2> QED BY <2>8, <2>9, <2>10, <2>13, <2>14, <2>16, <2>17 DEF PagesInv
<1> QED BY <1>4, <1>5

\* A request reads the thread, or asks for its page to build the board's from.
LEMMA GetFreshKeeps ==
    ASSUME PagesInv, NEW g \in Getters, NEW k \in Keys, GetFresh(g, k) PROVE PagesInv'
<1>1. /\ frame[g][k].step = "fetch"
      /\ UNCHANGED <<dbVars, requests, lruVars, store, owner, jobs, ahead>>
      /\ updates' = updates /\ store' = store /\ owner' = owner /\ ahead' = ahead
  BY DEF GetFresh, dbVars
<1>2. TypeOK /\ Gone /\ MapIsList
  BY DEF PagesInv
<1>3. frame \in [Getters -> [Keys -> Frame]]
  BY <1>2 DEF TypeOK
<1>4. /\ frame' \in [Getters -> [Keys -> Frame]]
      /\ Holding' /\ Keyed' /\ Nested' /\ Fetching'
      /\ \A h \in Getters : frame[h][Thread].step \in {"fetch", "save"} =>
           /\ frame'[h][Thread].step \in {"fetch", "save"}
           /\ frame'[h][Thread].store = frame[h][Thread].store
  <2>1. CASE k = Thread
    <3> DEFINE f == [frame[g][k] EXCEPT !.step = "save", !.data = Len(updates)]
    <3>1. frame' = [frame EXCEPT ![g][k] = f]
      BY <1>1, <2>1 DEF GetFresh
    <3>2. /\ f \in Frame /\ f.step = "save" /\ f.store = frame[g][k].store
          /\ f.data = Len(updates) /\ Len(updates) \in Versions
      <4>1. frame[g][k] \in Frame /\ Len(updates) \in Versions
        BY <1>2 DEF TypeOK
      <4> QED BY <4>1 DEF Frame, Steps
    <3> HIDE DEF f
    <3>3. /\ frame' \in [Getters -> [Keys -> Frame]]
          /\ \A h \in Getters, l \in Keys :
               frame'[h][l] = IF h = g /\ l = k THEN f ELSE frame[h][l]
      BY <1>3, <3>1, <3>2, FrameAt
    <3>4. Holding' /\ Keyed'
      BY <1>1, <3>2, <3>3 DEF PagesInv, Holding, Keyed, Locked
    <3>5. Nested'
      BY <1>1, <2>1, <3>3, TwoKeys DEF PagesInv, Nested
    <3>6. Fetching'
      <4> SUFFICES ASSUME NEW h \in Getters
                   PROVE  /\ frame'[h][Thread].step = "fetch" =>
                               Shows(frame[h][Thread].store, Len(updates))'
                          /\ frame'[h][Thread].step = "save" =>
                               /\ frame'[h][Thread].data \in Versions
                               /\ Shows(frame[h][Thread].store, frame[h][Thread].data)'
        BY DEF Fetching
      <4>1. CASE h = g
        BY <4>1, <1>1, <2>1, <3>2, <3>3 DEF PagesInv, Fetching, Shows
      <4>2. CASE h # g
        BY <4>2, <1>1, <2>1, <3>3 DEF PagesInv, Fetching, Shows
      <4> QED BY <4>1, <4>2
    <3> QED BY <1>1, <2>1, <3>2, <3>3, <3>4, <3>5, <3>6
  <2>2. CASE k = Board
    <3> DEFINE b == [frame[g][Board] EXCEPT !.step = "child"]
               c == [frame[g][Thread] EXCEPT !.step = "store"]
               fr == [frame EXCEPT ![g][Board] = b]
    <3>1. frame' = [fr EXCEPT ![g][Thread] = c]
      BY <1>1, <1>3, <2>2, TwoKeys DEF GetFresh
    <3>2. /\ b \in Frame /\ b.step = "child" /\ b.store = frame[g][Board].store
          /\ c \in Frame /\ c.step = "store"
      <4>1. frame[g][Board] \in Frame /\ frame[g][Thread] \in Frame
        BY <1>3, TwoKeys
      <4> QED BY <4>1 DEF Frame, Steps
    <3>3. frame[g][Thread].step = "idle"
      BY <1>1, <2>2 DEF PagesInv, Nested
    <3> HIDE DEF b, c
    <3>4. /\ fr \in [Getters -> [Keys -> Frame]]
          /\ \A h \in Getters, l \in Keys :
               fr[h][l] = IF h = g /\ l = Board THEN b ELSE frame[h][l]
      BY <1>3, <3>2, TwoKeys, FrameAt
    <3> HIDE DEF fr
    <3>5. /\ frame' \in [Getters -> [Keys -> Frame]]
          /\ \A h \in Getters, l \in Keys :
               frame'[h][l] = IF h = g /\ l = Thread THEN c ELSE fr[h][l]
      BY <3>1, <3>2, <3>4, TwoKeys, FrameAt
    <3>6. Holding' /\ Keyed'
      <4>1. ASSUME NEW h \in Getters, NEW l \in Keys,
                   frame'[h][l].step \notin {"idle", "store"}
            PROVE  /\ frame'[h][l].store = frame[h][l].store
                   /\ frame[h][l].step \notin {"idle", "store"}
                   /\ frame'[h][l].step \in Locked => frame[h][l].step \in Locked
        BY <4>1, <1>1, <2>2, <3>2, <3>4, <3>5, TwoKeys DEF Locked
      <4>2. Keyed'
        BY <4>1, <1>1 DEF PagesInv, Keyed
      <4>3. Holding'
        BY <4>1, <1>1 DEF PagesInv, Holding, Locked
      <4> QED BY <4>2, <4>3
    <3>7. Nested'
      BY <3>2, <3>4, <3>5, TwoKeys DEF PagesInv, Nested
    <3>8. \A h \in Getters : frame'[h][Thread].step \in {"fetch", "save"} \/
                             frame[h][Thread].step \in {"fetch", "save"} =>
                               frame'[h][Thread] = frame[h][Thread]
      BY <3>2, <3>3, <3>4, <3>5, TwoKeys
    <3>9. Fetching'
      BY <1>1, <3>8, SameFetching DEF PagesInv
    <3> QED BY <3>5, <3>6, <3>7, <3>8, <3>9
  <2> QED BY <2>1, <2>2 DEF Keys
<1>5. Aligned'
  <2>1. ASSUME NEW r, Between(r) PROVE Between(r)'
    BY <2>1, <1>4 DEF Between
  <2> QED BY <1>1, <2>1 DEF PagesInv, Aligned, Shows
<1>6. RequestTyped' /\ JobsTyped'
  BY <1>1, <1>2, <1>4 DEF RequestTyped, JobsTyped, TypeOK
<1>7. ListTyped' /\ MapIsList' /\ DbTyped' /\ Gone'
  BY <1>1, <1>2, SameList, SameDatabase
<1>8. TypeOK'
  BY <1>6, <1>7 DEF TypeOK, DbTyped, ListTyped, JobsTyped, RequestTyped
<1> QED BY <1>4, <1>5, <1>7, <1>8 DEF PagesInv

\* A query fails: the request ends, with the one that waits for it.
LEMMA QueryFailsKeeps ==
    ASSUME PagesInv, NEW g \in Getters, NEW k \in Keys, QueryFails(g, k) PROVE PagesInv'
<1> DEFINE behind == {frame[g][l].store :
                        l \in {l \in Keys : frame[g][l].step \in {"fetch", "child"}}}
<1>1. /\ frame[g][k].step \in {"counter", "fetch"}
      /\ UNCHANGED <<dbVars, requests, lruVars, store, jobs>>
      /\ updates' = updates /\ store' = store /\ ahead' = ahead \cup behind
      /\ owner' = [s \in Stores |-> IF owner[s] = g THEN None ELSE owner[s]]
      /\ frame' = [frame EXCEPT ![g] = [l \in Keys |-> Idle]]
  BY DEF QueryFails, Fail, dbVars
<1>2. TypeOK /\ Gone /\ MapIsList
  BY DEF PagesInv
<1>3. /\ frame' \in [Getters -> [Keys -> Frame]]
      /\ \A l \in Keys : frame'[g][l].step = "idle"
      /\ \A h \in Getters \ {g} : frame'[h] = frame[h]
  BY <1>1, <1>2, IdleIsFrame DEF TypeOK
<1>4. behind \subseteq Stores
  BY DEF PagesInv, Keyed
<1>5. ASSUME NEW r, r \notin behind, frame[g][Thread].store = r
      PROVE  frame[g][Thread].step \notin {"fetch", "save"}
  <2>1. frame[g][Thread].step # "fetch"
    BY <1>5, TwoKeys
  <2>2. frame[g][Thread].step # "save"
    BY <1>1 DEF PagesInv, Nested, Keys
  <2> QED BY <2>1, <2>2
<1> HIDE DEF behind
<1>6. Holding'
  <2> SUFFICES ASSUME NEW h \in Getters, NEW l \in Keys, frame'[h][l].step \in Locked
               PROVE  owner'[frame'[h][l].store] = h
    BY DEF Holding
  <2>1. h # g /\ frame'[h] = frame[h]
    BY <1>3 DEF Locked
  <2>2. owner[frame[h][l].store] = h /\ frame[h][l].store \in Stores
    BY <2>1 DEF PagesInv, Holding, Keyed, Locked
  <2> QED BY <2>1, <2>2, <1>1
<1>7. Keyed' /\ Nested'
  BY <1>1, <1>3, TwoKeys DEF PagesInv, Keyed, Nested
<1>8. Fetching'
  <2> SUFFICES ASSUME NEW h \in Getters \ {g}
               PROVE  /\ frame[h][Thread].step = "fetch" =>
                           Shows(frame[h][Thread].store, Len(updates))
                      /\ frame[h][Thread].step = "save" =>
                           /\ frame[h][Thread].data \in Versions
                           /\ Shows(frame[h][Thread].store, frame[h][Thread].data)
    BY <1>1, <1>3, TwoKeys DEF Fetching, Shows
  <2> QED BY DEF PagesInv, Fetching
<1>9. Aligned'
  <2> SUFFICES ASSUME NEW r \in Stores \ ahead, r \notin behind,
                      store[r].key = Thread, store[r].data # None
               PROVE  Shows(r, store[r].data) \/ Between(r)'
    BY <1>1 DEF Aligned, Shows
  <2>1. CASE Between(r)
    <3>1. PICK h \in Getters : /\ frame[h][Thread].store = r
                               /\ frame[h][Thread].step \in {"fetch", "save"}
      BY <2>1 DEF Between
    <3>2. h # g
      BY <3>1, <1>5
    <3> QED BY <3>1, <3>2, <1>3 DEF Between
  <2> QED BY <2>1 DEF PagesInv, Aligned
<1>10. RequestTyped' /\ JobsTyped'
  <2>1. owner' \in [Stores -> Getters \cup {None}]
    BY <1>1, <1>2 DEF TypeOK
  <2> QED BY <2>1, <1>1, <1>2, <1>3, <1>4 DEF RequestTyped, JobsTyped, TypeOK
<1>11. ListTyped' /\ MapIsList' /\ DbTyped' /\ Gone'
  BY <1>1, <1>2, SameList, SameDatabase
<1>12. TypeOK'
  BY <1>10, <1>11 DEF TypeOK, DbTyped, ListTyped, JobsTyped, RequestTyped
<1> QED BY <1>6, <1>7, <1>8, <1>9, <1>11, <1>12 DEF PagesInv

-----------------------------------------------------------------------------
(* The steps of the database, and of those that work on the list.          *)

\* A step of the database.
LEMMA DatabaseKeeps ==
    ASSUME PagesInv, Update \/ DeleteOther \/ Clock PROVE PagesInv'
<1>1. UNCHANGED lruVars /\ UNCHANGED requestVars /\ jobs' = jobs /\ store' = store
  BY DEF Update, DeleteOther, Clock, requestVars
<1>2. /\ now \in 0..MaxTime /\ updates \in Seq(0..MaxTime) /\ MaxTime \in Nat
      /\ MaxUpdates \in Nat /\ Len(updates) \in 1..MaxUpdates + 1
      /\ others \in 0..Others /\ notices \in 0..Others /\ others + notices <= Others
      /\ Others \in Nat
  BY PageCacheAssumption DEF PagesInv, TypeOK, Gone, Versions
<1>3. /\ updates' \in Seq(0..MaxTime) /\ Len(updates') >= Len(updates)
      /\ \A u \in 1..Len(updates) : updates'[u] = updates[u]
      /\ DbTyped' /\ Gone'
  <2>1. CASE Update
    <3>1. PICK begin \in updates[1]..now : updates' = Append(updates, begin)
      BY <2>1 DEF Update
    <3>2. /\ Len(updates) <= MaxUpdates /\ now' = now
          /\ others' = others /\ notices' = notices
      BY <2>1 DEF Update
    <3>3. updates[1] \in 0..MaxTime
      <4>1. 1 \in 1..Len(updates)
        BY <1>2
      <4> QED BY <4>1, <1>2
    <3>4. begin \in 0..MaxTime
      BY <1>2, <3>1, <3>3
    <3>5. /\ updates' \in Seq(0..MaxTime) /\ Len(updates') = Len(updates) + 1
          /\ \A u \in 1..Len(updates) : updates'[u] = updates[u]
      BY <1>2, <3>1, <3>4, AppendProperties
    <3>6. Len(updates') \in Versions /\ Len(updates') >= Len(updates)
      BY <1>2, <3>2, <3>5 DEF Versions
    <3> QED BY <1>2, <3>2, <3>5, <3>6 DEF DbTyped, Gone
  <2>2. CASE DeleteOther
    BY <1>2, <2>2 DEF DeleteOther, DbTyped, Gone, Versions
  <2>3. CASE Clock
    BY <1>2, <2>3 DEF Clock, DbTyped, Gone, Versions
  <2> QED BY <2>1, <2>2, <2>3
<1>4. RequestTyped' /\ Holding' /\ Keyed' /\ Nested' /\ Fetching' /\ Aligned'
  BY <1>1, <1>3, SameRequests
<1>5. ListTyped' /\ MapIsList'
  BY <1>1, SameList DEF PagesInv
<1>6. JobsTyped'
  BY <1>1 DEF PagesInv, TypeOK, JobsTyped
<1>7. TypeOK'
  BY <1>3, <1>4, <1>5, <1>6 DEF TypeOK, DbTyped, ListTyped, JobsTyped, RequestTyped
<1> QED BY <1>3, <1>4, <1>5, <1>7 DEF PagesInv

\* What fits with more fits with fewer.
LEMMA FewerFit ==
    \A a, m, n, total \in Int : (a + n <= total /\ m <= n) => a + m <= total
  OBVIOUS

\* A step that works on the list.
LEMMA ListStepKeeps ==
    ASSUME PagesInv, DeleteByBoard \/ \E j \in BagToSet(jobs) : UpdateUsedSize(j)
    PROVE  PagesInv'
<1>1. UNCHANGED requestVars /\ updates' = updates /\ now' = now /\ others' = others
  BY DEF DeleteByBoard, UpdateUsedSize, dbVars
<1>2. TypeOK /\ Gone /\ MapIsList
  BY DEF PagesInv
<1>3. ListTyped' /\ MapIsList'
  BY <1>2, DeletionListed, EvictionListed
<1>4. updates \in Seq(0..MaxTime) /\ Len(updates) \in Nat
  BY <1>2 DEF TypeOK
<1>5. RequestTyped' /\ Holding' /\ Keyed' /\ Nested' /\ Fetching' /\ Aligned'
  BY <1>1, <1>4, SameRequests
<1>6. notices' = notices \/ (notices > 0 /\ notices' = notices - 1)
  BY DEF DeleteByBoard, UpdateUsedSize, dbVars
<1>7. DbTyped' /\ Gone'
  <2>1. notices \in 0..Others /\ others \in 0..Others /\ Others \in Nat
    BY <1>2, PageCacheAssumption DEF TypeOK
  <2>2. notices' \in 0..Others /\ notices' <= notices
    BY <2>1, <1>6
  <2>3. others + notices <= Others
    BY <1>2 DEF Gone
  <2>4. Gone'
    <3>1. others' = others /\ others \in Int /\ Others \in Int
      BY <1>1, <2>1
    <3>2. notices \in Int /\ notices' \in Int /\ notices' <= notices
      BY <2>1, <2>2
    <3>3. others + notices' <= Others
      BY <2>3, <3>1, <3>2, FewerFit
    <3> QED BY <3>1, <3>3 DEF Gone
  <2>5. DbTyped'
    BY <1>1, <1>2, <2>2 DEF DbTyped, TypeOK
  <2> QED BY <2>4, <2>5
<1>8. JobsTyped'
  <2>1. CASE jobs' = jobs
    BY <2>1, <1>2 DEF TypeOK, JobsTyped
  <2>2. CASE \E j \in BagToSet(jobs) : jobs' = jobs (-) SetToBag({j})
    <3>1. PICK j \in BagToSet(jobs) : jobs' = jobs (-) SetToBag({j})
      BY <2>2
    <3>2. IsABag(jobs) /\ \A i \in BagToSet(jobs) : i.key \in Keys /\ i.delta \in Int
      BY <1>2 DEF TypeOK
    <3>3. IsABag(jobs') /\ BagToSet(jobs') \subseteq BagToSet(jobs)
      BY <3>1, <3>2, BagMinus
    <3> QED BY <3>2, <3>3 DEF JobsTyped
  <2> QED BY <2>1, <2>2 DEF DeleteByBoard, UpdateUsedSize
<1>9. TypeOK'
  BY <1>3, <1>5, <1>7, <1>8 DEF TypeOK, DbTyped, ListTyped, JobsTyped, RequestTyped
<1> QED BY <1>3, <1>5, <1>7, <1>9 DEF PagesInv

-----------------------------------------------------------------------------
(* The theorem.                                                            *)

\* The cache starts empty.
LEMMA PagesInit == ASSUME Init PROVE PagesInv
<1>1. /\ now = 1 /\ updates = <<1>> /\ others = Others /\ notices = 0
      /\ cache = [k \in Keys |-> None] /\ ll = << >> /\ totalUsed = 0
      /\ endless = FALSE /\ store = [s \in Stores |-> EmptyStore(Thread)]
      /\ owner = [s \in Stores |-> None]
      /\ frame = [g \in Getters |-> [k \in Keys |-> Idle]]
      /\ jobs = EmptyBag /\ requests = 0 /\ ahead = {}
  BY DEF Init
<1>2. MaxTime \in Nat \ {0} /\ MaxUpdates \in Nat /\ MaxRequests \in Nat /\ Others \in Nat
  BY PageCacheAssumption
<1>3. DbTyped /\ Gone
  BY <1>1, <1>2 DEF DbTyped, Gone, Versions
<1>4. EmptyStore(Thread) \in Store /\ EmptyStore(Thread).data = None
  BY TwoKeys DEF EmptyStore, Store
<1>5. RequestTyped
  BY <1>1, <1>2, <1>4, IdleIsFrame DEF RequestTyped
<1>6. JobsTyped
  BY <1>1 DEF JobsTyped, EmptyBag, SetToBag, IsABag, BagToSet
<1>7. ListTyped
  <2>1. cache \in [Keys -> Stores \cup {None}] /\ endless \in BOOLEAN
    BY <1>1
  <2>2. ll \in Seq(Stores) /\ totalUsed \in Int
    BY <1>1
  <2> QED BY <2>1, <2>2 DEF ListTyped
<1>8. MapIsList
  <2>1. DOMAIN ll = {} /\ ToSet(ll) = {}
    BY <1>1 DEF ToSet
  <2> QED BY <1>1, <2>1 DEF MapIsList, IsInjective
<1>9. \A g \in Getters, k \in Keys : frame[g][k].step = "idle"
  BY <1>1, IdleIsFrame
<1>10. Holding /\ Keyed /\ Nested /\ Fetching
  BY <1>9, TwoKeys DEF Holding, Keyed, Nested, Fetching, Locked
<1>11. Aligned
  BY <1>1, <1>4 DEF Aligned
<1>12. TypeOK
  BY <1>3, <1>5, <1>6, <1>7, TypeParts
<1> QED BY <1>3, <1>8, <1>10, <1>11, <1>12 DEF PagesInv

\* Every step keeps the invariant.
LEMMA PagesStep == ASSUME PagesInv, [Next]_vars PROVE PagesInv'
<1>1. ASSUME NEW g \in Getters, NEW k \in Keys, NEW html \in BOOLEAN, Request(g, k, html)
      PROVE  PagesInv'
  BY <1>1, RequestKeeps
<1>2. ASSUME NEW g \in Getters, Proceed(g) PROVE PagesInv'
  BY <1>2, GetStoreKeeps, LockKeeps, GetCounterKeeps, GetFreshKeeps, QueryFailsKeeps,
     SaveKeeps DEF Proceed
<1>3. CASE UNCHANGED vars
  <2>1. UNCHANGED requestVars /\ UNCHANGED lruVars /\ UNCHANGED dbVars /\ jobs' = jobs
        /\ store' = store
    BY <1>3 DEF vars, requestVars
  <2>2. updates' = updates /\ updates \in Seq(0..MaxTime) /\ Len(updates) \in Nat
    BY <2>1 DEF dbVars, PagesInv, TypeOK
  <2>3. RequestTyped' /\ Holding' /\ Keyed' /\ Nested' /\ Fetching' /\ Aligned'
    BY <2>1, <2>2, SameRequests
  <2>4. ListTyped' /\ MapIsList' /\ DbTyped' /\ Gone'
    BY <2>1, SameList, SameDatabase DEF PagesInv
  <2>5. JobsTyped'
    BY <2>1 DEF PagesInv, TypeOK, JobsTyped
  <2>6. TypeOK'
    BY <2>3, <2>4, <2>5 DEF TypeOK, DbTyped, ListTyped, JobsTyped, RequestTyped
  <2> QED BY <2>3, <2>4, <2>6 DEF PagesInv
<1> QED BY <1>1, <1>2, <1>3, DatabaseKeeps, ListStepKeeps, TwoKeys DEF Next

\* The invariant gives what is promised: a page nobody has locked is between no
\* counter and its data.
LEMMA PagesFollow == ASSUME PagesInv PROVE PagesHold
<1>1. CounterHasItsData
  <2> SUFFICES ASSUME NEW s \in Stores \ ahead, store[s].key = Thread,
                      store[s].data # None, owner[s] = None
               PROVE  \E u \in 1..store[s].data : updates[u] = store[s].counter
    BY DEF CounterHasItsData
  <2>1. ~Between(s)
    <3> SUFFICES ASSUME NEW g \in Getters, frame[g][Thread].store = s,
                        frame[g][Thread].step \in {"fetch", "save"}
                 PROVE  FALSE
      BY DEF Between
    <3>1. owner[s] = g
      BY TwoKeys DEF PagesInv, Holding, Locked
    <3> QED BY <3>1, PageCacheAssumption
  <2>2. PICK u \in 1..Len(updates) : u <= store[s].data /\ updates[u] = store[s].counter
    BY <2>1 DEF PagesInv, Aligned, Shows
  <2>3. u \in 1..store[s].data
    <3>1. store[s].data \in Nat /\ Len(updates) \in Nat
      BY PageCacheAssumption DEF PagesInv, TypeOK, Store, Versions
    <3> QED BY <2>2, <3>1
  <2> QED BY <2>2, <2>3
<1> QED BY <1>1 DEF PagesHold, PagesInv

\* Cached pages are sound (cache/main.go, cache/getters.go): no counter is ahead of
\* the data it was read before, and the map and the LRU list hold the same stores,
\* for any number of requests, updates, evictions and deletions.
THEOREM PagesAreSound == Spec => []PagesHold
<1>1. Init => PagesInv
  BY PagesInit
<1>2. PagesInv /\ [Next]_vars => PagesInv'
  BY PagesStep
<1>3. PagesInv => PagesHold
  BY PagesFollow
<1> QED BY <1>1, <1>2, <1>3, PTL DEF Spec
=============================================================================

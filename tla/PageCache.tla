------------------------------ MODULE PageCache -------------------------------
(***************************************************************************)
(* The cache of rendered pages (cache/main.go, cache/getters.go) over a    *)
(* database that changes: HTTP handlers fetch a thread page or the board   *)
(* page through it, the latter built from cached thread pages              *)
(* (cache/frontends.go:122).  A page is trusted for a second and then      *)
(* compared with a counter of the database, which holds the second of the  *)
(* thread's last update (static/src/sql/functions/bump_thread.sql).        *)
(*                                                                         *)
(* A page's data is the number of updates of the thread it shows.  One     *)
(* action per section under a lock and per query.  The size of the cache   *)
(* is counted by goroutines that update starts and nobody waits for.       *)
(***************************************************************************)
EXTENDS Integers, Sequences, SequencesExt, Bags

CONSTANTS
    Getters,        \* goroutines that serve pages
    Thread, Board,  \* keys: a thread page, and the board's
    Stores,         \* store objects; as many as can be in use at once
    Size,           \* the maximum size: 128 MB in the code
    MaxTime,        \* bound: last second of the clock
    MaxUpdates,     \* bound: updates of the thread
    MaxRequests,    \* bound: requests
    Others,         \* other threads of the board at first
    None

ASSUME PageCacheAssumption ==
    /\ Thread # Board
    /\ Size \in Nat /\ MaxTime \in Nat \ {0} /\ MaxUpdates \in Nat
    /\ MaxRequests \in Nat /\ Others \in Nat
    /\ None \notin Stores \cup Getters \cup Nat

Keys == {Thread, Board}

VARIABLES
    now,            \* the clock, in seconds
    updates,        \* when the thread was updated, its creation first
    others,         \* other threads of the board
    notices,        \* thread_deleted notifications under way
    cache,          \* the store of every key
    ll,             \* the LRU list, most recent first
    totalUsed,      \* the counted size
    endless,        \* the eviction loop found nothing more to evict
    store,          \* the contents of every store
    owner,          \* who holds the lock of a store
    frame,          \* where a getter is with a key
    jobs,           \* calls of updateUsedSize under way
    requests,       \* requests so far
    ahead           \* stores whose counter was set before a failed fetch

dbVars == <<now, updates, others, notices>>
lruVars == <<cache, ll, totalUsed, endless>>
requestVars == <<store, owner, frame, requests, ahead>>
vars == <<dbVars, lruVars, requestVars, jobs>>

Versions == 1..MaxUpdates + 1
Store == [key : Keys, counter : Nat, checked : Nat, data : Versions \cup {None},
          html : BOOLEAN, size : Nat]
Steps == {"idle", "store", "lock", "counter", "fetch", "child", "save"}
Frame == [step : Steps, store : Stores \cup {None},
          data : Versions \cup {None}, html : BOOLEAN]
Idle == [step |-> "idle", store |-> None, data |-> None, html |-> FALSE]
EmptyStore(k) == [key |-> k, counter |-> 0, checked |-> 0, data |-> None,
                  html |-> FALSE, size |-> 0]

TypeOK ==
    /\ now \in 0..MaxTime
    /\ updates \in Seq(0..MaxTime) /\ Len(updates) \in Versions
    /\ others \in 0..Others /\ notices \in 0..Others
    /\ cache \in [Keys -> Stores \cup {None}]
    /\ ll \in Seq(Stores)
    /\ totalUsed \in Int
    /\ endless \in BOOLEAN
    /\ store \in [Stores -> Store]
    /\ owner \in [Stores -> Getters \cup {None}]
    /\ frame \in [Getters -> [Keys -> Frame]]
    /\ IsABag(jobs)
    /\ \A j \in BagToSet(jobs) : j.key \in Keys /\ j.delta \in Int
    /\ requests \in 0..MaxRequests
    /\ ahead \subseteq Stores

Init ==
    /\ now = 1
    /\ updates = <<1>>
    /\ others = Others
    /\ notices = 0
    /\ cache = [k \in Keys |-> None]
    /\ ll = << >>
    /\ totalUsed = 0
    /\ endless = FALSE
    /\ store = [s \in Stores |-> EmptyStore(Thread)]
    /\ owner = [s \in Stores |-> None]
    /\ frame = [g \in Getters |-> [k \in Keys |-> Idle]]
    /\ jobs = EmptyBag
    /\ requests = 0
    /\ ahead = {}

-----------------------------------------------------------------------------
(* The database.                                                           *)

\* ThreadCounter and BoardCounter.
Counter(k) == Last(updates) + IF k = Board THEN others + 1 ELSE 0

\* bump_thread: the time is that of the transaction's begin, not of its commit.
Update ==
    /\ Len(updates) <= MaxUpdates
    /\ \E begin \in updates[1]..now : updates' = Append(updates, begin)
    /\ UNCHANGED <<now, others, notices, lruVars, requestVars, jobs>>

DeleteOther ==
    /\ others > 0
    /\ others' = others - 1
    /\ notices' = notices + 1
    /\ UNCHANGED <<now, updates, lruVars, requestVars, jobs>>

Clock ==
    /\ now < MaxTime
    /\ now' = now + 1
    /\ UNCHANGED <<updates, others, notices, lruVars, requestVars, jobs>>

-----------------------------------------------------------------------------
(* The list of stores, under its mutex; nobody gets it any more once the   *)
(* eviction loop does not end.                                             *)

\* What the stores ss count for; the list has one for a key.
SizeAt(k, ss) == IF cache[k] \in ss THEN store[cache[k]].size ELSE 0
SizeOf(ss) == SizeAt(Thread, ss) + SizeAt(Board, ss)

\* The stores that leave the list when kept remains of it.
Removed(kept) == ToSet(ll) \ ToSet(kept)

\* Mutant of RemoveEntries: the map keeps the keys.
RemoveFromList(kept, used) ==
    /\ ll' = kept
    /\ totalUsed' = used - SizeOf(Removed(kept))
    /\ UNCHANGED cache

\* removeEntry, of all the stores but those kept; used is the count before.
RemoveEntries(kept, used) ==
    /\ ll' = kept
    /\ cache' = [k \in Keys |-> IF \E s \in Removed(kept) : store[s].key = k
                                  THEN None ELSE cache[k]]
    /\ totalUsed' = used - SizeOf(Removed(kept))

\* The list without a store it holds.
Without(s) == RemoveAt(ll, CHOOSE i \in 1..Len(ll) : ll[i] = s)

\* Mutant of DeleteByBoard: what the map finds goes to the back of the list.
DeleteByBoardAny ==
    /\ notices > 0 /\ ~endless
    /\ notices' = notices - 1
    /\ cache' = [cache EXCEPT ![Board] = None]
    /\ ll' = Append(ll, cache[Board])
    /\ UNCHANGED <<now, updates, others, totalUsed, endless, requestVars, jobs>>

\* DeleteByBoard, on the notification of a deleted thread.
DeleteByBoard ==
    /\ notices > 0 /\ ~endless
    /\ notices' = notices - 1
    /\ RemoveEntries(IF cache[Board] = None THEN ll ELSE Without(cache[Board]),
                     totalUsed)
    /\ UNCHANGED <<now, updates, others, endless, requestVars, jobs>>

\* How many of the most recently used stores can stay.
Fitting(used) ==
    {n \in 0..Len(ll) : used - SizeOf(Removed(SubSeq(ll, 1, n))) <= Size}

\* Evicts from the back while there is too much; empty, the list has no more.
Evict(used) ==
    /\ endless' = (Fitting(used) = {})
    /\ \E n \in Fitting(used) \cup {0} :
         /\ \A m \in Fitting(used) : m <= n
         /\ RemoveEntries(SubSeq(ll, 1, n), used)

\* Of the goroutine that update starts.
UpdateUsedSize(j) ==
    /\ ~endless
    /\ jobs' = jobs (-) SetToBag({j})
    /\ IF cache[j.key] = None THEN UNCHANGED lruVars
                              ELSE Evict(totalUsed + j.delta)
    /\ UNCHANGED <<dbVars, requestVars>>

-----------------------------------------------------------------------------
(* A request.                                                              *)

Request(g, k, html) ==
    /\ \A l \in Keys : frame[g][l] = Idle
    /\ requests < MaxRequests
    /\ requests' = requests + 1
    /\ frame' = [frame EXCEPT ![g][k] = [Idle EXCEPT !.step = "store",
                                                     !.html = html]]
    /\ UNCHANGED <<dbVars, lruVars, store, owner, jobs, ahead>>

\* Objects nothing refers to; which one is allocated makes no difference.
Garbage == {s \in Stores : /\ s \notin ToSet(ll)
                           /\ \A g \in Getters, k \in Keys :
                                frame[g][k].store # s}
NewStore == CHOOSE s \in Garbage : TRUE

GetStore(g, k) ==
    LET s == IF cache[k] = None THEN NewStore ELSE cache[k] IN
    /\ frame[g][k].step = "store" /\ ~endless
    /\ IF cache[k] = None
         THEN /\ Garbage # {}
              /\ cache' = [cache EXCEPT ![k] = s]
              /\ ll' = <<s>> \o ll
              /\ store' = [store EXCEPT ![s] = EmptyStore(k)]
              /\ ahead' = ahead \ {s}
         ELSE /\ ll' = <<s>> \o Without(s)
              /\ UNCHANGED <<cache, store, ahead>>
    /\ frame' = [frame EXCEPT ![g][k] = [@ EXCEPT !.step = "lock", !.store = s]]
    /\ UNCHANGED <<dbVars, requests, totalUsed, endless, owner, jobs>>

\* A request of a page that another waits for gives it the data.
IsChild(g, k) == k = Thread /\ frame[g][Board].step = "child"

Return(g, k, data) ==
    frame' = IF IsChild(g, k)
               THEN [frame EXCEPT ![g][k] = Idle,
                                  ![g][Board] = [@ EXCEPT !.step = "save",
                                                          !.data = data]]
               ELSE [frame EXCEPT ![g][k] = Idle]

\* Mutant of Fail: the board page stays locked if its thread cannot be had.
FailLocked(g, k) ==
    /\ owner' = [owner EXCEPT ![frame[g][k].store] = None]
    /\ frame' = [frame EXCEPT ![g] = [l \in Keys |-> Idle]]

\* An error ends the request, and the one that waits for it.
Fail(g, k) ==
    /\ owner' = [s \in Stores |-> IF owner[s] = g THEN None ELSE owner[s]]
    /\ frame' = [frame EXCEPT ![g] = [l \in Keys |-> Idle]]

\* computeSize: HTML comes on top of the JSON.
ComputeSize(html) == IF html THEN 2 ELSE 1

\* store.update, which starts updateUsedSize.
SetStore(s, contents, html) ==
    LET size == ComputeSize(html) IN
    /\ store' = [store EXCEPT ![s] = [contents EXCEPT !.html = html,
                                                      !.size = size]]
    /\ jobs' = jobs (+) SetToBag({[key |-> contents.key,
                                   delta |-> size - store[s].size]})

\* Cached data are served; HTML is generated if they were only had as JSON.
ServeCached(g, k, contents) ==
    LET s == frame[g][k].store IN
    /\ IF frame[g][k].html /\ ~contents.html
         THEN SetStore(s, contents, TRUE)
         ELSE store' = [store EXCEPT ![s] = contents] /\ UNCHANGED jobs
    /\ owner' = [owner EXCEPT ![s] = None]
    /\ Return(g, k, contents.data)

\* "Less than a second ago" may be in this second of the clock or in the last.
MayBeFresh(contents) == now - contents.checked <= 1
MayBeStale(contents) == now > contents.checked

\* The lock of the store, and the look at what it has.
Lock(g, k) ==
    LET s == frame[g][k].store IN
    /\ frame[g][k].step = "lock"
    /\ owner[s] = None
    /\ \/ /\ store[s].data # None /\ MayBeFresh(store[s])
          /\ ServeCached(g, k, store[s])
       \/ /\ store[s].data = None \/ MayBeStale(store[s])
          /\ owner' = [owner EXCEPT ![s] = g]
          /\ frame' = [frame EXCEPT ![g][k].step = "counter"]
          /\ UNCHANGED <<store, jobs>>
    /\ UNCHANGED <<dbVars, requests, lruVars, ahead>>

GetCounter(g, k) ==
    LET s == frame[g][k].store
        counter == Counter(k)
    IN
    /\ frame[g][k].step = "counter"
    /\ IF store[s].data # None /\ counter = store[s].counter
         THEN ServeCached(g, k, [store[s] EXCEPT !.checked = now])
         ELSE /\ store' = [store EXCEPT ![s].counter = counter]
              /\ frame' = [frame EXCEPT ![g][k].step = "fetch"]
              /\ UNCHANGED <<owner, jobs>>
    /\ UNCHANGED <<dbVars, requests, lruVars, ahead>>

\* The thread is read from the database; for the board, from the cache.
GetFresh(g, k) ==
    /\ frame[g][k].step = "fetch"
    /\ frame' = IF k = Thread
                  THEN [frame EXCEPT ![g][k] = [@ EXCEPT !.step = "save",
                                                         !.data = Len(updates)]]
                  ELSE [frame EXCEPT ![g][k].step = "child",
                                     ![g][Thread].step = "store"]
    /\ UNCHANGED <<dbVars, requests, lruVars, store, owner, jobs, ahead>>

\* The counter or the data cannot be had.
QueryFails(g, k) ==
    /\ frame[g][k].step \in {"counter", "fetch"}
    /\ Fail(g, k)
    /\ ahead' = ahead \cup {frame[g][l].store :
                              l \in {l \in Keys : frame[g][l].step \in
                                                    {"fetch", "child"}}}
    /\ UNCHANGED <<dbVars, requests, lruVars, store, jobs>>

\* Mutant of Save: the counter is read after the data.
SaveRecounted(g, k) ==
    LET f == frame[g][k] IN
    /\ f.step = "save"
    /\ SetStore(f.store, [store[f.store] EXCEPT !.data = f.data,
                                                !.counter = Counter(k),
                                                !.checked = now], f.html)
    /\ ahead' = ahead \ {f.store}
    /\ owner' = [owner EXCEPT ![f.store] = None]
    /\ Return(g, k, f.data)
    /\ UNCHANGED <<dbVars, requests, lruVars>>

\* What was fetched replaces the contents of the store.
Save(g, k) ==
    LET f == frame[g][k] IN
    /\ f.step = "save"
    /\ SetStore(f.store, [store[f.store] EXCEPT !.data = f.data,
                                                !.checked = now], f.html)
    /\ ahead' = ahead \ {f.store}
    /\ owner' = [owner EXCEPT ![f.store] = None]
    /\ Return(g, k, f.data)
    /\ UNCHANGED <<dbVars, requests, lruVars>>

-----------------------------------------------------------------------------
Proceed(g) == \E k \in Keys : \/ GetStore(g, k) \/ Lock(g, k)
                              \/ GetCounter(g, k) \/ GetFresh(g, k)
                              \/ QueryFails(g, k) \/ Save(g, k)

Next ==
    \/ \E g \in Getters :
         \/ Request(g, Thread, TRUE) \/ Request(g, Thread, FALSE)
         \/ Request(g, Board, FALSE)
         \/ Proceed(g)
    \/ \E j \in BagToSet(jobs) : UpdateUsedSize(j)
    \/ DeleteByBoard
    \/ Update \/ DeleteOther \/ Clock

\* Goroutines that can run do, and one that waits for a lock gets it.
Spec == /\ Init /\ [][Next]_vars
        /\ \A g \in Getters : SF_vars(Proceed(g))
        /\ WF_vars(\E j \in BagToSet(jobs) : UpdateUsedSize(j))

-----------------------------------------------------------------------------
(* Properties.                                                             *)

\* A thread page's counter is never ahead of its data: it is the time of an
\* update the data show, unless a fetch has failed.  So an update they lack
\* changes the counter, or falls into the second of one they show.
CounterHasItsData ==
    \A s \in Stores \ ahead :
        store[s].key = Thread /\ store[s].data # None /\ owner[s] = None =>
            \E u \in 1..store[s].data : updates[u] = store[s].counter

\* The map and the LRU list hold the same stores, one for a key: whatever a
\* request finds can be evicted, and an eviction makes room for what it counts.
MapIsList ==
    /\ IsInjective(ll)
    /\ {cache[k] : k \in Keys} \ {None} = ToSet(ll)
    /\ \A k \in Keys : cache[k] # None => store[cache[k]].key = k

\* The cache is sound: what it holds, in what order, and for which counter
PagesHold == TypeOK /\ CounterHasItsData /\ MapIsList

\* Requests end: pages are locked before the pages they are built from, errors
\* let go of both, and a goroutine that evicts waits for neither, unless it never
\* comes to an end itself.
RequestsEnd ==
    \A g \in Getters : frame[g] # [k \in Keys |-> Idle]
                          ~> (frame[g] = [k \in Keys |-> Idle] \/ endless)

\* "Update the total used memory counter" (cache/main.go:74): once no update is
\* under way, the counter is the size of what is cached.
UsedIsCounted == jobs = EmptyBag => totalUsed = SizeOf(ToSet(ll))
=============================================================================

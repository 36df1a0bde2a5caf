--------------------------- MODULE OpenPostProofs ---------------------------
(***************************************************************************)
(* Proofs about OpenPost: what its stores, owners and feed agree on.       *)
(*                                                                         *)
(* The text of a post is in four places and no step changes two of them    *)
(* but those of one call, so the invariant says what each step of a call   *)
(* leaves in each place, and what an owner and a starting feed rely on.    *)
(* Most steps are of one worker about one post: LocalKeeps proves the      *)
(* invariant of all the other workers and posts once for all of them.      *)
(***************************************************************************)
EXTENDS OpenPost, TLAPS

\* w owns p or is in the middle of a call about it
Engaged(w, p) == task[w].post = p \/ (w \in Clients /\ own[w].post = p)
\* A feed that is up
FeedUp == FeedRuns /\ FeedFree

\* A worker in a call has its post, and a client owns what it announces, saves
\* or closes.
Tasks ==
    /\ \A w \in Workers : Step(w) = "idle" <=> task[w].post = None
    /\ Step(Cleaner) \notin {"store", "announce", "save"}
    /\ Step(Cleaner) # "idle" => sweep = {}
    /\ \A c \in Clients :
         /\ c \notin online => Step(c) = "idle" /\ own[c] = NoPost
         /\ Step(c) \in {"store", "load"} => own[c] = NoPost
         /\ Step(c) \in {"announce", "save", "commit", "tell", "forget"} =>
                own[c] = [post |-> task[c].post, text |-> task[c].text]

\* A post that does not exist has left no trace.
Absent ==
    \A p \in Posts : row[p].state = "none" =>
        /\ bolt[p] = None /\ p \notin overlapped
        /\ FeedRuns => mirror[p] = None
        /\ \A w \in Workers : ~Engaged(w, p)

\* Without an overlap one worker at most is engaged with a post.
Solo ==
    \A p \in Posts \ overlapped : \A v, w \in Workers :
        Engaged(v, p) /\ Engaged(w, p) => v = w

\* What the stores and the mirror hold of the post p of the call of w
CallOK(w, p) ==
    /\ Step(w) \in {"store", "announce", "save", "load", "commit"} =>
           row[p].state = "open"
    /\ Step(w) \in {"tell", "forget"} =>
           row[p] = [state |-> "closed", body |-> task[w].text]
    /\ Step(w) = "store" => bolt[p] = None /\ mirror[p] = None
    /\ Step(w) = "announce" => bolt[p] = task[w].text /\ mirror[p] = None
    /\ Step(w) = "save" => mirror[p] = Open(task[w].text)
    /\ Step(w) = "commit" => BoltText(p) = task[w].text
    /\ Step(w) = "tell" /\ w = Cleaner => BoltText(p) = task[w].text

Called == \A w \in Workers, p \in Posts \ overlapped : task[w].post = p => CallOK(w, p)

\* The post of an owner at its select, or about to close it, is open, stored
\* and mirrored.
OwnOK(c, p) ==
    Step(c) \in {"idle", "commit"} =>
        row[p].state = "open" /\ BoltText(p) = own[c].text /\ mirror[p] # None

Owned == \A c \in Clients, p \in Posts \ overlapped : own[c].post = p => OwnOK(c, p)

\* The mirror of a post that no call is changing
Agrees(p) ==
    IF mirror[p] = None
      THEN row[p].state = "none" \/ (row[p].state = "open" /\ bolt[p] = None)
      ELSE mirror[p] = IF row[p].state = "closed"
                         THEN [closed |-> TRUE, text |-> row[p].body]
                         ELSE Open(BoltText(p))

\* The mirror of a post it is about to be told is closed
Told(p, text) ==
    IF mirror[p] = None THEN text = Empty
    ELSE mirror[p] \in [closed : BOOLEAN, text : {text}]

\* The mirror of the post of a call
MirrorOK(w, p) ==
    /\ Step(w) \in {"load", "commit", "forget"} => Agrees(p)
    /\ Step(w) = "tell" => Told(p, task[w].text)

Mirrored ==
    FeedUp => \A p \in Posts \ overlapped :
        /\ Quiet(p) => Agrees(p)
        /\ \A w \in Workers : task[w].post = p => MirrorOK(w, p)

\* A feed that starts has read a row that is still so, or that of a post being
\* closed, of which it will be told.
StartOK(p) ==
    \/ starting.rows[p] = row[p].state
    \/ /\ starting.rows[p] = "open" /\ row[p].state = "closed"
       /\ task[Cleaner].post = p /\ Step(Cleaner) = "tell"

Starts == ~FeedFree => online = {} /\ \A p \in Posts \ overlapped : StartOK(p)

\* What every step keeps
OpenInv == TypeOK /\ Tasks /\ Absent /\ Solo /\ Called /\ Owned /\ Mirrored /\ Starts

\* w is engaged with p, if with any post
Only(w, p) ==
    task[w].post \in {p, None} /\ (w \in Clients => own[w].post \in {p, None})

\* A step of w that touches nothing but p, with which no other is engaged unless
\* they overlap.
LocalStep(w, p) ==
    /\ \A v \in Workers \ {w} : task'[v] = task[v]
    /\ \A c \in Clients \ {w} : own'[c] = own[c]
    /\ \A q \in Posts \ {p} :
         row'[q] = row[q] /\ bolt'[q] = bolt[q] /\ mirror'[q] = mirror[q]
    /\ Only(w, p) /\ Only(w, p)'
    /\ overlapped \subseteq overlapped' /\ overlapped' \subseteq overlapped \cup {p}
    /\ p \notin overlapped' => \A v \in Workers \ {w} : ~Engaged(v, p)
    /\ row'[p].state # "none"
    /\ UNCHANGED <<online, starting, sweep>>

\* What such a step is to keep of p
LocalOK(w, p) ==
    /\ task[w].post = p => CallOK(w, p) /\ (FeedUp => MirrorOK(w, p))
    /\ w \in Clients /\ own[w].post = p => OwnOK(w, p)
    /\ task[w].post # p /\ FeedUp => Agrees(p)
    /\ ~FeedFree => StartOK(p)

\* The invariant of p is that of w and p then, and of the others as before.
LEMMA LocalKeeps ==
    ASSUME OpenInv, NEW w \in Workers, NEW p \in Posts, LocalStep(w, p), TypeOK', Tasks',
           p \notin overlapped' => LocalOK(w, p)'
    PROVE OpenInv'
<1> USE OpenPostAssumption
<1>1. ASSUME NEW q \in Posts \ {p}
      PROVE /\ row'[q] = row[q] /\ bolt'[q] = bolt[q] /\ mirror'[q] = mirror[q]
            /\ ~Engaged(w, q) /\ ~Engaged(w, q)'
            /\ task[w].post # q /\ task'[w].post # q
  BY DEF LocalStep, Only, Engaged
<1>2. ASSUME NEW v \in Workers, v # w
      PROVE task'[v] = task[v] /\ (v \in Clients => own'[v] = own[v])
  BY <1>2 DEF LocalStep
<1>3. ASSUME NEW v \in Workers, NEW q \in Posts, v # w
      PROVE Engaged(v, q)' <=> Engaged(v, q)
  BY <1>2, <1>3 DEF Engaged
<1>4. ASSUME NEW v \in Workers, v # w, p \notin overlapped'
      PROVE ~Engaged(v, p) /\ ~Engaged(v, p)' /\ task'[v].post # p
  BY <1>3, <1>4 DEF LocalStep, Engaged
<1>5. Absent'
  <2> SUFFICES ASSUME NEW q \in Posts, row'[q].state = "none"
               PROVE /\ bolt'[q] = None /\ (FeedRuns => mirror'[q] = None)
                     /\ q \notin overlapped'
                     /\ \A v \in Workers : ~Engaged(v, q)'
    BY DEF Absent, LocalStep, FeedRuns
  <2>1. q # p
    BY DEF LocalStep
  <2> QED BY <1>1, <1>3, <2>1 DEF OpenInv, Absent, LocalStep
<1>6. Solo'
  <2> SUFFICES ASSUME NEW q \in Posts, q \notin overlapped', NEW u \in Workers,
                      NEW v \in Workers, Engaged(u, q)', Engaged(v, q)'
               PROVE u = v
    BY DEF Solo
  <2>1. CASE q = p
    BY <1>4, <2>1
  <2>2. CASE q # p
    <3>1. u # w /\ v # w
      BY <1>1, <2>2
    <3> QED BY <1>3, <3>1 DEF OpenInv, Solo, LocalStep
  <2> QED BY <2>1, <2>2
<1>7. Called'
  <2> SUFFICES ASSUME NEW v \in Workers, NEW q \in Posts, q \notin overlapped',
                      task'[v].post = q
               PROVE CallOK(v, q)'
    BY DEF Called
  <2>1. CASE q = p
    BY <1>4, <2>1 DEF LocalOK
  <2>2. CASE q # p
    <3>1. v # w
      BY <1>1, <2>2
    <3>2. CallOK(v, q)
      BY <1>2, <3>1 DEF OpenInv, Called, LocalStep
    <3> QED BY <1>1, <1>2, <2>2, <3>1, <3>2 DEF CallOK, Step, BoltText, Open
  <2> QED BY <2>1, <2>2
<1>8. Owned'
  <2> SUFFICES ASSUME NEW c \in Clients, NEW q \in Posts, q \notin overlapped',
                      own'[c].post = q
               PROVE OwnOK(c, q)'
    BY DEF Owned
  <2>0. c \in Workers
    BY DEF Workers
  <2>1. CASE q = p
    BY <1>4, <2>0, <2>1 DEF LocalOK, Engaged
  <2>2. CASE q # p
    <3>1. c # w
      BY <1>1, <2>2 DEF Engaged
    <3>2. OwnOK(c, q)
      BY <1>2, <2>0, <3>1 DEF OpenInv, Owned, LocalStep
    <3> QED BY <1>1, <1>2, <2>0, <2>2, <3>1, <3>2 DEF OwnOK, Step, BoltText
  <2> QED BY <2>1, <2>2
<1>9. Mirrored'
  <2> SUFFICES ASSUME FeedUp', NEW q \in Posts, q \notin overlapped'
               PROVE /\ Quiet(q)' => Agrees(q)'
                     /\ \A v \in Workers : task'[v].post = q => MirrorOK(v, q)'
    BY DEF Mirrored
  <2>1. CASE q = p
    BY <1>4, <2>1 DEF LocalOK, Quiet
  <2>2. CASE q # p
    <3>1. FeedUp /\ q \notin overlapped
      BY DEF FeedUp, FeedRuns, FeedFree, LocalStep
    <3>2. Agrees(q)' <=> Agrees(q)
      BY <1>1, <2>2 DEF Agrees, BoltText, Open
    <3>3. Quiet(q)' => Quiet(q)
      BY <1>1, <1>2, <2>2 DEF Quiet
    <3>4. ASSUME NEW v \in Workers, task'[v].post = q PROVE MirrorOK(v, q)'
      <4>1. v # w /\ task'[v] = task[v]
        BY <1>1, <1>2, <2>2, <3>4
      <4>2. MirrorOK(v, q)
        BY <3>1, <3>4, <4>1 DEF OpenInv, Mirrored
      <4> QED BY <1>1, <2>2, <3>2, <4>1, <4>2 DEF MirrorOK, Told, Step
    <3> QED BY <3>1, <3>2, <3>3, <3>4 DEF OpenInv, Mirrored
  <2> QED BY <2>1, <2>2
<1>10. Starts'
  <2> SUFFICES ASSUME ~FeedFree' PROVE online' = {} /\ \A q \in Posts \ overlapped' : StartOK(q)'
    BY DEF Starts
  <2>1. ~FeedFree /\ online' = {}
    BY DEF FeedFree, LocalStep, OpenInv, Starts
  <2>2. ASSUME NEW q \in Posts, q \notin overlapped', q # p PROVE StartOK(q)'
    <3>1. StartOK(q)
      BY <2>1, <2>2 DEF OpenInv, Starts, LocalStep
    <3>2. Cleaner # w => task'[Cleaner] = task[Cleaner]
      BY <1>2 DEF Workers
    <3> QED BY <1>1, <2>2, <3>1, <3>2 DEF StartOK, Step, LocalStep
  <2>3. ASSUME p \notin overlapped' PROVE StartOK(p)'
    BY <2>3 DEF LocalOK
  <2> QED BY <2>1, <2>2, <2>3
<1> QED BY <1>5, <1>6, <1>7, <1>8, <1>9, <1>10 DEF OpenInv

\* An overlap is marked, and never forgotten.
LEMMA Marked ==
    ASSUME NEW w \in Workers, NEW p \in Posts, MarkOverlap(w, p)
    PROVE /\ overlapped \subseteq overlapped' /\ overlapped' \subseteq overlapped \cup {p}
          /\ p \notin overlapped' => \A v \in Workers \ {w} : ~Engaged(v, p)
          /\ overlapped \in SUBSET Posts => overlapped' \in SUBSET Posts
BY DEF MarkOverlap, Others, Engaged

\* A text is not a missing key, and the mirror of an open post is not missing.
LEMMA OpenIsAText ==
    \A text \in Texts : text # None /\ Open(text) # None
<1> TAKE text \in Texts
<1>1. Open(text) \in [closed : BOOLEAN, text : Texts]
  BY DEF Open
<1> QED BY <1>1, OpenPostAssumption

\* An edit changes the text of a mirror and nothing else.
LEMMA Retexted ==
    ASSUME NEW old \in Texts, NEW new \in Texts
    PROVE [Open(old) EXCEPT !.text = new] = Open(new)
<1> DEFINE m == [Open(old) EXCEPT !.text = new]
<1>1. Open(old) \in [closed : BOOLEAN, text : Texts] /\ Open(old).closed = FALSE
  BY DEF Open
<1>2. m \in [closed : BOOLEAN, text : Texts] /\ m.closed = FALSE /\ m.text = new
  BY <1>1
<1> HIDE DEF m
<1>3. m = [closed |-> m.closed, text |-> m.text]
  BY <1>2
<1>4. m = Open(new)
  BY <1>2, <1>3 DEF Open
<1> QED BY <1>4 DEF m

\* The body of a new post is stored.
LEMMA StoreKeeps ==
    ASSUME OpenInv, NEW c \in Clients, Store(c) PROVE OpenInv'
<1> USE OpenPostAssumption
<1>0. task[c].post \in Posts /\ task[c].text \in Texts /\ c \in Workers
  BY DEF Store, OpenInv, TypeOK, Tasks, Workers, Step
<1>1. PICK p \in Posts, x \in Texts : p = task[c].post /\ x = task[c].text
  BY <1>0
<1>2. Step(c) = "store" /\ c \in online /\ own[c] = NoPost /\ Engaged(c, p)
  BY <1>1 DEF Store, OpenInv, Tasks, Engaged, Step
<1>3. /\ bolt' = [bolt EXCEPT ![p] = x]
      /\ own' = [own EXCEPT ![c] = [post |-> p, text |-> x]]
      /\ task' = [task EXCEPT ![c] = [step |-> "announce", post |-> p, text |-> x,
                                      late |-> task[c].late]]
      /\ UNCHANGED <<row, age, online, mirror, starting, sweep, overlapped, crashes>>
  BY <1>1 DEF Store, Do
<1>4. TypeOK'
  BY <1>0, <1>3 DEF OpenInv, TypeOK
<1>5. Tasks'
  BY <1>0, <1>2, <1>3 DEF OpenInv, TypeOK, Tasks, Step
<1>6. LocalStep(c, p)
  <2>1. row'[p].state # "none"
    BY <1>0, <1>2, <1>3 DEF OpenInv, Absent
  <2>2. p \notin overlapped' => \A v \in Workers \ {c} : ~Engaged(v, p)
    BY <1>0, <1>2, <1>3 DEF OpenInv, Solo
  <2>3. Only(c, p) /\ Only(c, p)'
    BY <1>1, <1>2, <1>3 DEF Only, NoPost, OpenInv, TypeOK
  <2> QED
    BY <1>3, <2>1, <2>2, <2>3 DEF LocalStep, OpenInv, TypeOK
<1>7. p \notin overlapped' => LocalOK(c, p)'
  <2> SUFFICES ASSUME p \notin overlapped PROVE LocalOK(c, p)'
    BY <1>3
  <2>1. CallOK(c, p)
    BY <1>0, <1>1 DEF OpenInv, Called
  <2>2. CallOK(c, p)'
    BY <1>0, <1>2, <1>3, <2>1 DEF CallOK, Step, OpenInv, TypeOK
  <2> QED
    BY <1>0, <1>2, <1>3, <2>2
       DEF LocalOK, OwnOK, MirrorOK, Step, OpenInv, TypeOK, FeedFree, Starts
<1> QED BY <1>0, <1>4, <1>5, <1>6, <1>7, LocalKeeps

\* The feed is told of a new post.
LEMMA AnnounceKeeps ==
    ASSUME OpenInv, NEW c \in Clients, Announce(c) PROVE OpenInv'
<1> USE OpenPostAssumption
<1>0. task[c].post \in Posts /\ task[c].text \in Texts /\ c \in Workers
  BY DEF Announce, OpenInv, TypeOK, Tasks, Workers, Step
<1>1. PICK p \in Posts, x \in Texts : p = task[c].post /\ x = task[c].text
  BY <1>0
<1>2. Step(c) = "announce" /\ c \in online /\ own[c] = [post |-> p, text |-> x]
  BY <1>0, <1>1 DEF Announce, OpenInv, Tasks, Step, NoPost
<1>3. /\ mirror' = [mirror EXCEPT ![p] = Open(x)]
      /\ task' = [task EXCEPT ![c] = NoTask]
      /\ UNCHANGED <<row, age, bolt, own, online, starting, sweep, overlapped, crashes>>
  BY <1>0, <1>1, <1>2 DEF Announce, Done
<1>4. /\ overlapped' = overlapped
      /\ p \notin overlapped' => \A v \in Workers \ {c} : ~Engaged(v, p)
  BY <1>0, <1>1, <1>2, <1>3 DEF OpenInv, Solo, Engaged
<1>5. TypeOK'
  BY <1>0, <1>1, <1>2, <1>3, <1>4 DEF OpenInv, TypeOK, Open, BoltText, NoTask, NoPost
<1>6. Tasks'
  BY <1>0, <1>1, <1>2, <1>3 DEF OpenInv, TypeOK, Tasks, Step, NoTask, NoPost, Workers
<1>7. LocalStep(c, p)
  <2>1. row'[p].state # "none"
    BY <1>0, <1>1, <1>2, <1>3 DEF OpenInv, TypeOK, Absent, Engaged
  <2>2. Only(c, p) /\ Only(c, p)'
    BY <1>1, <1>2, <1>3 DEF Only, NoPost, NoTask, OpenInv, TypeOK, Workers
  <2> QED BY <1>0, <1>3, <1>4, <2>1, <2>2 DEF LocalStep, OpenInv, TypeOK
<1>8. ASSUME p \notin overlapped' PROVE LocalOK(c, p)'
  <2>0. p \notin overlapped /\ FeedFree
    BY <1>2, <1>4, <1>8 DEF OpenInv, Starts
  <2>1. CallOK(c, p)
    BY <1>0, <1>1, <2>0 DEF OpenInv, Called
  <2>2. row[p].state = "open" /\ bolt[p] = x
    BY <1>0, <1>1, <1>2, <2>1 DEF CallOK
  <2>10. /\ row'[p].state = "open" /\ bolt'[p] = x /\ x \in Texts
         /\ own'[c].text = x /\ mirror'[p] = Open(x)
    BY <1>0, <1>1, <1>2, <1>3, <2>2 DEF OpenInv, TypeOK, BoltText, Open
  <2>11. task'[c].post # p
    BY <1>0, <1>1, <1>3 DEF NoTask, OpenInv, TypeOK
  <2>12. Agrees(p)'
    BY <2>10, OpenIsAText DEF Agrees, BoltText
  <2>13. OwnOK(c, p)'
    BY <2>10, OpenIsAText DEF OwnOK, BoltText
  <2>14. FeedFree' /\ (FeedUp' => FeedUp)
    BY <1>3, <2>0 DEF FeedFree, FeedUp, FeedRuns
  <2> QED BY <2>11, <2>12, <2>13, <2>14 DEF LocalOK
<1> QED BY <1>0, <1>5, <1>6, <1>7, <1>8, LocalKeeps

\* The text of an edit is stored.
LEMMA SaveKeeps ==
    ASSUME OpenInv, NEW c \in Clients, Save(c) PROVE OpenInv'
<1> USE OpenPostAssumption
<1>0. task[c].post \in Posts /\ task[c].text \in Texts /\ c \in Workers
  BY DEF Save, OpenInv, TypeOK, Tasks, Workers, Step
<1>1. PICK p \in Posts, x \in Texts : p = task[c].post /\ x = task[c].text
  BY <1>0
<1>2. Step(c) = "save" /\ c \in online /\ own[c] = [post |-> p, text |-> x]
  BY <1>0, <1>1 DEF Save, OpenInv, Tasks, Step, NoPost
<1>3. /\ bolt' = [bolt EXCEPT ![p] = x]
      /\ task' = [task EXCEPT ![c] = NoTask]
      /\ UNCHANGED <<row, age, own, online, mirror, starting, sweep, overlapped, crashes>>
  BY <1>0, <1>1, <1>2 DEF Save, Done
<1>4. /\ overlapped' = overlapped
      /\ p \notin overlapped' => \A v \in Workers \ {c} : ~Engaged(v, p)
  BY <1>0, <1>1, <1>2, <1>3 DEF OpenInv, Solo, Engaged
<1>5. TypeOK'
  BY <1>0, <1>1, <1>2, <1>3, <1>4 DEF OpenInv, TypeOK, Open, BoltText, NoTask, NoPost
<1>6. Tasks'
  BY <1>0, <1>1, <1>2, <1>3 DEF OpenInv, TypeOK, Tasks, Step, NoTask, NoPost, Workers
<1>7. LocalStep(c, p)
  <2>1. row'[p].state # "none"
    BY <1>0, <1>1, <1>2, <1>3 DEF OpenInv, TypeOK, Absent, Engaged
  <2>2. Only(c, p) /\ Only(c, p)'
    BY <1>1, <1>2, <1>3 DEF Only, NoPost, NoTask, OpenInv, TypeOK, Workers
  <2> QED BY <1>0, <1>3, <1>4, <2>1, <2>2 DEF LocalStep, OpenInv, TypeOK
<1>8. ASSUME p \notin overlapped' PROVE LocalOK(c, p)'
  <2>0. p \notin overlapped /\ FeedFree
    BY <1>2, <1>4, <1>8 DEF OpenInv, Starts
  <2>1. CallOK(c, p)
    BY <1>0, <1>1, <2>0 DEF OpenInv, Called
  <2>2. row[p].state = "open" /\ mirror[p] = Open(x)
    BY <1>0, <1>1, <1>2, <2>1 DEF CallOK
  <2>10. /\ row'[p].state = "open" /\ bolt'[p] = x /\ x \in Texts
         /\ own'[c].text = x /\ mirror'[p] = Open(x)
    BY <1>0, <1>1, <1>2, <1>3, <2>2 DEF OpenInv, TypeOK, BoltText, Open
  <2>11. task'[c].post # p
    BY <1>0, <1>1, <1>3 DEF NoTask, OpenInv, TypeOK
  <2>12. Agrees(p)'
    BY <2>10, OpenIsAText DEF Agrees, BoltText
  <2>13. OwnOK(c, p)'
    BY <2>10, OpenIsAText DEF OwnOK, BoltText
  <2>14. FeedFree' /\ (FeedUp' => FeedUp)
    BY <1>3, <2>0 DEF FeedFree, FeedUp, FeedRuns
  <2> QED BY <2>11, <2>12, <2>13, <2>14 DEF LocalOK
<1> QED BY <1>0, <1>5, <1>6, <1>7, <1>8, LocalKeeps

\* An owner has its post back.
LEMMA LoadKeeps ==
    ASSUME OpenInv, NEW c \in Clients, Load(c) PROVE OpenInv'
<1> USE OpenPostAssumption
<1>0. task[c].post \in Posts /\ task[c].text \in Texts /\ c \in Workers
  BY DEF Load, OpenInv, TypeOK, Tasks, Workers, Step
<1>1. PICK p \in Posts, x \in Texts : p = task[c].post /\ x = task[c].text
  BY <1>0
<1>2. Step(c) = "load" /\ c \in online /\ own[c] = NoPost
  BY <1>0, <1>1 DEF Load, OpenInv, Tasks, Step, NoPost
<1>3. /\ own' = [own EXCEPT ![c] = [post |-> p, text |-> BoltText(p)]]
      /\ mirror' = [mirror EXCEPT ![p] = Open(BoltText(p))]
      /\ task' = [task EXCEPT ![c] = NoTask]
      /\ UNCHANGED <<row, age, bolt, online, starting, sweep, crashes>>
  BY <1>0, <1>1, <1>2 DEF Load, Done
<1>4. /\ overlapped \subseteq overlapped' /\ overlapped' \in SUBSET Posts
      /\ overlapped' \subseteq overlapped \cup {p}
      /\ p \notin overlapped' => \A v \in Workers \ {c} : ~Engaged(v, p)
  BY <1>0, <1>1, Marked DEF Load, OpenInv, TypeOK
<1>5. TypeOK'
  BY <1>0, <1>1, <1>2, <1>3, <1>4 DEF OpenInv, TypeOK, Open, BoltText, NoTask, NoPost
<1>6. Tasks'
  BY <1>0, <1>1, <1>2, <1>3 DEF OpenInv, TypeOK, Tasks, Step, NoTask, NoPost, Workers
<1>7. LocalStep(c, p)
  <2>1. row'[p].state # "none"
    BY <1>0, <1>1, <1>2, <1>3 DEF OpenInv, TypeOK, Absent, Engaged
  <2>2. Only(c, p) /\ Only(c, p)'
    BY <1>1, <1>2, <1>3 DEF Only, NoPost, NoTask, OpenInv, TypeOK, Workers
  <2> QED BY <1>0, <1>3, <1>4, <2>1, <2>2 DEF LocalStep, OpenInv, TypeOK
<1>8. ASSUME p \notin overlapped' PROVE LocalOK(c, p)'
  <2>0. p \notin overlapped /\ FeedFree
    BY <1>2, <1>4, <1>8 DEF OpenInv, Starts
  <2>1. CallOK(c, p)
    BY <1>0, <1>1, <2>0 DEF OpenInv, Called
  <2>2. row[p].state = "open"
    BY <1>0, <1>1, <1>2, <2>1 DEF CallOK
  <2>10. /\ row'[p].state = "open" /\ bolt'[p] = bolt[p] /\ BoltText(p) \in Texts
         /\ own'[c].text = BoltText(p) /\ mirror'[p] = Open(BoltText(p))
    BY <1>0, <1>1, <1>2, <1>3, <2>2 DEF OpenInv, TypeOK, BoltText, Open
  <2>11. task'[c].post # p
    BY <1>0, <1>1, <1>3 DEF NoTask, OpenInv, TypeOK
  <2>12. Agrees(p)'
    BY <2>10, OpenIsAText DEF Agrees, BoltText
  <2>13. OwnOK(c, p)'
    BY <2>10, OpenIsAText DEF OwnOK, BoltText
  <2>14. FeedFree' /\ (FeedUp' => FeedUp)
    BY <1>3, <2>0 DEF FeedFree, FeedUp, FeedRuns
  <2> QED BY <2>11, <2>12, <2>13, <2>14 DEF LocalOK
<1> QED BY <1>0, <1>5, <1>6, <1>7, <1>8, LocalKeeps

\* An owner closes its post.
LEMMA CloseKeeps ==
    ASSUME OpenInv, NEW c \in Clients, Close(c) PROVE OpenInv'
<1> USE OpenPostAssumption
<1>0. own[c].post \in Posts /\ own[c].text \in Texts /\ c \in Workers
  BY DEF Close, OpenInv, TypeOK, Workers
<1>1. PICK p \in Posts, x \in Texts : p = own[c].post /\ x = own[c].text
  BY <1>0
<1>2. Step(c) = "idle" /\ task[c].post = None /\ c \in online
  BY <1>0, <1>1 DEF Close, Ready, OpenInv, Tasks, Step
<1>3. /\ task' = [task EXCEPT ![c] = [step |-> "commit", post |-> p, text |-> x,
                                      late |-> task[c].late]]
      /\ UNCHANGED <<row, age, bolt, own, online, mirror, starting, sweep, overlapped, crashes>>
  BY <1>0, <1>1, <1>2 DEF Close, Do
<1>4. /\ overlapped' = overlapped
      /\ p \notin overlapped' => \A v \in Workers \ {c} : ~Engaged(v, p)
  BY <1>0, <1>1, <1>2, <1>3 DEF OpenInv, Solo, Engaged
<1>5. TypeOK'
  BY <1>0, <1>1, <1>2, <1>3, <1>4 DEF OpenInv, TypeOK, Open, BoltText, NoTask, NoPost
<1>6. Tasks'
  BY <1>0, <1>1, <1>2, <1>3 DEF OpenInv, TypeOK, Tasks, Step, NoTask, NoPost, Workers
<1>7. LocalStep(c, p)
  <2>1. row'[p].state # "none"
    BY <1>0, <1>1, <1>2, <1>3 DEF OpenInv, TypeOK, Absent, Engaged
  <2>2. Only(c, p) /\ Only(c, p)'
    BY <1>1, <1>2, <1>3 DEF Only, NoPost, NoTask, OpenInv, TypeOK, Workers
  <2> QED BY <1>0, <1>3, <1>4, <2>1, <2>2 DEF LocalStep, OpenInv, TypeOK
<1>8. ASSUME p \notin overlapped' PROVE LocalOK(c, p)'
  <2>0. p \notin overlapped /\ FeedFree
    BY <1>2, <1>4, <1>8 DEF OpenInv, Starts
  <2>1. Quiet(p)
    BY <1>0, <1>1, <1>2, <1>4, <1>8 DEF Quiet, Engaged, OpenInv, TypeOK, Tasks, Step
  <2>2. FeedUp => Agrees(p)
    BY <2>0, <2>1 DEF OpenInv, Mirrored
  <2>3. OwnOK(c, p)
    BY <1>0, <1>1, <2>0 DEF OpenInv, Owned
  <2>4. row[p].state = "open" /\ BoltText(p) = x
    BY <1>1, <1>2, <2>3 DEF OwnOK
  <2>11. CallOK(c, p)'
    BY <1>0, <1>1, <1>2, <1>3, <2>2, <2>3, <2>4 DEF CallOK, Step, BoltText, Open, OpenInv, TypeOK
  <2>12. FeedUp => MirrorOK(c, p)'
    BY <1>0, <1>1, <1>3, <2>2, <2>3, <2>4 DEF MirrorOK, Agrees, Step, BoltText, Open,
                                              OpenInv, TypeOK
  <2>13. OwnOK(c, p)'
    BY <1>0, <1>1, <1>2, <1>3, <2>2, <2>3, <2>4 DEF OwnOK, Step, BoltText, Open, OpenInv, TypeOK
  <2>14. FeedFree' /\ (FeedUp' => FeedUp)
    BY <1>3, <2>0 DEF FeedFree, FeedUp, FeedRuns
  <2>15. task'[c].post = p
    BY <1>0, <1>3 DEF OpenInv, TypeOK
  <2> QED BY <2>11, <2>12, <2>13, <2>14, <2>15 DEF LocalOK
<1> QED BY <1>0, <1>5, <1>6, <1>7, <1>8, LocalKeeps

\* An owner edits its post.
LEMMA EditKeeps ==
    ASSUME OpenInv, NEW c \in Clients, NEW text \in Texts, Edit(c, text) PROVE OpenInv'
<1> USE OpenPostAssumption
<1>0. own[c].post \in Posts /\ own[c].text \in Texts /\ c \in Workers
  BY DEF Edit, OpenInv, TypeOK, Workers
<1>1. PICK p \in Posts, x \in Texts : p = own[c].post /\ x = own[c].text
  BY <1>0
<1>2. Step(c) = "idle" /\ task[c].post = None /\ c \in online
  BY <1>0, <1>1 DEF Edit, Ready, OpenInv, Tasks, Step
<1>3. /\ own' = [own EXCEPT ![c].text = text]
      /\ mirror' = [mirror EXCEPT ![p] =
             IF mirror[p] = None THEN Open(text) ELSE [mirror[p] EXCEPT !.text = text]]
      /\ task' = [task EXCEPT ![c] = [step |-> "save", post |-> p, text |-> text,
                                      late |-> task[c].late]]
      /\ UNCHANGED <<row, age, bolt, online, starting, sweep, crashes>>
  BY <1>0, <1>1, <1>2 DEF Edit, Do
<1>4. /\ overlapped \subseteq overlapped' /\ overlapped' \in SUBSET Posts
      /\ overlapped' \subseteq overlapped \cup {p}
      /\ p \notin overlapped' => \A v \in Workers \ {c} : ~Engaged(v, p)
  BY <1>0, <1>1, Marked DEF Edit, OpenInv, TypeOK
<1>5. TypeOK'
  BY <1>0, <1>1, <1>2, <1>3, <1>4 DEF OpenInv, TypeOK, Open, BoltText, NoTask, NoPost
<1>6. Tasks'
  BY <1>0, <1>1, <1>2, <1>3 DEF OpenInv, TypeOK, Tasks, Step, NoTask, NoPost, Workers
<1>7. LocalStep(c, p)
  <2>1. row'[p].state # "none"
    BY <1>0, <1>1, <1>2, <1>3 DEF OpenInv, TypeOK, Absent, Engaged
  <2>2. Only(c, p) /\ Only(c, p)'
    BY <1>1, <1>2, <1>3 DEF Only, NoPost, NoTask, OpenInv, TypeOK, Workers
  <2> QED BY <1>0, <1>3, <1>4, <2>1, <2>2 DEF LocalStep, OpenInv, TypeOK
<1>8. ASSUME p \notin overlapped' PROVE LocalOK(c, p)'
  <2>0. p \notin overlapped /\ FeedFree
    BY <1>2, <1>4, <1>8 DEF OpenInv, Starts
  <2>1. Quiet(p)
    BY <1>0, <1>1, <1>2, <1>4, <1>8 DEF Quiet, Engaged, OpenInv, TypeOK, Tasks, Step
  <2>2. FeedUp => Agrees(p)
    BY <2>0, <2>1 DEF OpenInv, Mirrored
  <2>3. OwnOK(c, p)
    BY <1>0, <1>1, <2>0 DEF OpenInv, Owned
  <2>4. mirror[p] = Open(BoltText(p)) /\ row[p].state = "open"
    BY <1>2, <2>0, <2>2, <2>3 DEF Agrees, OwnOK, FeedUp, FeedRuns
  <2>5. BoltText(p) \in Texts
    BY OpenPostAssumption DEF BoltText, OpenInv, TypeOK
  <2>6. mirror'[p] = Open(text)
    <3>1. mirror[p] # None
      BY <2>4, <2>5, OpenIsAText
    <3>2. mirror'[p] = [mirror[p] EXCEPT !.text = text]
      BY <1>3, <3>1 DEF OpenInv, TypeOK
    <3> QED BY <2>4, <2>5, <3>2, Retexted
  <2>7. row'[p].state = "open" /\ task'[c].step = "save" /\ task'[c].text = text
    BY <1>0, <1>3, <2>4 DEF OpenInv, TypeOK
  <2>11. CallOK(c, p)'
    BY <2>6, <2>7 DEF CallOK, Step, Open
  <2>12. FeedUp => MirrorOK(c, p)'
    BY <1>0, <1>1, <1>3, <2>4 DEF MirrorOK, Agrees, Step, BoltText, Open,
                                              OpenInv, TypeOK
  <2>13. OwnOK(c, p)'
    BY <1>0, <1>1, <1>2, <1>3, <2>4 DEF OwnOK, Step, BoltText, Open, OpenInv, TypeOK
  <2>14. FeedFree' /\ (FeedUp' => FeedUp)
    BY <1>3, <2>0 DEF FeedFree, FeedUp, FeedRuns
  <2>15. task'[c].post = p
    BY <1>0, <1>3 DEF OpenInv, TypeOK
  <2> QED BY <2>11, <2>12, <2>13, <2>14, <2>15 DEF LocalOK
<1> QED BY <1>0, <1>5, <1>6, <1>7, <1>8, LocalKeeps

\* A client reclaims a post.
LEMMA ReclaimKeeps ==
    ASSUME OpenInv, NEW c \in Clients, NEW p \in Posts, Reclaim(c, p) PROVE OpenInv'
<1> USE OpenPostAssumption
<1>0. c \in Workers
  BY DEF Workers
<1>1. p \in Posts
  OBVIOUS
<1>2. /\ Step(c) = "idle" /\ task[c].post = None /\ c \in online
      /\ own[c] = NoPost /\ row[p].state = "open"
  BY <1>0, <1>1 DEF Reclaim, Ready, OpenInv, Tasks, Step
<1>3. /\ task' = [task EXCEPT ![c] = [step |-> "load", post |-> p, text |-> Empty,
                                      late |-> task[c].late]]
      /\ UNCHANGED <<row, age, bolt, own, online, mirror, starting, sweep, crashes>>
  BY <1>0, <1>1, <1>2 DEF Reclaim, Do
<1>4. /\ overlapped \subseteq overlapped' /\ overlapped' \in SUBSET Posts
      /\ overlapped' \subseteq overlapped \cup {p}
      /\ p \notin overlapped' => \A v \in Workers \ {c} : ~Engaged(v, p)
  BY <1>0, <1>1, Marked DEF Reclaim, OpenInv, TypeOK
<1>5. TypeOK'
  BY <1>0, <1>1, <1>2, <1>3, <1>4 DEF OpenInv, TypeOK, Open, BoltText, NoTask, NoPost
<1>6. Tasks'
  BY <1>0, <1>1, <1>2, <1>3 DEF OpenInv, TypeOK, Tasks, Step, NoTask, NoPost, Workers
<1>7. LocalStep(c, p)
  <2>1. row'[p].state # "none"
    BY <1>0, <1>1, <1>2, <1>3 DEF OpenInv, TypeOK, Absent, Engaged
  <2>2. Only(c, p) /\ Only(c, p)'
    BY <1>1, <1>2, <1>3 DEF Only, NoPost, NoTask, OpenInv, TypeOK, Workers
  <2> QED BY <1>0, <1>3, <1>4, <2>1, <2>2 DEF LocalStep, OpenInv, TypeOK
<1>8. ASSUME p \notin overlapped' PROVE LocalOK(c, p)'
  <2>0. p \notin overlapped /\ FeedFree
    BY <1>2, <1>4, <1>8 DEF OpenInv, Starts
  <2>1. Quiet(p)
    BY <1>0, <1>1, <1>2, <1>4, <1>8 DEF Quiet, Engaged, OpenInv, TypeOK, Tasks, Step
  <2>2. FeedUp => Agrees(p)
    BY <2>0, <2>1 DEF OpenInv, Mirrored
  <2>11. CallOK(c, p)'
    BY <1>0, <1>1, <1>2, <1>3, <2>2 DEF CallOK, Step, BoltText, Open, OpenInv, TypeOK
  <2>12. FeedUp => MirrorOK(c, p)'
    BY <1>0, <1>1, <1>3, <2>2 DEF MirrorOK, Agrees, Step, BoltText, Open,
                                              OpenInv, TypeOK
  <2>13. own'[c].post # p
    BY <1>1, <1>2, <1>3 DEF NoPost
  <2>14. FeedFree' /\ (FeedUp' => FeedUp)
    BY <1>3, <2>0 DEF FeedFree, FeedUp, FeedRuns
  <2>15. task'[c].post = p
    BY <1>0, <1>3 DEF OpenInv, TypeOK
  <2> QED BY <2>11, <2>12, <2>13, <2>14, <2>15 DEF LocalOK
<1> QED BY <1>0, <1>5, <1>6, <1>7, <1>8, LocalKeeps

\* The row of a new post is committed.
LEMMA CreateKeeps ==
    ASSUME OpenInv, NEW c \in Clients, NEW p \in Posts, NEW text \in Texts, Create(c, p, text)
    PROVE OpenInv'
<1> USE OpenPostAssumption
<1>0. c \in Workers
  BY DEF Workers
<1>1. p \in Posts
  OBVIOUS
<1>2. /\ Step(c) = "idle" /\ task[c].post = None /\ c \in online
      /\ own[c] = NoPost /\ row[p].state = "none"
  BY <1>0, <1>1 DEF Create, Ready, OpenInv, Tasks, Step
<1>3. /\ row' = [row EXCEPT ![p] = [state |-> "open", body |-> text]]
      /\ task' = [task EXCEPT ![c] = [step |-> "store", post |-> p, text |-> text,
                                      late |-> task[c].late]]
      /\ UNCHANGED <<age, bolt, own, online, mirror, starting, sweep, overlapped, crashes>>
  BY <1>0, <1>1, <1>2 DEF Create, Do
<1>4. /\ overlapped' = overlapped
      /\ p \notin overlapped' => \A v \in Workers \ {c} : ~Engaged(v, p)
  BY <1>0, <1>1, <1>2, <1>3 DEF OpenInv, Absent
<1>5. TypeOK'
  BY <1>0, <1>1, <1>2, <1>3, <1>4 DEF OpenInv, TypeOK, Open, BoltText, NoTask, NoPost
<1>6. Tasks'
  BY <1>0, <1>1, <1>2, <1>3 DEF OpenInv, TypeOK, Tasks, Step, NoTask, NoPost, Workers
<1>7. LocalStep(c, p)
  <2>1. row'[p].state # "none"
    BY <1>0, <1>1, <1>2, <1>3 DEF OpenInv, TypeOK, Absent, Engaged
  <2>2. Only(c, p) /\ Only(c, p)'
    BY <1>1, <1>2, <1>3 DEF Only, NoPost, NoTask, OpenInv, TypeOK, Workers
  <2> QED BY <1>0, <1>3, <1>4, <2>1, <2>2 DEF LocalStep, OpenInv, TypeOK
<1>8. ASSUME p \notin overlapped' PROVE LocalOK(c, p)'
  <2>0. p \notin overlapped /\ FeedFree
    BY <1>2, <1>4, <1>8 DEF OpenInv, Starts
  <2>1. bolt[p] = None /\ mirror[p] = None
    BY <1>2 DEF OpenInv, Absent, FeedRuns
  <2>11. CallOK(c, p)'
    BY <1>0, <1>1, <1>2, <1>3, <2>1 DEF CallOK, Step, BoltText, Open, OpenInv, TypeOK
  <2>12. FeedUp => MirrorOK(c, p)'
    BY <1>0, <1>1, <1>3, <2>1 DEF MirrorOK, Agrees, Step, BoltText, Open,
                                              OpenInv, TypeOK
  <2>13. own'[c].post # p
    BY <1>1, <1>2, <1>3 DEF NoPost
  <2>14. FeedFree' /\ (FeedUp' => FeedUp)
    BY <1>3, <2>0 DEF FeedFree, FeedUp, FeedRuns
  <2>15. task'[c].post = p
    BY <1>0, <1>3 DEF OpenInv, TypeOK
  <2> QED BY <2>11, <2>12, <2>13, <2>14, <2>15 DEF LocalOK
<1> QED BY <1>0, <1>5, <1>6, <1>7, <1>8, LocalKeeps

\* The row of a post is closed.
LEMMA CommitKeeps ==
    ASSUME OpenInv, NEW w \in Workers, Commit(w) PROVE OpenInv'
<1> USE OpenPostAssumption
<1>0. task[w].post \in Posts /\ task[w].text \in Texts
  BY DEF Commit, OpenInv, TypeOK, Tasks, Workers, Step
<1>1. PICK p \in Posts, x \in Texts : p = task[w].post /\ x = task[w].text
  BY <1>0
<1>2. Step(w) = "commit" /\ (w \in Clients => own[w] = [post |-> p, text |-> x])
  BY <1>0, <1>1 DEF Commit, OpenInv, Tasks, Step
<1>3. /\ row' = [row EXCEPT ![p] = [state |-> "closed", body |-> x]]
      /\ task' = [task EXCEPT ![w] = [step |-> "tell", post |-> p, text |-> x,
                                      late |-> task[w].late]]
      /\ UNCHANGED <<age, bolt, own, online, mirror, starting, sweep, crashes>>
  BY <1>0, <1>1, <1>2 DEF Commit, Do
<1>4. /\ overlapped \subseteq overlapped' /\ overlapped' \in SUBSET Posts
      /\ overlapped' \subseteq overlapped \cup {p}
      /\ p \notin overlapped' => \A v \in Workers \ {w} : ~Engaged(v, p)
  BY <1>0, <1>1, Marked DEF Commit, OpenInv, TypeOK
<1>5. TypeOK'
  BY <1>0, <1>1, <1>2, <1>3, <1>4 DEF OpenInv, TypeOK, Open, BoltText, NoTask, NoPost
<1>6. Tasks'
  BY <1>0, <1>1, <1>2, <1>3 DEF OpenInv, TypeOK, Tasks, Step, NoTask, NoPost, Workers
<1>7. LocalStep(w, p)
  <2>1. row'[p].state # "none"
    BY <1>0, <1>1, <1>2, <1>3 DEF OpenInv, TypeOK, Absent
  <2>2. Only(w, p) /\ Only(w, p)'
    BY <1>1, <1>2, <1>3 DEF Only, NoPost, NoTask, OpenInv, TypeOK, Workers
  <2> QED BY <1>0, <1>3, <1>4, <2>1, <2>2 DEF LocalStep, OpenInv, TypeOK
<1>8. ASSUME p \notin overlapped' PROVE LocalOK(w, p)'
  <2>0. p \notin overlapped
    BY <1>4, <1>8
  <2>1. CallOK(w, p)
    BY <1>0, <1>1, <2>0 DEF OpenInv, Called
  <2>2. ~FeedFree => online = {} /\ StartOK(p)
    BY <2>0 DEF OpenInv, Starts
  <2>3. FeedUp => MirrorOK(w, p)
    BY <1>0, <1>1, <2>0 DEF OpenInv, Mirrored
  <2>4. FeedUp' = FeedUp /\ FeedFree' = FeedFree
    BY <1>3 DEF FeedUp, FeedRuns, FeedFree
  <2>5. CallOK(w, p)'
    BY <1>0, <1>1, <1>2, <1>3, <2>1 DEF CallOK, Step, BoltText, OpenInv, TypeOK, NoTask
  <2>6. FeedUp => MirrorOK(w, p)'
    BY <1>0, <1>1, <1>2, <1>3, <2>1, <2>3
       DEF MirrorOK, Agrees, Told, CallOK, Step, BoltText, Open, OpenInv, TypeOK, NoTask
  <2>7. ~FeedFree => StartOK(p)'
    BY <1>0, <1>1, <1>2, <1>3, <2>1, <2>2
       DEF StartOK, CallOK, Step, OpenInv, TypeOK, Tasks, Workers, FeedFree
  <2> QED
    BY <1>0, <1>1, <1>2, <1>3, <2>4, <2>5, <2>6, <2>7
       DEF LocalOK, OwnOK, Step, OpenInv, TypeOK, NoTask, NoPost
<1> QED BY <1>0, <1>5, <1>6, <1>7, <1>8, LocalKeeps

\* The feed is told of the close, or has not been started.
LEMMA TellKeeps ==
    ASSUME OpenInv, NEW w \in Workers, Tell(w) PROVE OpenInv'
<1> USE OpenPostAssumption
<1>0. task[w].post \in Posts /\ task[w].text \in Texts
  BY DEF Tell, OpenInv, TypeOK, Tasks, Workers, Step
<1>1. PICK p \in Posts, x \in Texts : p = task[w].post /\ x = task[w].text
  BY <1>0
<1>2. Step(w) = "tell" /\ FeedFree /\ (w \in Clients => own[w] = [post |-> p, text |-> x])
  BY <1>0, <1>1 DEF Tell, OpenInv, Tasks, Step
<1>3. /\ mirror' = IF ~FeedRuns THEN mirror
                    ELSE [mirror EXCEPT ![p] =
                            IF mirror[p] = None THEN [closed |-> TRUE, text |-> Empty]
                            ELSE [mirror[p] EXCEPT !.closed = TRUE]]
      /\ task' = [task EXCEPT ![w] = [step |-> "forget", post |-> p, text |-> x,
                                      late |-> task[w].late]]
      /\ UNCHANGED <<row, age, bolt, own, online, starting, sweep, overlapped, crashes>>
  BY <1>0, <1>1, <1>2 DEF Tell, Do
<1>4. /\ overlapped' = overlapped
      /\ p \notin overlapped' => \A v \in Workers \ {w} : ~Engaged(v, p)
  BY <1>0, <1>1, <1>2, <1>3 DEF OpenInv, Solo, Engaged
<1>5. TypeOK'
  <2>1. mirror' \in [Posts -> [closed : BOOLEAN, text : Texts] \cup {None}]
    <3> DEFINE m == IF mirror[p] = None THEN [closed |-> TRUE, text |-> Empty]
                    ELSE [mirror[p] EXCEPT !.closed = TRUE]
    <3>1. mirror \in [Posts -> [closed : BOOLEAN, text : Texts] \cup {None}]
      BY DEF OpenInv, TypeOK
    <3>2. m \in [closed : BOOLEAN, text : Texts]
      BY <3>1
    <3>3. mirror' = mirror \/ mirror' = [mirror EXCEPT ![p] = m]
      BY <1>3
    <3> HIDE DEF m
    <3> QED BY <3>1, <3>2, <3>3
  <2>2. task' \in [Workers -> [step : {"idle", "store", "announce", "save", "load",
                                    "commit", "tell", "forget"},
                            post : Posts \cup {None}, text : Texts, late : BOOLEAN]]
    BY <1>0, <1>1, <1>3 DEF OpenInv, TypeOK
  <2> QED BY <1>3, <2>1, <2>2 DEF OpenInv, TypeOK
<1>6. Tasks'
  BY <1>0, <1>1, <1>2, <1>3 DEF OpenInv, TypeOK, Tasks, Step, NoTask, NoPost, Workers
<1>7. LocalStep(w, p)
  <2>1. row'[p].state # "none"
    BY <1>0, <1>1, <1>2, <1>3 DEF OpenInv, TypeOK, Absent, Engaged
  <2>2. Only(w, p) /\ Only(w, p)'
    BY <1>1, <1>2, <1>3 DEF Only, NoPost, NoTask, OpenInv, TypeOK, Workers
  <2> QED BY <1>0, <1>3, <1>4, <2>1, <2>2 DEF LocalStep, OpenInv, TypeOK
<1>8. ASSUME p \notin overlapped' PROVE LocalOK(w, p)'
  <2>0. p \notin overlapped
    BY <1>4, <1>8
  <2>1. CallOK(w, p)
    BY <1>0, <1>1, <2>0 DEF OpenInv, Called
  <2>2. ~FeedFree => online = {} /\ StartOK(p)
    BY <2>0 DEF OpenInv, Starts
  <2>3. FeedUp => MirrorOK(w, p)
    BY <1>0, <1>1, <2>0 DEF OpenInv, Mirrored
  <2>4. FeedUp' = FeedUp /\ FeedFree' = FeedFree
    BY <1>3 DEF FeedUp, FeedRuns, FeedFree
  <2>5. CallOK(w, p)'
    BY <1>0, <1>1, <1>2, <1>3, <2>1 DEF CallOK, Step, BoltText, OpenInv, TypeOK, NoTask
  <2>6. FeedUp => MirrorOK(w, p)'
    <3> SUFFICES ASSUME FeedUp PROVE Agrees(p)'
      BY <1>0, <1>3 DEF MirrorOK, Step, OpenInv, TypeOK
    <3>1. row[p] = [state |-> "closed", body |-> x] /\ Told(p, x)
      BY <1>1, <1>2, <2>1, <2>3 DEF CallOK, MirrorOK, Step
    <3>2. mirror'[p] = [closed |-> TRUE, text |-> x]
      BY <1>3, <3>1 DEF Told, FeedUp, OpenInv, TypeOK
    <3>3. mirror'[p] # None
      <4>1. [closed |-> TRUE, text |-> x] \in [closed : BOOLEAN, text : Texts]
        OBVIOUS
      <4> QED BY <3>2, <4>1
    <3> QED BY <1>3, <3>1, <3>2, <3>3 DEF Agrees
  <2>7. ~FeedFree => StartOK(p)'
    BY <1>0, <1>1, <1>2, <1>3, <2>1, <2>2
       DEF StartOK, CallOK, Step, OpenInv, TypeOK, Tasks, Workers, FeedFree
  <2> QED
    BY <1>0, <1>1, <1>2, <1>3, <2>4, <2>5, <2>6, <2>7
       DEF LocalOK, OwnOK, Step, OpenInv, TypeOK, NoTask, NoPost
<1> QED BY <1>0, <1>5, <1>6, <1>7, <1>8, LocalKeeps

\* The body of a closed post is deleted.
LEMMA ForgetKeeps ==
    ASSUME OpenInv, NEW w \in Workers, Forget(w) PROVE OpenInv'
<1> USE OpenPostAssumption
<1>0. task[w].post \in Posts /\ task[w].text \in Texts
  BY DEF Forget, OpenInv, TypeOK, Tasks, Workers, Step
<1>1. PICK p \in Posts, x \in Texts : p = task[w].post /\ x = task[w].text
  BY <1>0
<1>2. Step(w) = "forget" /\ (w \in Clients => own[w] = [post |-> p, text |-> x])
  BY <1>0, <1>1 DEF Forget, OpenInv, Tasks, Step
<1>3. /\ bolt' = [bolt EXCEPT ![p] = None]
      /\ own' = [c \in Clients |-> IF c = w THEN NoPost ELSE own[c]]
      /\ task' = [task EXCEPT ![w] = NoTask]
      /\ UNCHANGED <<row, age, online, mirror, starting, sweep, overlapped, crashes>>
  BY <1>0, <1>1, <1>2 DEF Forget, Done
<1>4. /\ overlapped' = overlapped
      /\ p \notin overlapped' => \A v \in Workers \ {w} : ~Engaged(v, p)
  BY <1>0, <1>1, <1>2, <1>3 DEF OpenInv, Solo, Engaged
<1>5. TypeOK'
  BY <1>0, <1>1, <1>2, <1>3, <1>4 DEF OpenInv, TypeOK, Open, BoltText, NoTask, NoPost
<1>6. Tasks'
  BY <1>0, <1>1, <1>2, <1>3 DEF OpenInv, TypeOK, Tasks, Step, NoTask, NoPost, Workers
<1>7. LocalStep(w, p)
  <2>1. row'[p].state # "none"
    BY <1>0, <1>1, <1>2, <1>3 DEF OpenInv, TypeOK, Absent, Engaged
  <2>2. Only(w, p) /\ Only(w, p)'
    BY <1>1, <1>2, <1>3 DEF Only, NoPost, NoTask, OpenInv, TypeOK, Workers
  <2> QED BY <1>0, <1>3, <1>4, <2>1, <2>2 DEF LocalStep, OpenInv, TypeOK
<1>8. ASSUME p \notin overlapped' PROVE LocalOK(w, p)'
  <2>0. p \notin overlapped
    BY <1>4, <1>8
  <2>1. CallOK(w, p)
    BY <1>0, <1>1, <2>0 DEF OpenInv, Called
  <2>2. ~FeedFree => online = {} /\ StartOK(p)
    BY <2>0 DEF OpenInv, Starts
  <2>3. FeedUp => MirrorOK(w, p)
    BY <1>0, <1>1, <2>0 DEF OpenInv, Mirrored
  <2>4. FeedUp' = FeedUp /\ FeedFree' = FeedFree
    BY <1>3 DEF FeedUp, FeedRuns, FeedFree
  <2>5. task'[w].post # p
    BY <1>0, <1>3 DEF NoTask, OpenInv, TypeOK
  <2>6. FeedUp => Agrees(p)'
    <3>1. row[p].state = "closed"
      BY <1>1, <1>2, <2>1 DEF CallOK
    <3>2. FeedUp => Agrees(p)
      BY <1>2, <2>3 DEF MirrorOK
    <3> QED BY <1>3, <3>1, <3>2 DEF Agrees
  <2>7. ~FeedFree => StartOK(p)'
    BY <1>0, <1>1, <1>2, <1>3, <2>1, <2>2
       DEF StartOK, CallOK, Step, OpenInv, TypeOK, Tasks, Workers, FeedFree
  <2> QED
    BY <1>0, <1>1, <1>2, <1>3, <2>4, <2>5, <2>6, <2>7
       DEF LocalOK, OwnOK, Step, OpenInv, TypeOK, NoTask, NoPost
<1> QED BY <1>0, <1>5, <1>6, <1>7, <1>8, LocalKeeps

\* The upkeep finds a post that was left open.
LEMMA CleanUpKeeps ==
    ASSUME OpenInv, NEW p \in Posts, CleanUp(p) PROVE OpenInv'
<1> USE OpenPostAssumption
<1>0. Cleaner \in Workers
  BY DEF Workers
<1>1. p \in Posts
  OBVIOUS
<1>2. Step(Cleaner) = "idle" /\ task[Cleaner].post = None /\ row[p].state = "open" /\ sweep = {}
  BY <1>0, <1>1 DEF CleanUp, UpkeepIdle, Dangles, OpenInv, Tasks, Step
<1>3. /\ task' = [task EXCEPT ![Cleaner] = [step |-> "load", post |-> p, text |-> Empty,
                                      late |-> task[Cleaner].late]]
      /\ UNCHANGED <<row, age, bolt, own, online, mirror, starting, sweep, crashes>>
  BY <1>0, <1>1, <1>2 DEF CleanUp, Do
<1>4. /\ overlapped \subseteq overlapped' /\ overlapped' \in SUBSET Posts
      /\ overlapped' \subseteq overlapped \cup {p}
      /\ p \notin overlapped' => \A v \in Workers \ {Cleaner} : ~Engaged(v, p)
  BY <1>0, <1>1, Marked DEF CleanUp, OpenInv, TypeOK
<1>5. TypeOK'
  BY <1>0, <1>1, <1>2, <1>3, <1>4 DEF OpenInv, TypeOK, Open, BoltText, NoTask, NoPost
<1>6. Tasks'
  BY <1>0, <1>1, <1>2, <1>3 DEF OpenInv, TypeOK, Tasks, Step, NoTask, NoPost, Workers
<1>7. LocalStep(Cleaner, p)
  <2>1. row'[p].state # "none"
    BY <1>0, <1>1, <1>2, <1>3 DEF OpenInv, TypeOK, Absent, Engaged
  <2>2. Only(Cleaner, p) /\ Only(Cleaner, p)'
    BY <1>1, <1>2, <1>3 DEF Only, NoPost, NoTask, OpenInv, TypeOK, Workers
  <2> QED BY <1>0, <1>3, <1>4, <2>1, <2>2 DEF LocalStep, OpenInv, TypeOK
<1>8. ASSUME p \notin overlapped' PROVE LocalOK(Cleaner, p)'
  <2>0. p \notin overlapped
    BY <1>4, <1>8
  <2>1. Quiet(p)
    BY <1>0, <1>2, <1>4, <1>8 DEF Quiet, Engaged
  <2>2. ~FeedFree => online = {} /\ StartOK(p)
    BY <2>0 DEF OpenInv, Starts
  <2>3. FeedUp => Agrees(p)
    BY <2>0, <2>1 DEF OpenInv, Mirrored
  <2>4. FeedUp' = FeedUp /\ FeedFree' = FeedFree
    BY <1>3 DEF FeedUp, FeedRuns, FeedFree
  <2>5. CallOK(Cleaner, p)'
    BY <1>0, <1>2, <1>3 DEF CallOK, Step, OpenInv, TypeOK
  <2>6. FeedUp => MirrorOK(Cleaner, p)'
    BY <1>0, <1>3, <2>3 DEF MirrorOK, Agrees, Step, BoltText, Open, OpenInv, TypeOK
  <2>7. ~FeedFree => StartOK(p)'
    BY <1>0, <1>2, <1>3, <2>2 DEF StartOK, Step
  <2> QED
    BY <1>0, <1>3, <2>4, <2>5, <2>6, <2>7 DEF LocalOK, OpenInv, TypeOK
<1> QED BY <1>0, <1>5, <1>6, <1>7, <1>8, LocalKeeps

\* The upkeep reads its body.
LEMMA ReadBodyKeeps ==
    ASSUME OpenInv, ReadBody PROVE OpenInv'
<1> USE OpenPostAssumption
<1>0. task[Cleaner].post \in Posts /\ task[Cleaner].text \in Texts /\ Cleaner \in Workers
  BY DEF ReadBody, OpenInv, TypeOK, Tasks, Workers, Step
<1>1. PICK p \in Posts, x \in Texts : p = task[Cleaner].post /\ x = task[Cleaner].text
  BY <1>0
<1>2. Step(Cleaner) = "load" /\ sweep = {}
  BY <1>0, <1>1 DEF ReadBody, OpenInv, Tasks, Step
<1>3. /\ task' = [task EXCEPT ![Cleaner] = [step |-> "commit", post |-> p, text |-> BoltText(p),
                                      late |-> task[Cleaner].late]]
      /\ UNCHANGED <<row, age, bolt, own, online, mirror, starting, sweep, crashes>>
  BY <1>0, <1>1, <1>2 DEF ReadBody, Do
<1>4. /\ overlapped \subseteq overlapped' /\ overlapped' \in SUBSET Posts
      /\ overlapped' \subseteq overlapped \cup {p}
      /\ p \notin overlapped' => \A v \in Workers \ {Cleaner} : ~Engaged(v, p)
  BY <1>0, <1>1, Marked DEF ReadBody, OpenInv, TypeOK
<1>5. TypeOK'
  BY <1>0, <1>1, <1>2, <1>3, <1>4 DEF OpenInv, TypeOK, Open, BoltText, NoTask, NoPost
<1>6. Tasks'
  BY <1>0, <1>1, <1>2, <1>3 DEF OpenInv, TypeOK, Tasks, Step, NoTask, NoPost, Workers
<1>7. LocalStep(Cleaner, p)
  <2>1. row'[p].state # "none"
    BY <1>0, <1>1, <1>2, <1>3 DEF OpenInv, TypeOK, Absent, Engaged
  <2>2. Only(Cleaner, p) /\ Only(Cleaner, p)'
    BY <1>1, <1>2, <1>3 DEF Only, NoPost, NoTask, OpenInv, TypeOK, Workers
  <2> QED BY <1>0, <1>3, <1>4, <2>1, <2>2 DEF LocalStep, OpenInv, TypeOK
<1>8. ASSUME p \notin overlapped' PROVE LocalOK(Cleaner, p)'
  <2>0. p \notin overlapped
    BY <1>4, <1>8
  <2>1. CallOK(Cleaner, p)
    BY <1>0, <1>1, <2>0 DEF OpenInv, Called
  <2>2. ~FeedFree => online = {} /\ StartOK(p)
    BY <2>0 DEF OpenInv, Starts
  <2>3. FeedUp => MirrorOK(Cleaner, p)
    BY <1>0, <1>1, <2>0 DEF OpenInv, Mirrored
  <2>4. FeedUp' = FeedUp /\ FeedFree' = FeedFree
    BY <1>3 DEF FeedUp, FeedRuns, FeedFree
  <2>5. CallOK(Cleaner, p)'
    BY <1>0, <1>1, <1>2, <1>3, <2>1 DEF CallOK, Step, BoltText, OpenInv, TypeOK, NoTask
  <2>6. FeedUp => MirrorOK(Cleaner, p)'
    BY <1>0, <1>1, <1>2, <1>3, <2>1, <2>3
       DEF MirrorOK, Agrees, Told, CallOK, Step, BoltText, Open, OpenInv, TypeOK, NoTask
  <2>7. ~FeedFree => StartOK(p)'
    BY <1>0, <1>1, <1>2, <1>3, <2>1, <2>2
       DEF StartOK, CallOK, Step, OpenInv, TypeOK, Tasks, Workers, FeedFree
  <2> QED
    BY <1>0, <1>1, <1>2, <1>3, <2>4, <2>5, <2>6, <2>7
       DEF LocalOK, OwnOK, Step, OpenInv, TypeOK, NoTask, NoPost
<1> QED BY <1>0, <1>5, <1>6, <1>7, <1>8, LocalKeeps

\* What holds of the rows, the bodies and the calls holds while they stay.
LEMMA SameKeeps ==
    ASSUME OpenInv, UNCHANGED <<row, bolt, own, mirror, task, overlapped>>, FeedRuns' => FeedRuns
    PROVE /\ Absent' /\ Solo' /\ Called' /\ Owned'
          /\ (FeedUp' => FeedUp) => Mirrored'
<1>1. Absent'
  BY DEF OpenInv, Absent, Engaged
<1>2. Solo'
  BY DEF OpenInv, Solo, Engaged
<1>3. Called'
  BY DEF OpenInv, Called, CallOK, Step, BoltText, Open
<1>4. Owned'
  BY DEF OpenInv, Owned, OwnOK, Step, BoltText
<1>5. ASSUME FeedUp' => FeedUp PROVE Mirrored'
  <2>1. \A p \in Posts : Agrees(p)' = Agrees(p) /\ Quiet(p)' = Quiet(p)
    BY DEF Agrees, Quiet, BoltText, Open
  <2>2. \A w \in Workers, p \in Posts : MirrorOK(w, p)' = MirrorOK(w, p)
    BY <2>1 DEF MirrorOK, Told, Step
  <2> QED BY <1>5, <2>1, <2>2 DEF OpenInv, Mirrored
<1> QED BY <1>1, <1>2, <1>3, <1>4, <1>5

\* The first client starts the feed.
LEMMA StartFeedKeeps ==
    ASSUME OpenInv, NEW c \in Clients, StartFeed(c) PROVE OpenInv'
<1> USE OpenPostAssumption
<1>1. online = {} /\ UNCHANGED <<row, age, bolt, own, online, mirror, task, sweep,
                                 overlapped, crashes>>
  BY DEF StartFeed, FeedRuns
<1>2. Absent' /\ Solo' /\ Called' /\ Owned' /\ Mirrored'
  BY <1>1, SameKeeps DEF FeedUp, FeedRuns
<1>3. TypeOK'
  <2>1. starting' \in [client : Clients \cup {None},
                       rows : [Posts -> {"none", "open", "closed"}]]
    <3>1. [p \in Posts |-> row[p].state] \in [Posts -> {"none", "open", "closed"}]
      BY DEF OpenInv, TypeOK
    <3> QED BY <3>1 DEF StartFeed
  <2> QED BY <1>1, <2>1 DEF OpenInv, TypeOK
<1>4. Tasks'
  BY <1>1 DEF OpenInv, Tasks, Step
<1>5. Starts'
  BY <1>1 DEF StartFeed, Starts, StartOK
<1> QED BY <1>2, <1>3, <1>4, <1>5 DEF OpenInv

\* Nobody but the upkeep is engaged with a post while a feed starts.
LEMMA OnlyTheUpkeep ==
    ASSUME OpenInv, online = {}
    PROVE /\ \A c \in Clients : own[c] = NoPost /\ task[c].post = None
          /\ \A w \in Workers : task[w].post # None =>
                 w = Cleaner /\ Step(w) \in {"load", "commit", "tell", "forget"}
<1>1. \A c \in Clients : own[c] = NoPost /\ task[c].post = None /\ c \in Workers
  BY DEF OpenInv, Tasks, Workers
<1>2. \A w \in Workers : w \in Clients \/ w = Cleaner
  BY DEF Workers
<1>3. Cleaner \in Workers /\ Step(Cleaner) \in {"idle", "load", "commit", "tell", "forget"}
  BY DEF Workers, OpenInv, Tasks, TypeOK, Step
<1> QED BY <1>1, <1>2, <1>3 DEF OpenInv, Tasks

\* The feed starts with what the stores hold, or with what it will be told.
LEMMA FeedStartedKeeps ==
    ASSUME OpenInv, FeedStarted PROVE OpenInv'
<1> USE OpenPostAssumption
<1>1. online = {} /\ \A p \in Posts \ overlapped : StartOK(p)
  BY DEF FeedStarted, OpenInv, Starts
<1>2. /\ \A c \in Clients : own[c] = NoPost /\ task[c].post = None
      /\ \A w \in Workers : task[w].post # None =>
             w = Cleaner /\ Step(w) \in {"load", "commit", "tell", "forget"}
  BY <1>1, OnlyTheUpkeep
<1>3. /\ UNCHANGED <<row, age, bolt, own, task, sweep, overlapped, crashes>>
      /\ starting.client \in Clients /\ online' = {starting.client}
      /\ starting' = NotStarting
  BY DEF FeedStarted, FeedFree, OpenInv, TypeOK
<1>4. ASSUME NEW p \in Posts
      PROVE mirror'[p] = CASE starting.rows[p] = "none"   -> None
                           [] starting.rows[p] = "open"   -> Open(BoltText(p))
                           [] starting.rows[p] = "closed" ->
                                [closed |-> TRUE, text |-> row[p].body]
  BY DEF FeedStarted
<1>5. ASSUME NEW p \in Posts
      PROVE starting.rows[p] \in {"none", "open", "closed"} /\ BoltText(p) \in Texts
            /\ row[p].state \in {"none", "open", "closed"} /\ row[p].body \in Texts
  BY DEF OpenInv, TypeOK, BoltText
<1>6. TypeOK'
  <2>1. ASSUME NEW p \in Posts
        PROVE mirror'[p] \in [closed : BOOLEAN, text : Texts] \cup {None}
    <3>1. Open(BoltText(p)) \in [closed : BOOLEAN, text : Texts]
      BY <1>5 DEF Open
    <3>2. [closed |-> TRUE, text |-> row[p].body] \in [closed : BOOLEAN, text : Texts]
      BY <1>5
    <3> QED BY <1>4, <1>5, <3>1, <3>2
  <2>2. mirror' \in [Posts -> [closed : BOOLEAN, text : Texts] \cup {None}]
    <3> DEFINE m(p) == CASE starting.rows[p] = "none"   -> None
                         [] starting.rows[p] = "open"   -> Open(BoltText(p))
                         [] starting.rows[p] = "closed" ->
                              [closed |-> TRUE, text |-> row[p].body]
    <3>1. mirror' = [p \in Posts |-> m(p)]
      BY DEF FeedStarted
    <3> HIDE DEF m
    <3>2. \A p \in Posts : m(p) \in [closed : BOOLEAN, text : Texts] \cup {None}
      BY <2>1, <3>1
    <3> QED BY <3>1, <3>2
  <2>3. starting' \in [client : Clients \cup {None},
                       rows : [Posts -> {"none", "open", "closed"}]]
    BY <1>3 DEF NotStarting
  <2> QED BY <1>3, <2>2, <2>3 DEF OpenInv, TypeOK
<1>7. Tasks'
  BY <1>1, <1>3 DEF OpenInv, Tasks, Step
<1>8. Absent'
  <2>1. ASSUME NEW p \in Posts, row[p].state = "none" PROVE mirror'[p] = None
    <3>1. p \notin overlapped
      BY <2>1 DEF OpenInv, Absent
    <3> QED BY <1>1, <1>4, <2>1, <3>1 DEF StartOK
  <2> QED BY <1>3, <2>1 DEF OpenInv, Absent, Engaged
<1>9. Solo'
  BY <1>3 DEF OpenInv, Solo, Engaged
<1>10. Called'
  BY <1>2, <1>3 DEF OpenInv, Called, CallOK, Step, BoltText
<1>11. Owned'
  BY <1>2, <1>3 DEF Owned, NoPost
<1>12. Mirrored'
  <2> SUFFICES ASSUME NEW p \in Posts, p \notin overlapped
               PROVE /\ Quiet(p)' => Agrees(p)'
                     /\ \A w \in Workers : task[w].post = p => MirrorOK(w, p)'
    BY <1>3 DEF Mirrored
  <2>1. ASSUME starting.rows[p] = row[p].state PROVE Agrees(p)'
    <3>1. Open(BoltText(p)) # None
      BY <1>5, OpenIsAText
    <3>2. [closed |-> TRUE, text |-> row[p].body] # None
      <4>1. [closed |-> TRUE, text |-> row[p].body] \in [closed : BOOLEAN, text : Texts]
        BY <1>5
      <4> QED BY <4>1
    <3>3. BoltText(p)' = BoltText(p)
      BY <1>3 DEF BoltText
    <3> QED BY <1>3, <1>4, <1>5, <2>1, <3>1, <3>2, <3>3 DEF Agrees, Open
  <2>2. Quiet(p)' => Agrees(p)'
    <3>1. Cleaner \in Workers
      BY DEF Workers
    <3> QED BY <1>1, <1>3, <2>1, <3>1 DEF Quiet, StartOK
  <2>3. ASSUME NEW w \in Workers, task[w].post = p PROVE MirrorOK(w, p)'
    <3>1. w = Cleaner /\ Step(w) \in {"load", "commit", "tell", "forget"} /\ Step(w)' = Step(w)
          /\ task'[w].text = task[w].text
      BY <1>2, <1>3, <2>3 DEF Step
    <3>2. CASE Step(w) # "tell"
      BY <1>1, <1>3, <2>1, <3>1, <3>2 DEF MirrorOK, StartOK
    <3>3. CASE Step(w) = "tell"
      <4>1. row[p].state = "closed" /\ row[p].body = task[w].text
            /\ BoltText(p) = task[w].text
        <5>1. CallOK(Cleaner, p)
          BY <2>3, <3>1 DEF OpenInv, Called
        <5> QED BY <3>1, <3>3, <5>1 DEF CallOK
      <4>2. mirror'[p] \in {Open(task[w].text), [closed |-> TRUE, text |-> task[w].text]}
        BY <1>1, <1>4, <4>1 DEF StartOK
      <4>3. mirror'[p] \in [closed : BOOLEAN, text : {task[w].text}]
        <5>1. Open(task[w].text) \in [closed : BOOLEAN, text : {task[w].text}]
          BY DEF Open
        <5>2. [closed |-> TRUE, text |-> task[w].text]
                \in [closed : BOOLEAN, text : {task[w].text}]
          OBVIOUS
        <5> QED BY <4>2, <5>1, <5>2
      <4>4. mirror'[p] # None
        <5>1. task[w].text \in Texts
          BY <1>5, <4>1
        <5>2. mirror'[p] \in [closed : BOOLEAN, text : Texts]
          BY <4>3, <5>1
        <5> QED BY <5>2
      <4> QED BY <3>1, <3>3, <4>3, <4>4 DEF MirrorOK, Told
    <3> QED BY <3>2, <3>3
  <2> QED BY <2>2, <2>3
<1>13. Starts'
  BY <1>3 DEF Starts, FeedFree, NotStarting
<1> QED BY <1>6, <1>7, <1>8, <1>9, <1>10, <1>11, <1>12, <1>13 DEF OpenInv

\* Another client joins a feed that runs.
LEMMA JoinKeeps ==
    ASSUME OpenInv, NEW c \in Clients, Join(c) PROVE OpenInv'
<1>1. /\ UNCHANGED <<row, age, bolt, own, mirror, starting, task, sweep, overlapped, crashes>>
      /\ FeedRuns /\ FeedFree /\ online' = online \cup {c}
  BY DEF Join
<1>2. Absent' /\ Solo' /\ Called' /\ Owned' /\ Mirrored'
  BY <1>1, SameKeeps DEF FeedUp, FeedFree
<1>3. TypeOK'
  BY <1>1 DEF OpenInv, TypeOK
<1>4. Tasks'
  BY <1>1 DEF OpenInv, Tasks, Step
<1>5. Starts'
  BY <1>1 DEF Starts, FeedFree
<1> QED BY <1>2, <1>3, <1>4, <1>5 DEF OpenInv

\* A client leaves, with the feed when it was the last.
LEMMA LeaveKeeps ==
    ASSUME OpenInv, NEW c \in Clients, Leave(c) PROVE OpenInv'
<1> USE OpenPostAssumption
<1>0. c \in Workers /\ c # Cleaner
  BY DEF Workers
<1>1. /\ UNCHANGED <<row, age, bolt, starting, sweep, overlapped, crashes>>
      /\ c \in online /\ FeedFree /\ Step(c) \in {"idle", "store"} /\ online' = online \ {c}
      /\ own' = [own EXCEPT ![c] = NoPost] /\ task' = [task EXCEPT ![c] = NoTask]
      /\ mirror' = IF online' = {} THEN [p \in Posts |-> None] ELSE mirror
  BY DEF Leave, Done
<1>2. /\ \A v \in Workers : v # c => task'[v] = task[v]
      /\ \A v \in Clients : v # c => own'[v] = own[v]
      /\ task'[c].post = None /\ task'[c].step = "idle" /\ own'[c].post = None
  BY <1>0, <1>1 DEF OpenInv, TypeOK, NoTask, NoPost
<1>3. \A v \in Workers, p \in Posts : Engaged(v, p)' => Engaged(v, p) /\ v # c
  BY <1>2 DEF Engaged
<1>4. ASSUME NEW v \in Clients, own'[v].post # None \/ task'[v].post # None
      PROVE v \in online /\ v # c /\ mirror' = mirror
  <2>1. v # c
    BY <1>2, <1>4
  <2>2. v \in online
    <3>1. v \in Workers /\ own'[v] = own[v] /\ task'[v] = task[v]
      BY <1>2, <2>1 DEF Workers
    <3>2. v \notin online => task[v].post = None /\ own[v] = NoPost
      BY <3>1 DEF OpenInv, Tasks
    <3> QED BY <1>4, <3>1, <3>2 DEF NoPost
  <2> QED BY <1>1, <2>1, <2>2
<1>5. TypeOK'
  BY <1>0, <1>1 DEF OpenInv, TypeOK, NoTask, NoPost
<1>6. Tasks'
  <2>1. \A w \in Workers : Step(w)' = "idle" <=> task'[w].post = None
    BY <1>2 DEF OpenInv, Tasks, Step
  <2>2. Step(Cleaner)' = Step(Cleaner)
    BY <1>0, <1>2 DEF Step, Workers
  <2>3. ASSUME NEW v \in Clients
        PROVE /\ v \notin online' => Step(v)' = "idle" /\ own'[v] = NoPost
              /\ Step(v)' \in {"store", "load"} => own'[v] = NoPost
              /\ Step(v)' \in {"announce", "save", "commit", "tell", "forget"} =>
                    own'[v] = [post |-> task'[v].post, text |-> task'[v].text]
    <3>1. CASE v = c
      BY <1>1, <1>2, <3>1 DEF Step, OpenInv, TypeOK
    <3>2. CASE v # c
      <4>1. own'[v] = own[v] /\ task'[v] = task[v]
        BY <1>2, <3>2 DEF Workers
      <4> QED BY <1>1, <3>2, <4>1 DEF OpenInv, Tasks, Step
    <3> QED BY <3>1, <3>2
  <2> QED BY <1>1, <2>1, <2>2, <2>3 DEF OpenInv, Tasks
<1>7. Absent'
  BY <1>1, <1>3 DEF OpenInv, Absent, FeedRuns
<1>8. Solo'
  BY <1>1, <1>3 DEF OpenInv, Solo
<1>9. Called'
  <2> SUFFICES ASSUME NEW v \in Workers, NEW p \in Posts, p \notin overlapped, task'[v].post = p
               PROVE CallOK(v, p)'
    BY <1>1 DEF Called
  <2>1. v # c /\ task'[v] = task[v]
    BY <1>2
  <2>2. CallOK(v, p)
    BY <2>1 DEF OpenInv, Called
  <2>3. mirror' = mirror \/ (v = Cleaner /\ Step(v) \notin {"store", "announce", "save"})
    BY <1>4 DEF Workers, OpenInv, Tasks
  <2> QED BY <1>1, <2>1, <2>2, <2>3 DEF CallOK, Step, BoltText, Open
<1>10. Owned'
  <2> SUFFICES ASSUME NEW v \in Clients, NEW p \in Posts, p \notin overlapped, own'[v].post = p
               PROVE OwnOK(v, p)'
    BY <1>1 DEF Owned
  <2>1. v # c /\ own'[v] = own[v] /\ task'[v] = task[v] /\ mirror' = mirror
    BY <1>2, <1>4 DEF Workers
  <2>2. OwnOK(v, p)
    BY <2>1 DEF OpenInv, Owned
  <2> QED BY <1>1, <2>1, <2>2 DEF OwnOK, Step, BoltText
<1>11. Mirrored'
  <2> SUFFICES ASSUME FeedUp', NEW p \in Posts, p \notin overlapped
               PROVE /\ Quiet(p)' => Agrees(p)'
                     /\ \A w \in Workers : task'[w].post = p => MirrorOK(w, p)'
    BY <1>1 DEF Mirrored
  <2>1. FeedUp /\ mirror' = mirror
    BY <1>1 DEF FeedUp, FeedRuns
  <2>2. Agrees(p)' = Agrees(p)
    BY <1>1, <2>1 DEF Agrees, BoltText, Open
  <2>3. ASSUME Quiet(p)' PROVE Agrees(p)
    <3>1. CASE task[c].post = p
      <4>1. CallOK(c, p) /\ Step(c) = "store"
        BY <1>0, <1>1, <3>1 DEF OpenInv, Called, Tasks
      <4> QED BY <4>1 DEF CallOK, Agrees
    <3>2. CASE task[c].post # p
      <4>1. Quiet(p)
        BY <1>2, <2>3, <3>2 DEF Quiet
      <4> QED BY <2>1, <4>1 DEF OpenInv, Mirrored
    <3> QED BY <3>1, <3>2
  <2>4. ASSUME NEW w \in Workers, task'[w].post = p PROVE MirrorOK(w, p)'
    <3>1. w # c /\ task'[w] = task[w]
      BY <1>2, <2>4
    <3>2. MirrorOK(w, p)
      BY <2>1, <2>4, <3>1 DEF OpenInv, Mirrored
    <3> QED BY <2>1, <2>2, <3>1, <3>2 DEF MirrorOK, Told, Step
  <2> QED BY <2>2, <2>3, <2>4
<1>12. Starts'
  BY <1>1 DEF Starts, FeedFree
<1> QED BY <1>5, <1>6, <1>7, <1>8, <1>9, <1>10, <1>11, <1>12 DEF OpenInv

\* The hourly upkeep reads the keys of the bodies.
LEMMA SweepKeeps ==
    ASSUME OpenInv, Sweep PROVE OpenInv'
<1>1. /\ UNCHANGED <<row, age, bolt, own, online, mirror, starting, task, overlapped, crashes>>
      /\ sweep' \in SUBSET Posts /\ Step(Cleaner) = "idle"
  BY DEF Sweep, UpkeepIdle
<1>2. Absent' /\ Solo' /\ Called' /\ Owned' /\ Mirrored'
  BY <1>1, SameKeeps DEF FeedUp, FeedFree, FeedRuns
<1>3. TypeOK'
  BY <1>1 DEF OpenInv, TypeOK
<1>4. Tasks'
  BY <1>1 DEF OpenInv, Tasks, Step
<1>5. Starts'
  BY <1>1 DEF OpenInv, Starts, StartOK, FeedFree, Step
<1> QED BY <1>2, <1>3, <1>4, <1>5 DEF OpenInv

\* It deletes those of posts that are not open.
LEMMA SweepDoneKeeps ==
    ASSUME OpenInv, SweepDone PROVE OpenInv'
<1> USE OpenPostAssumption
<1>1. /\ UNCHANGED <<row, age, own, online, mirror, starting, task, overlapped, crashes>>
      /\ sweep' = {} /\ sweep # {}
      /\ bolt' = [p \in Posts |-> IF p \in Swept THEN None ELSE bolt[p]]
  BY DEF SweepDone
<1>2. ASSUME NEW p \in Posts
      PROVE /\ row[p].state = "open" => bolt'[p] = bolt[p]
            /\ bolt'[p] \in {None, bolt[p]}
  BY <1>1 DEF Swept
<1>3. Cleaner \in Workers /\ Step(Cleaner) = "idle" /\ task[Cleaner].post = None
  BY <1>1 DEF OpenInv, Tasks, Workers
<1>4. TypeOK'
  <2>1. bolt' \in [Posts -> Texts \cup {None}]
    BY <1>1 DEF OpenInv, TypeOK
  <2> QED BY <1>1, <2>1 DEF OpenInv, TypeOK
<1>5. Tasks'
  BY <1>1 DEF OpenInv, Tasks, Step
<1>6. Absent'
  BY <1>1, <1>2 DEF OpenInv, Absent, Engaged, FeedRuns
<1>7. Solo'
  BY <1>1 DEF OpenInv, Solo, Engaged
<1>8. Called'
  <2> SUFFICES ASSUME NEW w \in Workers, NEW p \in Posts, p \notin overlapped, task[w].post = p
               PROVE CallOK(w, p)'
    BY <1>1 DEF Called
  <2>1. CallOK(w, p) /\ w # Cleaner
    BY <1>3 DEF OpenInv, Called
  <2> QED BY <1>1, <1>2, <2>1 DEF CallOK, Step, BoltText, Open
<1>9. Owned'
  <2> SUFFICES ASSUME NEW c \in Clients, NEW p \in Posts, p \notin overlapped, own[c].post = p
               PROVE OwnOK(c, p)'
    BY <1>1 DEF Owned
  <2>1. OwnOK(c, p)
    BY DEF OpenInv, Owned
  <2> QED BY <1>1, <1>2, <2>1 DEF OwnOK, Step, BoltText
<1>10. Mirrored'
  <2>1. ASSUME NEW p \in Posts, Agrees(p) PROVE Agrees(p)'
    <3>1. CASE row[p].state = "open"
      BY <1>1, <1>2, <2>1, <3>1 DEF Agrees, BoltText, Open
    <3>2. CASE row[p].state = "closed"
      BY <1>1, <2>1, <3>2 DEF Agrees
    <3>4. CASE row[p].state = "none" /\ mirror[p] = None
      BY <1>1, <3>4 DEF Agrees
    <3>5. CASE row[p].state = "none" /\ mirror[p] # None
      <4>1. bolt[p] = None /\ bolt'[p] = None
        BY <1>2, <3>5 DEF OpenInv, Absent
      <4> QED BY <1>1, <2>1, <4>1 DEF Agrees, BoltText, Open
    <3> QED BY <3>1, <3>2, <3>4, <3>5 DEF OpenInv, TypeOK
  <2>2. \A p \in Posts : Quiet(p)' = Quiet(p)
    BY <1>1 DEF Quiet
  <2>3. FeedUp' = FeedUp
    BY <1>1 DEF FeedUp, FeedRuns, FeedFree
  <2>4. ASSUME NEW w \in Workers, NEW p \in Posts, MirrorOK(w, p) PROVE MirrorOK(w, p)'
    BY <1>1, <2>1, <2>4 DEF MirrorOK, Told, Step
  <2> QED BY <1>1, <2>1, <2>2, <2>3, <2>4 DEF OpenInv, Mirrored
<1>11. Starts'
  BY <1>1 DEF OpenInv, Starts, StartOK, FeedFree, Step
<1> QED BY <1>4, <1>5, <1>6, <1>7, <1>8, <1>9, <1>10, <1>11 DEF OpenInv

\* Time passes.
LEMMA ClockKeeps ==
    ASSUME OpenInv, Clock PROVE OpenInv'
<1> USE OpenPostAssumption
<1>1. /\ UNCHANGED <<row, bolt, own, online, mirror, starting, sweep, overlapped, crashes>>
      /\ task' = [w \in Workers |-> [task[w] EXCEPT !.late = Step(w) # "idle"]]
      /\ age' = [p \in Posts |-> IF row[p].state = "none" \/ age[p] > EditLimit
                                 THEN age[p] ELSE age[p] + 1]
  BY DEF Clock
<1>2. ASSUME NEW w \in Workers
      PROVE Step(w)' = Step(w) /\ task'[w].post = task[w].post /\ task'[w].text = task[w].text
  BY <1>1 DEF OpenInv, TypeOK, Step
<1>3. Cleaner \in Workers /\ \A c \in Clients : c \in Workers
  BY DEF Workers
<1>4. TypeOK'
  <2>1. age' \in [Posts -> 0..EditLimit + 1]
    BY <1>1 DEF OpenInv, TypeOK
  <2>2. ASSUME NEW w \in Workers
        PROVE [task[w] EXCEPT !.late = Step(w) # "idle"]
                \in [step : {"idle", "store", "announce", "save", "load", "commit", "tell",
                             "forget"},
                     post : Posts \cup {None}, text : Texts, late : BOOLEAN]
    <3>1. (Step(w) # "idle") \in BOOLEAN
      OBVIOUS
    <3>2. \A b \in BOOLEAN : [task[w] EXCEPT !.late = b]
                \in [step : {"idle", "store", "announce", "save", "load", "commit", "tell",
                             "forget"},
                     post : Posts \cup {None}, text : Texts, late : BOOLEAN]
      BY DEF OpenInv, TypeOK
    <3> QED BY <3>1, <3>2
  <2> QED BY <1>1, <2>1, <2>2 DEF OpenInv, TypeOK
<1>5. Tasks'
  BY <1>1, <1>2, <1>3 DEF OpenInv, Tasks
<1>6. \A w \in Workers, p \in Posts : Engaged(w, p)' = Engaged(w, p)
  BY <1>1, <1>2 DEF Engaged
<1>7. Absent'
  BY <1>1, <1>6 DEF OpenInv, Absent, FeedRuns
<1>8. Solo'
  BY <1>1, <1>6 DEF OpenInv, Solo
<1>9. Called'
  <2> SUFFICES ASSUME NEW w \in Workers, NEW p \in Posts, p \notin overlapped, task[w].post = p
               PROVE CallOK(w, p)'
    BY <1>1, <1>2 DEF Called
  <2>1. CallOK(w, p)
    BY DEF OpenInv, Called
  <2> QED BY <1>1, <1>2, <2>1 DEF CallOK, BoltText, Open
<1>10. Owned'
  <2> SUFFICES ASSUME NEW c \in Clients, NEW p \in Posts, p \notin overlapped, own[c].post = p
               PROVE OwnOK(c, p)'
    BY <1>1 DEF Owned
  <2>1. OwnOK(c, p)
    BY DEF OpenInv, Owned
  <2> QED BY <1>1, <1>2, <1>3, <2>1 DEF OwnOK, BoltText
<1>11. Mirrored'
  <2>1. FeedUp' = FeedUp
    BY <1>1 DEF FeedUp, FeedRuns, FeedFree
  <2>2. \A p \in Posts : Quiet(p)' = Quiet(p)
    BY <1>2 DEF Quiet
  <2>3. \A p \in Posts : Agrees(p)' = Agrees(p)
    BY <1>1 DEF Agrees, BoltText, Open
  <2>4. ASSUME NEW w \in Workers, NEW p \in Posts, MirrorOK(w, p) PROVE MirrorOK(w, p)'
    BY <1>1, <1>2, <2>3, <2>4 DEF MirrorOK, Told
  <2> QED BY <1>1, <1>2, <2>1, <2>2, <2>3, <2>4 DEF OpenInv, Mirrored
<1>12. Starts'
  BY <1>1, <1>2, <1>3 DEF OpenInv, Starts, StartOK, FeedFree
<1> QED BY <1>4, <1>5, <1>7, <1>8, <1>9, <1>10, <1>11, <1>12 DEF OpenInv

\* The server crashes.
LEMMA CrashKeeps ==
    ASSUME OpenInv, Crash PROVE OpenInv'
<1> USE OpenPostAssumption
<1>1. /\ UNCHANGED <<row, age, bolt, overlapped>>
      /\ crashes' \in 0..MaxCrashes /\ online' = {} /\ sweep' = {} /\ starting' = NotStarting
      /\ own' = [c \in Clients |-> NoPost] /\ task' = [w \in Workers |-> NoTask]
      /\ mirror' = [p \in Posts |-> None]
  BY DEF Crash, OpenInv, TypeOK
<1>2. \A w \in Workers, p \in Posts : task'[w].post # p /\ ~Engaged(w, p)'
  BY <1>1 DEF Engaged, NoTask, NoPost
<1>3. TypeOK'
  BY <1>1 DEF OpenInv, TypeOK, NoTask, NoPost, NotStarting
<1>4. Tasks'
  BY <1>1 DEF Tasks, Step, NoTask, Workers
<1>5. Absent' /\ Solo'
  BY <1>1, <1>2 DEF OpenInv, Absent, Solo, FeedRuns
<1>6. Called' /\ Owned' /\ Mirrored' /\ Starts'
  BY <1>1, <1>2 DEF Called, Owned, Mirrored, Starts, FeedUp, FeedRuns, FeedFree, NotStarting,
                    NoPost
<1> QED BY <1>3, <1>4, <1>5, <1>6 DEF OpenInv

\* The invariant holds of the stores of a new database.
LEMMA InitHolds == Init => OpenInv
<1> SUFFICES ASSUME Init PROVE OpenInv
  OBVIOUS
<1> USE OpenPostAssumption
<1>1. \A w \in Workers, p \in Posts : task[w].post # p /\ ~Engaged(w, p)
  BY DEF Init, Engaged, NoTask, NoPost
<1>2. TypeOK
  BY DEF Init, TypeOK, NoTask, NoPost, NotStarting
<1>3. Tasks
  BY DEF Init, Tasks, Step, NoTask, Workers
<1>4. Absent /\ Solo
  BY <1>1 DEF Init, Absent, Solo, FeedRuns
<1>5. Called /\ Owned /\ Mirrored /\ Starts
  BY <1>1 DEF Init, Called, Owned, Mirrored, Starts, FeedUp, FeedRuns, FeedFree, NotStarting,
              NoPost
<1> QED BY <1>2, <1>3, <1>4, <1>5 DEF OpenInv

\* Every step keeps the invariant.
LEMMA StepKeeps == OpenInv /\ [Next]_vars => OpenInv'
<1> SUFFICES ASSUME OpenInv, [Next]_vars PROVE OpenInv'
  OBVIOUS
<1>1. ASSUME NEW c \in Clients,
             StartFeed(c) \/ Join(c) \/ Leave(c) \/ Close(c)
               \/ (\E p \in Posts : Reclaim(c, p))
               \/ (\E p \in Posts, text \in Texts : Create(c, p, text))
               \/ (\E text \in Texts : Edit(c, text))
      PROVE OpenInv'
  BY <1>1, StartFeedKeeps, JoinKeeps, LeaveKeeps, CloseKeeps, ReclaimKeeps, CreateKeeps,
     EditKeeps
<1>2. ASSUME NEW w \in Workers, Proceed(w) PROVE OpenInv'
  BY <1>2, StoreKeeps, AnnounceKeeps, SaveKeeps, LoadKeeps, ReadBodyKeeps, CommitKeeps,
     TellKeeps, ForgetKeeps DEF Proceed
<1>3. ASSUME FeedStarted \/ (\E p \in Posts : CleanUp(p)) \/ Sweep \/ SweepDone \/ Clock \/ Crash
      PROVE OpenInv'
  BY <1>3, FeedStartedKeeps, CleanUpKeeps, SweepKeeps, SweepDoneKeeps, ClockKeeps, CrashKeeps
<1>4. CASE UNCHANGED vars
  <2>1. UNCHANGED <<row, age, bolt, own, online, mirror, starting, task, sweep, overlapped,
                    crashes>>
    BY <1>4 DEF vars
  <2>2. Absent' /\ Solo' /\ Called' /\ Owned' /\ Mirrored'
    BY <2>1, SameKeeps DEF FeedUp, FeedFree, FeedRuns
  <2>3. TypeOK'
    BY <2>1 DEF OpenInv, TypeOK
  <2>4. Tasks'
    BY <2>1 DEF OpenInv, Tasks, Step
  <2>5. Starts'
    BY <2>1 DEF OpenInv, Starts, StartOK, FeedFree, Step
  <2> QED BY <2>2, <2>3, <2>4, <2>5 DEF OpenInv
<1> QED BY <1>1, <1>2, <1>3, <1>4 DEF Next

\* In every state of every run the invariant holds.
THEOREM OpenInvHolds == Spec => []OpenInv
<1>1. Init => OpenInv
  BY InitHolds
<1>2. OpenInv /\ [Next]_vars => OpenInv'
  BY StepKeeps
<1> QED BY <1>1, <1>2, PTL DEF Spec

\* The invariant is why the three copies of a text agree where no call is going on.
LEMMA InvAgrees == OpenInv => TextsHold
<1> SUFFICES ASSUME OpenInv PROVE TextsHold
  OBVIOUS
<1>1. TypedTextIsStored
  <2> SUFFICES ASSUME NEW c \in Clients, NEW p \in Posts, p = own[c].post, Quiet(p),
                      p \notin overlapped
               PROVE BoltText(p) = own[c].text
    BY DEF TypedTextIsStored, OpenInv, TypeOK
  <2>1. c \in Workers /\ Step(c) \in {"idle", "store", "announce", "save", "load", "commit",
                                      "tell", "forget"}
    BY DEF Workers, Step, OpenInv, TypeOK
  <2>2. task[c].post # p /\ p # None
    BY <2>1, OpenPostAssumption DEF Quiet
  <2>3. Step(c) = "idle"
    <3>1. CASE Step(c) \in {"store", "load"}
      <4>1. own[c] = NoPost
        BY <3>1 DEF OpenInv, Tasks
      <4> QED BY <2>2, <4>1 DEF NoPost
    <3>2. CASE Step(c) \in {"announce", "save", "commit", "tell", "forget"}
      <4>1. own[c] = [post |-> task[c].post, text |-> task[c].text]
        BY <3>2 DEF OpenInv, Tasks
      <4>2. own[c].post = task[c].post
        BY <4>1
      <4> QED BY <2>2, <4>2
    <3> QED BY <2>1, <3>1, <3>2
  <2>4. OwnOK(c, p)
    BY DEF OpenInv, Owned
  <2> QED BY <2>3, <2>4 DEF OwnOK
<1>2. MirrorAgreesWithStores
  <2> SUFFICES ASSUME NEW p \in Posts, FeedRuns, FeedFree, Quiet(p), mirror[p] # None,
                      p \notin overlapped
               PROVE /\ mirror[p].closed <=> row[p].state = "closed"
                     /\ mirror[p].text = IF mirror[p].closed THEN row[p].body ELSE BoltText(p)
    BY DEF MirrorAgreesWithStores
  <2>1. Agrees(p)
    BY DEF OpenInv, Mirrored, FeedUp
  <2> QED BY <2>1 DEF Agrees, Open
<1> QED BY <1>1, <1>2 DEF TextsHold, OpenInv

\* What an owner has typed is in the store between its edits, whatever crashes,
\* closes and sweeps come between, and the feed tells of a post what the stores
\* hold, also when it started in the middle of a close.
THEOREM TextsAgree == Spec => []TextsHold
<1>1. OpenInv => TextsHold
  BY InvAgrees
<1> QED BY <1>1, OpenInvHolds, PTL
=============================================================================

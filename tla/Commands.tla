------------------------------ MODULE Commands ------------------------------
(***************************************************************************)
(* Hash commands that keep a count in the database: #pyu and #pcount of a  *)
(* board, with the limit of each IP, and #roulette and #rcount of a thread *)
(* (src/parser/commands.go, src/parser/body.go, src/db/commands.go).       *)
(* ParseBody runs each command of a body in a transaction of its own, at   *)
(* most one of a post at a time.  A transaction reads rows and writes them *)
(* back in several statements: it sees what is committed and its own       *)
(* writes, and what it has written others cannot write before it ends.     *)
(* There is one board, with #pyu enabled, and one thread.                  *)
(***************************************************************************)
EXTENDS Images

CONSTANTS IP,
          IPOf,         \* Post -> the IP of its poster
          PyuLimit,     \* 4
          Chambers      \* 6

ASSUME CommandsAssumption ==
    /\ IPOf \in [Post -> IP]
    /\ PyuLimit \in 1..254 /\ Chambers \in 1..255
    /\ {"pyu", "scount", "rcount", "roulette", None} \cap IP = {}
    /\ None \notin {"pyu", "roulette"} \cup [count : 0..255, restricted : BOOLEAN]
    /\ \A x \in PostBounds : \A p \in DOMAIN x.posts :
          x.posts[p].commands \in Seq({"pyu", "pcount", "roulette", "rcount"})

VARIABLES
    row,         \* committed columns: "pyu", "scount", "rcount" and the limit of an IP
    own,         \* Post -> the columns that its open transaction has written
    cmd,         \* Post -> how far ParseBody and the command have come
    banned,      \* posts that were banned for what they said
    counted,     \* history: IP -> uses of #pyu that were counted since the last release
    together,    \* history: IPs of which two uses of #pyu overlapped since then
    releases,    \* how many times the limits were released
    there        \* the thread is there, and its row of roulette

commandVars == <<row, own, cmd, banned, counted, together, releases, there>>

Column == {"pyu", "scount", "rcount"} \cup IP

\* The row that a column is of
RowOf(k) == IF k \in {"scount", "rcount"} THEN "roulette" ELSE k

\* Go's uint8
Byte(n) == n % 256

NoCommand == [at |-> "idle"]
Fresh == [count |-> PyuLimit, restricted |-> FALSE]

CommandsInit ==
    /\ row = [k \in Column |-> CASE k = "scount" -> Chambers
                                 [] k \in {"pyu", "rcount"} -> 0
                                 [] OTHER -> None]
    /\ own = [p \in Post |-> <<>>]
    /\ cmd = [p \in Post |-> NoCommand]
    /\ banned = {}
    /\ counted = [i \in IP |-> 0]
    /\ together = {}
    /\ releases = 0
    /\ there = TRUE

(***************************************************************************)
(* Transactions.                                                           *)
(***************************************************************************)
View(p, k) == IF k \in DOMAIN own[p] THEN own[p][k] ELSE row[k]

\* The columns of f where there are any, and otherwise those of g
Over(f, g) == [k \in DOMAIN f \cup DOMAIN g |-> IF k \in DOMAIN f THEN f[k] ELSE g[k]]

Locks(p) == {RowOf(k) : k \in DOMAIN own[p]}

Put(p, k, v) ==
    /\ \A q \in Post \ {p} : RowOf(k) \notin Locks(q)
    /\ own' = [own EXCEPT ![p] = Over([j \in {k} |-> v], @)]

At(p, step) == cmd[p].at = step
Goto(p, step) == cmd' = [cmd EXCEPT ![p].at = step]
Keep == UNCHANGED <<row, banned, counted, together, releases, there>>

\* Mutant of Abort: the transaction is not rolled back
AbortOpen(p) == cmd' = [cmd EXCEPT ![p].at = "failed"] /\ UNCHANGED own

Abort(p) == /\ cmd' = [cmd EXCEPT ![p].at = "failed"]
            /\ own' = [own EXCEPT ![p] = <<>>]

\* The row that the next statement of p writes
Wanted(p) == CASE cmd[p].at \in {"write", "restrict", "decrement"} -> IPOf[p]
               [] At(p, "count") -> "pyu"
               [] cmd[p].at \in {"load", "tally"} -> "roulette"
               [] OTHER -> None

\* Two transactions wait for each other, and PostgreSQL ends one with an error
Deadlock(p) ==
    /\ \E q \in Post \ {p} : Wanted(p) \in Locks(q) /\ Wanted(q) \in Locks(p)
    /\ Abort(p)
    /\ Keep

(***************************************************************************)
(* ParseBody: the commands in the order of the body.                       *)
(***************************************************************************)
\* thread is FALSE where the post is parsed before it is given its thread and ID
StartParsing(p, thread) ==
    cmd' = [cmd EXCEPT ![p] = [at |-> "parse", i |-> 1, thread |-> thread, slut |-> FALSE,
                               results |-> <<>>, n |-> 0]]

Said(p) == bound.posts[p].commands
Word(p) == Said(p)[cmd[p].i]

\* p is in the middle of a #pyu
InPyu(p) == \/ cmd[p].at \in {"pyu", "write", "limit", "restricted", "refuse", "restrict",
                              "increment", "count", "left", "decrement"}
            \/ At(p, "commit") /\ Word(p) = "pyu"

Parse(p) ==
    /\ At(p, "parse")
    /\ IF cmd[p].i > Len(Said(p)) THEN Goto(p, "parsed") /\ UNCHANGED together
       ELSE /\ Goto(p, Word(p))
            /\ together' = IF /\ Word(p) = "pyu"
                              /\ \E q \in Post \ {p} : IPOf[q] = IPOf[p] /\ InPyu(q)
                           THEN together \cup {IPOf[p]} ELSE together
    /\ UNCHANGED <<row, own, banned, counted, releases, there>>

Result(p, r) == [cmd EXCEPT ![p].at = "commit", ![p].results = Append(@, r)]

\* A command ends, and its transaction
Commit(p) ==
    /\ At(p, "commit")
    /\ row' = Over(own[p], row)
    /\ own' = [own EXCEPT ![p] = <<>>]
    /\ cmd' = [cmd EXCEPT ![p].at = "parse", ![p].i = @ + 1]
    /\ UNCHANGED <<banned, counted, together, releases, there>>

(***************************************************************************)
(* #pyu and #pcount.                                                       *)
(***************************************************************************)
PyuLimitExists(p) ==
    /\ At(p, "pyu")
    /\ Goto(p, IF View(p, IPOf[p]) = None THEN "write" ELSE "limit")
    /\ UNCHANGED own /\ Keep

\* The first #pyu of an IP; where another has come first the key is in conflict
WritePyuLimit(p) ==
    /\ At(p, "write")
    /\ \/ row[IPOf[p]] = None /\ Put(p, IPOf[p], Fresh) /\ Goto(p, "limit")
       \/ row[IPOf[p]] # None /\ Abort(p)
    /\ Keep

GetPyuLimit(p) ==
    /\ \/ At(p, "limit") /\ cmd' = [cmd EXCEPT ![p].at = "restricted",
                                               ![p].n = View(p, IPOf[p]).count]
       \/ At(p, "left") /\ cmd' = [cmd EXCEPT ![p].at = "decrement",
                                              ![p].n = View(p, IPOf[p]).count]
    /\ UNCHANGED own /\ Keep

\* Mutant of GetPyuLimitRestricted: the last use is not restricted
GetUnrestricted(p) ==
    /\ At(p, "restricted")
    /\ Goto(p, IF View(p, IPOf[p]).restricted THEN "refuse"
               ELSE IF cmd[p].n = 0 THEN "restrict" ELSE "increment")
    /\ UNCHANGED own /\ Keep

GetPyuLimitRestricted(p) ==
    /\ At(p, "restricted")
    /\ Goto(p, IF View(p, IPOf[p]).restricted THEN "refuse"
               ELSE IF cmd[p].n = 1 THEN "restrict" ELSE "increment")
    /\ UNCHANGED own /\ Keep

\* Once in a body the IP of the post is banned, if the post is there yet
Refuse(p) ==
    /\ At(p, "refuse")
    /\ cmd' = [cmd EXCEPT ![p].at = "commit", ![p].slut = TRUE,
                          ![p].results = Append(@, <<View(p, "pyu")>>)]
    /\ banned' = IF cmd[p].thread /\ there /\ ~cmd[p].slut THEN banned \cup {p} ELSE banned
    /\ UNCHANGED <<row, own, counted, together, releases, there>>

SetPyuLimitRestricted(p) ==
    /\ At(p, "restrict")
    /\ Put(p, IPOf[p], [View(p, IPOf[p]) EXCEPT !.restricted = TRUE])
    /\ Goto(p, "increment")
    /\ Keep

\* IncrementPcount reads the counter and writes it back, one higher
GetPcountA(p) ==
    /\ At(p, "increment")
    /\ cmd' = [cmd EXCEPT ![p].at = "count", ![p].n = View(p, "pyu")]
    /\ UNCHANGED own /\ Keep

IncrementPcount(p) ==
    /\ At(p, "count")
    /\ Put(p, "pyu", cmd[p].n + 1)
    /\ cmd' = [cmd EXCEPT ![p].at = "left", ![p].results = Append(@, <<cmd[p].n + 1>>)]
    /\ Keep

DecrementPyuLimit(p) ==
    /\ At(p, "decrement")
    /\ Put(p, IPOf[p], [View(p, IPOf[p]) EXCEPT !.count = Byte(cmd[p].n - 1)])
    /\ Goto(p, "commit")
    /\ counted' = [counted EXCEPT ![IPOf[p]] = @ + 1]
    /\ UNCHANGED <<row, banned, together, releases, there>>

GetPcount(p) ==
    /\ At(p, "pcount")
    /\ cmd' = Result(p, <<row["pyu"]>>)
    /\ UNCHANGED own /\ Keep

\* Every half an hour
FreePyuLimit ==
    /\ releases < bound.releases /\ releases' = releases + 1
    /\ \A p \in Post : Locks(p) \cap IP = {}
    /\ row' = [k \in Column |-> IF k \in IP /\ row[k] # None THEN Fresh ELSE row[k]]
    /\ counted' = [i \in IP |-> 0]
    /\ together' = {IPOf[p] : p \in {q \in Post : InPyu(q)}}
    /\ UNCHANGED <<own, cmd, banned, there>>

(***************************************************************************)
(* #roulette and #rcount.                                                  *)
(***************************************************************************)
\* There is no row for thread 0
GetRoulette(p) ==
    /\ At(p, "roulette")
    /\ IF cmd[p].thread /\ there
       THEN cmd' = [cmd EXCEPT ![p].at = "load", ![p].n = View(p, "scount")] /\ UNCHANGED own
       ELSE Abort(p)
    /\ Keep

\* The counter is returned by the statement and made one higher again
DecrementRoulette(p) ==
    /\ At(p, "load")
    /\ \/ /\ there /\ Put(p, "scount", Byte(cmd[p].n - 1))
          /\ cmd' = [cmd EXCEPT ![p].at = "roll", ![p].n = Byte(Byte(@ - 1) + 1)]
       \/ ~there /\ Abort(p)
    /\ Keep

\* Mutant of Roll: who loses leaves the counter as it is
RollOn(p) ==
    /\ At(p, "roll")
    /\ \E roll \in 1..cmd[p].n : cmd' = Result(p, <<roll, cmd[p].n>>)
    /\ UNCHANGED own /\ Keep

\* randInt panics if the counter is 0; who rolls 1 loads the revolver again
Roll(p) ==
    /\ At(p, "roll")
    /\ \E roll \in 1..cmd[p].n :
          /\ cmd' = Result(p, <<roll, cmd[p].n>>)
          /\ IF roll = 1 THEN Put(p, "scount", Chambers) ELSE UNCHANGED own
    /\ Keep

GetRcount(p) ==
    /\ At(p, "rcount")
    /\ IF cmd[p].thread /\ there THEN cmd' = Result(p, <<row["rcount"]>>) /\ UNCHANGED own ELSE Abort(p)
    /\ Keep

Lost(results) == \E i \in 1..Len(results) : Len(results[i]) = 2 /\ results[i][1] = 1

\* Mutant of CheckRouletteBan: a post with several commands is not looked at
CheckOnly(p) ==
    /\ At(p, "closed")
    /\ IF Len(cmd[p].results) = 1 /\ Lost(cmd[p].results)
       THEN Goto(p, "lost") /\ banned' = IF there THEN banned \cup {p} ELSE banned
       ELSE Goto(p, "done") /\ UNCHANGED banned
    /\ UNCHANGED <<row, own, counted, together, releases, there>>

\* After the post is closed a loser is banned, if the post is still there, ...
CheckRouletteBan(p) ==
    /\ At(p, "closed")
    /\ IF Lost(cmd[p].results)
       THEN Goto(p, "lost") /\ banned' = IF there THEN banned \cup {p} ELSE banned
       ELSE Goto(p, "done") /\ UNCHANGED banned
    /\ UNCHANGED <<row, own, counted, together, releases, there>>

\* ... and counted: IncrementRcount, too, reads and writes back
IncrementRcount(p) ==
    /\ \/ At(p, "lost") /\ there
          /\ cmd' = [cmd EXCEPT ![p].at = "tally", ![p].n = View(p, "rcount")]
          /\ UNCHANGED <<row, own>>
       \/ At(p, "lost") /\ ~there /\ Abort(p) /\ UNCHANGED row
       \/ At(p, "tally") /\ (there => Put(p, "rcount", cmd[p].n + 1)) /\ (~there => UNCHANGED own)
          /\ Goto(p, "tallied") /\ UNCHANGED row
       \/ At(p, "tallied") /\ Goto(p, "done")
          /\ row' = Over(own[p], row) /\ own' = [own EXCEPT ![p] = <<>>]
    /\ UNCHANGED <<banned, counted, together, releases, there>>

CommandStep(p) ==
    \/ Parse(p) \/ Commit(p) \/ Deadlock(p)
    \/ PyuLimitExists(p) \/ WritePyuLimit(p) \/ GetPyuLimit(p) \/ GetPyuLimitRestricted(p)
    \/ Refuse(p) \/ SetPyuLimitRestricted(p) \/ GetPcountA(p) \/ IncrementPcount(p)
    \/ DecrementPyuLimit(p) \/ GetPcount(p)
    \/ GetRoulette(p) \/ DecrementRoulette(p) \/ Roll(p) \/ GetRcount(p)
    \/ CheckRouletteBan(p) \/ IncrementRcount(p)

(***************************************************************************)
(* Properties.                                                             *)
(***************************************************************************)
\* commands.go:128: the revolver always has a chamber to stop at, and no more than
\* it has, also when rolls overlap and one overwrites what the other has done:
\* randInt is never asked for a number below 0
RouletteLoaded == /\ row["scount"] \in 1..Chambers
                  /\ \A p \in Post : At(p, "roll") => cmd[p].n \in 1..Chambers

\* post_updates.go:198, "CheckRouletteBan meme bans if the poster lost at
\* #roulette": when a post has been closed and its check has ended
LosersAreBanned ==
    \A p \in Post : At(p, "done") /\ Lost(cmd[p].results) /\ there => p \in banned /\ row["rcount"] > 0

\* commands.go:85: an IP whose uses of #pyu did not overlap is counted as often as
\* the limit allows, then it is restricted until the limits are released
PyuIsLimited ==
    \A i \in IP : row[i] # None /\ i \notin together /\ (\A p \in Post : IPOf[p] = i => ~InPyu(p)) =>
        /\ row[i].count + counted[i] = PyuLimit
        /\ row[i].restricted <=> row[i].count = 0

\* db/commands.go:155, "DecrementPyuLimit decrements the pyu limit counter by one":
\* it never gets above what it starts from
PyuDecrements == \A i \in IP : row[i] # None => row[i].count \in 0..PyuLimit
=============================================================================

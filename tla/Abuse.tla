-------------------------------- MODULE Abuse --------------------------------
(***************************************************************************)
(* How the server keeps an IP away: the rows of bans and the copy of them  *)
(* that IsBanned reads (src/db/bans.go), the clients a ban disconnects     *)
(* (src/auth/moderation.go), the buffered spam score (src/db/antispam.go)  *)
(* and the captchas (src/db/captcha.go).  One IP stands for all of them.   *)
(* A time unit is spamDetectionThreshold, one minute.                      *)
(***************************************************************************)
EXTENDS Integers, Sequences, FiniteSets

CONSTANTS Board,        \* boards, without the metaboard
          All,          \* the metaboard "all"
          Request,      \* HTTP requests, of which some ban
          Client,       \* websocket connections of the IP
          Attempt,      \* requests that send a captcha solution
          Increment,    \* what one scored action adds to the score
          FailLimit,    \* incorrectCaptchaLimit
          AbuseBounds,  \* bounds of the instances: whether the IP connects and sends
                        \* solutions, how many of its actions are scored, how many database
                        \* errors, until what time, what requests do and how many do it
          MaxReads,     \* bound: refreshes of the cache waiting or reading
          None

ASSUME AbuseAssumption == /\ All \notin Board
                          /\ Increment \in Nat \ {0} /\ FailLimit \in Nat \ {0}
                          /\ \A x \in AbuseBounds : /\ {x.visits, x.solutions} \subseteq BOOLEAN
                                                  /\ {x.scored, x.errors, x.time} \subseteq Nat
                          /\ MaxReads \in Nat
                          /\ None \notin Int

Boards == Board \cup {All}

VARIABLES
    bans,         \* unexpired rows of type classic: their board, and post or None
    banCache,     \* boards that banCache holds the IP under
    pending,      \* bans_updated notifications the listener has not taken
    launches,     \* goroutines of IsBanned that have not started to read
    reads,        \* refreshes that have read the rows, in the order they did
    overtaken,    \* history: the cache is of an older read than one swapped before
    unheard,      \* history: boards the system banned, notifying nobody, since the cached read
    lapsed,       \* history: boards of which a ban expired or went with the board
    banTask,      \* Request -> how far it has propagated its ban, and of what board
    client,       \* Client -> where it is, and its board
    slipped,      \* history: clients whose check was of rows older than a ban
    clock,
    buffer,       \* spamScoreBuffer of the IP, None if it has no entry
    stored,       \* the row of spam_scores, None if there is none
    due,          \* history: the score if no increment were buffered
    solved,       \* last_solved_captchas has the IP, within 3 hours
    attempt,      \* Attempt -> step of ValidateCaptcha
    failed,       \* unexpired rows of failed_captchas
    botBanned,    \* history: banned for failed captchas
    spamBanned,   \* history: banned for its score
    scored, errors,
    bound         \* the bounds of this behaviour, one of AbuseBounds

banVars == <<bans, banCache, pending, launches, reads, overtaken, unheard, lapsed>>
clientVars == <<banTask, client, slipped>>
scoreVars == <<clock, buffer, stored, due, spamBanned, scored, errors, bound>>
captchaVars == <<solved, attempt, failed, botBanned>>
abuseVars == <<banVars, clientVars, scoreVars, captchaVars>>

Idle == [at |-> "idle"]
Gone == [at |-> "gone"]
Row(b, p) == [board |-> b, post |-> p]
BoardsOf(rows) == {r.board : r \in rows}

\* spamDetectionThreshold, and the distance at which isSpam holds
Threshold == 1
SpamDistance == 10 * Threshold

AbuseInit ==
    /\ bans = {} /\ banCache = {}
    /\ pending = 0 /\ launches = 0 /\ reads = <<>>
    /\ overtaken = FALSE /\ unheard = {} /\ lapsed = {}
    /\ banTask = [r \in Request |-> Idle]
    /\ client = [c \in Client |-> Gone]
    /\ slipped = {}
    /\ clock = 0
    /\ buffer = None /\ stored = None /\ due = -Threshold
    /\ solved = FALSE
    /\ attempt = [a \in Attempt |-> Idle]
    /\ failed = 0 /\ botBanned = FALSE /\ spamBanned = FALSE
    /\ scored = 0 /\ errors = 0
    /\ bound \in AbuseBounds

(***************************************************************************)
(* The rows of bans and their copy.                                        *)
(***************************************************************************)
\* What Ban of post p writes in its transaction; r goes on to propagate it
AddBan(r, b, p) ==
    /\ bans' = bans \cup {Row(b, p)}
    /\ banTask' = [banTask EXCEPT ![r] = [at |-> "written", board |-> b]]
    /\ UNCHANGED <<banCache, pending, launches, reads, overtaken, unheard, lapsed, client,
                   slipped, scoreVars, captchaVars>>

\* Mutant of PropagateBans: the clients are disconnected, nobody is notified
PropagateSilently(r) ==
    /\ banTask[r].at = "written"
    /\ banTask' = [banTask EXCEPT ![r].at = "notified"]
    /\ UNCHANGED <<banVars, client, slipped, scoreVars, captchaVars>>

\* propagateBans notifies every server ...
PropagateBans(r) ==
    /\ banTask[r].at = "written"
    /\ pending' = pending + 1
    /\ banTask' = [banTask EXCEPT ![r].at = "notified"]
    /\ UNCHANGED <<bans, banCache, launches, reads, overtaken, unheard, lapsed, client,
                   slipped, scoreVars, captchaVars>>

Under(c, b) == client[c].at = "synced" /\ b \in {All, client[c].board}

\* Mutant of DisconnectByBoardAndIP: a ban on all looks for a board of that name
DisconnectByBoard(r) ==
    /\ banTask[r].at = "notified"
    /\ client' = [c \in Client |-> IF client[c].at = "synced" /\ client[c].board = banTask[r].board
                                   THEN Gone ELSE client[c]]
    /\ slipped' = {c \in slipped : client'[c] # Gone}
                      \cup {c \in Client : client[c].at = "checked"}
    /\ banTask' = [banTask EXCEPT ![r] = Idle]
    /\ UNCHANGED <<banVars, scoreVars, captchaVars>>

\* ... and closes the IP's synchronised clients, those of the board or all of them
DisconnectByBoardAndIP(r) ==
    /\ banTask[r].at = "notified"
    /\ client' = [c \in Client |-> IF Under(c, banTask[r].board) THEN Gone ELSE client[c]]
    /\ slipped' = {c \in slipped : client'[c] # Gone}
                      \cup {c \in Client : client[c].at = "checked"}
    /\ banTask' = [banTask EXCEPT ![r] = Idle]
    /\ UNCHANGED <<banVars, scoreVars, captchaVars>>

\* What Unban deletes, and its notification at the commit
LiftBan(b, p) ==
    /\ bans' = bans \ {Row(b, p)}
    /\ pending' = pending + 1
    /\ UNCHANGED <<banCache, launches, reads, overtaken, unheard, lapsed, clientVars,
                   scoreVars, captchaVars>>

\* The deletion of a board takes its bans along, which notifies nobody
DropBans(b) ==
    /\ bans' = {r \in bans : r.board # b}
    /\ lapsed' = lapsed \cup (BoardsOf(bans) \cap {b})
    /\ UNCHANGED <<banCache, pending, launches, reads, overtaken, unheard, clientVars,
                   scoreVars, captchaVars>>

\* A ban expires: selectBans passes over the row, expireRows deletes it
Expire(r) ==
    /\ r \in bans
    /\ bans' = bans \ {r}
    /\ lapsed' = lapsed \cup {r.board}
    /\ UNCHANGED <<banCache, pending, launches, reads, overtaken, unheard, clientVars,
                   scoreVars, captchaVars>>

\* SystemBan and systemBanTx return before they propagate the ban
SystemBan == /\ bans' = bans \cup {Row(All, None)}
             /\ unheard' = unheard \cup {All}
             /\ reads' = [i \in 1..Len(reads) |-> [reads[i] EXCEPT !.unheard = {All}]]

\* RefreshBanCache reads the rows: the listener at a notification, one at a time,
\* or a goroutine
ReadBans(by) ==
    /\ Len(reads) < MaxReads
    /\ \/ by = "listener" /\ pending > 0 /\ pending' = pending - 1 /\ UNCHANGED launches
          /\ \A i \in 1..Len(reads) : reads[i].by # "listener"
       \/ by = "goroutine" /\ launches > 0 /\ launches' = launches - 1 /\ UNCHANGED pending
    /\ reads' = Append(reads, [by |-> by, boards |-> BoardsOf(bans), stale |-> FALSE,
                               unheard |-> {}])
    /\ UNCHANGED <<bans, banCache, overtaken, unheard, lapsed, clientVars, scoreVars,
                   captchaVars>>

\* ... and replaces the cache under its lock: a read that is overtaken puts older
\* rows back
SwapCache(i) ==
    /\ i \in 1..Len(reads)
    /\ banCache' = reads[i].boards
    /\ overtaken' = reads[i].stale
    /\ unheard' = reads[i].unheard
    /\ reads' = [j \in 1..Len(reads) - 1 |->
                    IF j < i THEN [reads[j] EXCEPT !.stale = TRUE] ELSE reads[j + 1]]
    /\ UNCHANGED <<bans, pending, launches, lapsed, clientVars, scoreVars, captchaVars>>

\* IsBanned: a ban in the cache that the rows confirm
IsBanned(b) == /\ banCache \cap {All, b} # {}
               /\ BoardsOf(bans) \cap {All, b} # {}

\* A positive answer refreshes the cache in a goroutine
Launch(n) == launches' = IF launches + n + Len(reads) <= MaxReads THEN launches + n
                         ELSE launches

\* assertNotBanned: where there is no row for exactly this board it refreshes the
\* cache and lets the request pass, also when the ban is on all boards
AssertNotBanned(b) ==
    /\ bound.visits
    /\ IsBanned(b)
    /\ Launch(IF b \in BoardsOf(bans) THEN 1 ELSE 2)
    /\ UNCHANGED <<bans, banCache, pending, reads, overtaken, unheard, lapsed, clientVars,
                   scoreVars, captchaVars>>

(***************************************************************************)
(* Clients of the IP.                                                      *)
(***************************************************************************)
\* A step of client c that the check of board b lets through to "next", or ends
Checked(c, b, next) ==
    /\ IF IsBanned(b)
       THEN client' = [client EXCEPT ![c] = Gone] /\ Launch(1) /\ slipped' = slipped \ {c}
       ELSE /\ client' = [client EXCEPT ![c] = next]
            /\ slipped' = IF BoardsOf(bans) \cap {All, b} # {} THEN slipped \cup {c}
                          ELSE slipped \ {c}
            /\ UNCHANGED launches
    /\ UNCHANGED <<bans, banCache, pending, reads, overtaken, unheard, lapsed, banTask,
                   scoreVars, captchaVars>>

\* Handler checks "all"
Connect(c) == bound.visits /\ client[c].at = "gone" /\ Checked(c, All, [at |-> "open"])

\* synchronise checks the board, ...
Synchronise(c, b) == /\ client[c].at \in {"open", "synced"}
                     /\ Checked(c, b, [at |-> "checked", board |-> b])

\* ... and registerSync lists the client
RegisterSync(c) ==
    /\ client[c].at = "checked"
    /\ client' = [client EXCEPT ![c].at = "synced"]
    /\ UNCHANGED <<banVars, banTask, slipped, scoreVars, captchaVars>>

(***************************************************************************)
(* The spam score.                                                         *)
(***************************************************************************)
AtLeast(score, floor) == IF score = None \/ score < floor THEN floor ELSE score

\* mergeSpamScore
Merge(buffered, row) == AtLeast(row, clock - Threshold) + IF buffered = None THEN 0 ELSE buffered

IsSpam(score) == score - clock > SpamDistance

\* Mutant of IncrementSpamScore: the buffered score is replaced
IncrementReplaces ==
    /\ scored < bound.scored
    /\ scored' = scored + 1
    /\ buffer' = Increment
    /\ due' = AtLeast(due, clock - Threshold) + Increment
    /\ UNCHANGED <<clock, stored, spamBanned, errors, bound, banVars, clientVars, captchaVars>>

\* A post, text, an upload or a new captcha is scored
IncrementSpamScore ==
    /\ scored < bound.scored
    /\ scored' = scored + 1
    /\ buffer' = Increment + IF buffer = None THEN 0 ELSE buffer
    /\ due' = AtLeast(due, clock - Threshold) + Increment
    /\ UNCHANGED <<clock, stored, spamBanned, errors, bound, banVars, clientVars, captchaVars>>

\* syncSpamScores, every second: the score and the ban it deserves are one
\* transaction, under spamMu.  The buffer is emptied in any case.
SyncSpamScores ==
    /\ buffer # None
    /\ buffer' = None
    /\ LET score == Merge(buffer, stored)
       IN  /\ stored' = score
           /\ spamBanned' = (spamBanned \/ IsSpam(score))
           /\ IF IsSpam(score) THEN SystemBan ELSE UNCHANGED <<bans, unheard, reads>>
    /\ UNCHANGED <<clock, due, scored, errors, bound, banCache, pending, launches, overtaken,
                   lapsed, clientVars, captchaVars>>

\* The transaction fails: what was buffered is lost
LoseSpamScores ==
    /\ buffer # None
    /\ errors < bound.errors
    /\ errors' = errors + 1
    /\ buffer' = None
    /\ UNCHANGED <<clock, stored, due, spamBanned, scored, bound, banVars, clientVars, captchaVars>>

\* getSpamScore, of NeedCaptcha: every check of a spammer bans again
GetSpamScore ==
    /\ solved
    /\ IsSpam(Merge(buffer, stored))
    /\ SystemBan
    /\ spamBanned' = TRUE
    /\ UNCHANGED <<clock, buffer, stored, due, scored, errors, bound, banCache, pending, launches,
                   overtaken, lapsed, clientVars, captchaVars>>

\* expireSpamScores
ExpireSpamScores ==
    /\ stored # None
    /\ stored < clock - Threshold
    /\ stored' = None
    /\ UNCHANGED <<clock, buffer, due, spamBanned, scored, errors, bound, banVars, clientVars,
                   captchaVars>>

Tick == /\ clock < bound.time
        /\ clock' = clock + 1
        /\ UNCHANGED <<buffer, stored, due, spamBanned, scored, errors, bound, banVars, clientVars,
                       captchaVars>>

(***************************************************************************)
(* Captchas.                                                               *)
(***************************************************************************)
Go(a, step) == attempt' = [attempt EXCEPT ![a] = [at |-> step]]

\* The solution is right: last_solved_captchas, then ...
Solve(a) ==
    /\ bound.solutions /\ attempt[a].at = "idle" /\ ~IsBanned(All)
    /\ solved' = TRUE
    /\ Go(a, "solved")
    /\ UNCHANGED <<failed, botBanned, banVars, clientVars, scoreVars>>

\* ... resetSpamScore, under spamMu
ResetSpamScore(a) ==
    /\ attempt[a].at = "solved"
    /\ buffer' = None
    /\ \/ stored' = None /\ due' = -Threshold /\ UNCHANGED errors
       \/ errors < bound.errors /\ errors' = errors + 1 /\ UNCHANGED <<stored, due>>
    /\ Go(a, "idle")
    /\ UNCHANGED <<clock, spamBanned, scored, bound, solved, failed, botBanned, banVars, clientVars>>

\* The solution is wrong: failed_captchas, ...
Fail(a) ==
    /\ bound.solutions /\ attempt[a].at = "idle" /\ ~IsBanned(All)
    /\ failed < FailLimit + Cardinality(Attempt)
    /\ failed' = failed + 1
    /\ Go(a, "failed")
    /\ UNCHANGED <<solved, botBanned, banVars, clientVars, scoreVars>>

\* Mutant of CountFailed: one failure more is allowed
CountFailedBeyond(a) ==
    /\ attempt[a].at = "failed"
    /\ Go(a, IF failed > FailLimit THEN "bot" ELSE "idle")
    /\ UNCHANGED <<solved, failed, botBanned, banVars, clientVars, scoreVars>>

\* ... the count of them ...
CountFailed(a) ==
    /\ attempt[a].at = "failed"
    /\ Go(a, IF failed >= FailLimit THEN "bot" ELSE "idle")
    /\ UNCHANGED <<solved, failed, botBanned, banVars, clientVars, scoreVars>>

\* ... and the ban of a bot
BanBot(a) ==
    /\ attempt[a].at = "bot"
    /\ SystemBan
    /\ botBanned' = TRUE
    /\ Go(a, "idle")
    /\ UNCHANGED <<solved, failed, banCache, pending, launches, overtaken, lapsed,
                   clientVars, scoreVars>>

\* Three hours after a solution, an hour after a failure
Forget == \/ solved /\ solved' = FALSE
             /\ UNCHANGED <<failed, attempt, botBanned, banVars, clientVars, scoreVars>>
          \/ failed > 0 /\ failed' = failed - 1
             /\ UNCHANGED <<solved, attempt, botBanned, banVars, clientVars, scoreVars>>

(***************************************************************************)
(* The specification.                                                      *)
(***************************************************************************)
Propagate == \/ \E r \in Request : PropagateBans(r) \/ DisconnectByBoardAndIP(r)
             \/ \E by \in {"listener", "goroutine"} : ReadBans(by)
             \/ \E i \in 1..MaxReads : SwapCache(i)

\* All but the bans and lifted bans of requests, and the goroutines of Propagate
AbuseStep ==
    \/ \E b \in Boards : AssertNotBanned(b)
    \/ \E r \in bans : Expire(r)
    \/ \E c \in Client : Connect(c) \/ RegisterSync(c) \/ \E b \in Boards : Synchronise(c, b)
    \/ IncrementSpamScore \/ SyncSpamScores \/ LoseSpamScores \/ GetSpamScore
    \/ ExpireSpamScores \/ Tick \/ Forget
    \/ \E a \in Attempt : \/ Solve(a) \/ ResetSpamScore(a)
                          \/ Fail(a) \/ CountFailed(a) \/ BanBot(a)

(***************************************************************************)
(* Properties.                                                             *)
(***************************************************************************)
\* The type of the variables
AbuseTypeOK ==
    /\ bans \subseteq [board : Boards, post : {r.post : r \in bans}]
    /\ banCache \subseteq Boards /\ unheard \subseteq Boards /\ lapsed \subseteq Boards
    /\ pending \in Nat /\ launches \in 0..MaxReads /\ Len(reads) <= MaxReads
    /\ slipped \subseteq Client
    /\ buffer \in Nat \cup {None} /\ stored \in Int \cup {None} /\ due \in Int

\* Nothing is on its way to the cache
CacheAtRest == (\A r \in Request : banTask[r].at # "written") /\ pending = 0 /\ launches = 0 /\ reads = <<>>

\* bans.go:149, RefreshBanCache: at rest the cache holds every ban that was
\* notified and no other, but those that expired.  A refresh that was overtaken by
\* a later one is the exception: nothing orders the listener and the goroutines.
BansReach ==
    CacheAtRest /\ ~overtaken =>
        /\ BoardsOf(bans) \subseteq banCache \cup unheard
        /\ banCache \subseteq BoardsOf(bans) \cup lapsed

\* bans.go:38: after a ban the IP has no synchronised client on the board but those
\* whose check of the cache came before it knew of the ban
BannedLeave ==
    (\A r \in Request : banTask[r] = Idle) =>
        \A c \in Client \ slipped : \A x \in bans : x.post # None => ~Under(c, x.board)

\* antispam.go:18: without database errors the score that is checked is what the
\* actions sum to since the last captcha, neither lost in the buffer nor counted
\* twice: at most the time an increment waited is added by the floor of the score
ScoreIsKept ==
    errors = 0 =>
        LET exact == AtLeast(due, clock - Threshold)
        IN  Merge(buffer, stored) \in exact..(exact + clock)

\* antispam.go:77 and captcha.go:59: a score that was stored as that of a spammer
\* was banned with it, and as many failures as the limit ban the IP however the
\* requests that count them overlap
AbuseIsBanned ==
    /\ stored # None /\ IsSpam(stored) => spamBanned
    /\ failed >= FailLimit /\ (\A a \in Attempt : attempt[a].at \in {"idle", "solved"})
          => botBanned

\* What holds of bans, and of scores and captchas
BansHold == AbuseTypeOK /\ BansReach /\ BannedLeave
ScoresHold == ScoreIsKept /\ AbuseIsBanned

\* bans.go:131: every ban of the staff comes to the cache, and comes again whenever
\* it is missing, unless it is lifted, expires, or a refresh was overtaken
StaffBanned(b) == \E r \in bans : r.board = b /\ r.post # None
BanIsNoticed == \A b \in Boards :
    StaffBanned(b) ~> (b \in banCache \/ ~StaffBanned(b) \/ overtaken)

\* bans.go:46, "Automatically bans an IP": at rest the cache holds every ban
SystemBansReach == CacheAtRest => BoardsOf(bans) \subseteq banCache
=============================================================================

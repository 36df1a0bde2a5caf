------------------------- MODULE AdministrationProofs -------------------------
(***************************************************************************)
(* Of Administration and Abuse, for any accounts, boards, posts, requests, *)
(* clients, captcha attempts, limits and bounds: every board keeps an      *)
(* owner, a logout everywhere shuts out who knew an old password, bans are *)
(* logged and shadow bans hide, the copy of the bans is that of the rows   *)
(* at rest, a ban's clients leave, scores sum up and abuse is banned.      *)
(*                                                                         *)
(* AdminInv is inductive.  Its parts: the newest read of the bans is       *)
(* faithful, whoever is sought is sought by a request, the score is within *)
(* its tolerance of the exact one, failures are counted or being counted,  *)
(* requests carry what they were let in with, and insertions what they     *)
(* saw.                                                                    *)
(***************************************************************************)
EXTENDS Administration, SequenceTheorems, TLAPS

(***************************************************************************)
(* The copy of the bans and the clients of the IP.                         *)
(***************************************************************************)
\* A row has been written or deleted, and the listener will read the rows again
Coming == pending > 0 \/ \E r \in Request : banTask[r].at = "written"

\* A view of the rows that is as BansReach has it of the cache, but for what is coming
Faithful(view, missed) ==
    /\ Coming \/ BoardsOf(bans) \subseteq view \cup missed
    /\ pending > 0 \/ view \subseteq BoardsOf(bans) \cup lapsed

ReadType == [by : {"listener", "goroutine"}, boards : SUBSET Boards, stale : BOOLEAN,
             unheard : SUBSET {All}]

\* The types of what is said of bans
BansTyped ==
    /\ bans \subseteq [board : Boards, post : Post \cup {None}]
    /\ banCache \subseteq Boards /\ unheard \subseteq {All} /\ lapsed \subseteq Boards
    /\ pending \in Nat /\ launches \in 0..MaxReads
    /\ reads \in Seq(ReadType) /\ Len(reads) <= MaxReads

\* The reads that a swap has overtaken are the older ones
StaleFirst == \A i, j \in 1..Len(reads) : i <= j /\ reads[j].stale => reads[i].stale

\* The newest read of the rows is the last one under way, or the cache if it has been
\* swapped; it is faithful
LastIsNew == Len(reads) > 0 /\ ~reads[Len(reads)].stale
NewestFaithful ==
    /\ LastIsNew => Faithful(reads[Len(reads)].boards, reads[Len(reads)].unheard)
    /\ ~LastIsNew /\ ~overtaken => Faithful(banCache, unheard)

\* A request that propagates a ban is past its handler's own steps
Handled == \A r \in Request : request[r] # Idle => banTask[r] = Idle

TaskType == {Idle} \cup [at : {"written", "notified"}, board : Boards]
ClientType == {Gone, [at |-> "open"]} \cup [at : {"checked", "synced"}, board : Boards]

ClientsTyped ==
    /\ banTask \in [Request -> TaskType]
    /\ client \in [Client -> ClientType]
    /\ slipped \subseteq Client

\* A client that is on a board, or about to be listed, against a ban of the staff is
\* sought by the request of the ban, unless its check came before
Pursued ==
    \A c \in Client \ slipped : \A x \in bans :
        (/\ x.post # None
         /\ client[c].at \in {"checked", "synced"}
         /\ x.board \in {All, client[c].board})
            => \E r \in Request : banTask[r] # Idle /\ banTask[r].board = x.board

(***************************************************************************)
(* Scores and captchas.                                                    *)
(***************************************************************************)
ScoresTyped ==
    /\ clock \in Nat /\ errors \in Nat
    /\ buffer \in Nat \cup {None} /\ stored \in Int \cup {None} /\ due \in Int

CaptchasTyped ==
    /\ attempt \in [Attempt -> [at : {"idle", "solved", "failed", "bot"}]]
    /\ failed \in Nat

SpamIsBanned == stored # None /\ IsSpam(stored) => spamBanned

\* As many failures as the limit are banned, or one of them has yet to be counted
Counting ==
    failed >= FailLimit => botBanned \/ \E a \in Attempt : attempt[a].at \in {"failed", "bot"}

(***************************************************************************)
(* Requests, accounts, boards and posts.                                   *)
(***************************************************************************)
\* What a request in the middle of its handler carries
Carried(q) ==
    /\ q.op = "login" =>
          q.at = "verified" /\ q.password \in Nat /\ expelled[q.account] <= q.password
    /\ q.op \in {"login", "logoutAll", "changePassword"} =>
          q.account \in Account /\ password[q.account] # None
    /\ q.op = "changePassword" =>
          q \in [at : {"allowed", "verified"}, account : Account, op : {"changePassword"},
                board : Boards]
    /\ q.op \in {"assignStaff", "createBoard", "deleteBoard"} => q.board \in Boards
    /\ q.op = "createBoard" => q.account \in Account
    /\ q.op = "assignStaff" /\ q.at = "deleting" => \A s \in q.rows : s.board = q.board
    /\ q.op = "ban" =>
          q \in [at : {"allowed", "ip"}, account : Account, op : {"ban"}, board : Boards,
                post : Post]
    /\ q.op = "deletePostsByIP" => q.post \in Post

Carrying ==
    /\ request = [r \in Request |-> request[r]]
    /\ \A r \in Request : request[r].at # "idle" => Carried(request[r])

\* Who has a session is registered, and what is expelled was a password; who has a
\* session has a later password than what is expelled
Registered ==
    /\ password \in [Account -> Nat \cup {None}]
    /\ expelled \in [Account -> Nat]
    /\ sessions \subseteq [account : Account, password : Nat]
    /\ \A a \in Account : IF password[a] = None THEN expelled[a] = 0 ELSE expelled[a] <= password[a]
    /\ \A s \in sessions : password[s.account] # None /\ s.password >= expelled[s.account]

StaffTyped ==
    /\ boards \subseteq Board /\ assignments \in Nat
    /\ staff \subseteq [board : Boards, account : Account,
                        position : Janitor..BoardOwner, assignment : Nat]

\* An insertion that saw the shadow ban is of a deleted post
Doomed ==
    /\ insert = [p \in Post |-> insert[p]]
    /\ \A p \in Post : insert[p].at = "begun" => insert[p].doomed = insert[p].banned

PostsTyped == posts \in [Post -> {"absent", "shown", "deleted"}] /\ shadow \subseteq Board

BanInv == BansTyped /\ StaleFirst /\ NewestFaithful

-----------------------------------------------------------------------------
(* The copy of the bans: one lemma for each way a step disturbs it.        *)

\* The boards of some rows are boards
LEMMA BoardsOfRows ==
    ASSUME NEW R, R \subseteq [board : Boards, post : Post \cup {None}]
    PROVE  BoardsOf(R) \subseteq Boards
  BY DEF BoardsOf

\* Taking away rows leaves the boards of the others
LEMMA BoardsOfFewer ==
    ASSUME NEW R, NEW Q, Q \subseteq R
    PROVE  BoardsOf(Q) \subseteq BoardsOf(R)
  BY DEF BoardsOf

\* What the steps that start or end nothing but goroutines keep
LEMMA SameBans ==
    ASSUME BanInv, launches' \in 0..MaxReads,
           UNCHANGED <<bans, banCache, pending, reads, overtaken, unheard, lapsed, banTask>>
    PROVE  BanInv'
  <1>1. BansTyped'
    BY DEF BanInv, BansTyped
  <1>2. StaleFirst'
    BY DEF BanInv, StaleFirst
  <1>3. NewestFaithful'
    BY DEF BanInv, NewestFaithful, LastIsNew, Faithful, Coming
  <1> QED BY <1>1, <1>2, <1>3 DEF BanInv

\* A ban of the staff is coming to the cache
LEMMA BanAdded ==
    ASSUME BanInv, ClientsTyped, NEW r \in Request, NEW b \in Boards, NEW p \in Post,
           AddBan(r, b, p)
    PROVE  BanInv'
  <1>1. BansTyped'
    BY DEF BanInv, BansTyped, AddBan, Row
  <1>2. StaleFirst'
    BY DEF BanInv, StaleFirst, AddBan
  <1>3. banTask'[r].at = "written"
    BY DEF AddBan, ClientsTyped
  <1>4. Coming'
    BY <1>3 DEF Coming
  <1>5. BoardsOf(bans) \subseteq BoardsOf(bans')
    BY BoardsOfFewer DEF AddBan
  <1>6. \A view, missed : Faithful(view, missed)
            => (pending' > 0 \/ view \subseteq BoardsOf(bans') \cup lapsed')
    BY <1>5 DEF Faithful, AddBan
  <1>7. NewestFaithful'
    BY <1>4, <1>6 DEF BanInv, NewestFaithful, LastIsNew, Faithful, AddBan
  <1> QED BY <1>1, <1>2, <1>7 DEF BanInv

\* A ban that is lifted is notified
LEMMA BanLifted ==
    ASSUME BanInv, NEW b, NEW p, LiftBan(b, p)
    PROVE  BanInv'
  <1>1. BansTyped'
    BY DEF BanInv, BansTyped, LiftBan
  <1>2. StaleFirst'
    BY DEF BanInv, StaleFirst, LiftBan
  <1>3. pending' > 0
    BY DEF BanInv, BansTyped, LiftBan
  <1>4. NewestFaithful'
    BY <1>3 DEF NewestFaithful, Faithful, Coming
  <1> QED BY <1>1, <1>2, <1>4 DEF BanInv

\* Rows that go without a notification lapse
LEMMA RowsLapse ==
    ASSUME BanInv, bans' \subseteq bans,
           BoardsOf(bans) \subseteq BoardsOf(bans') \cup lapsed',
           lapsed \subseteq lapsed', lapsed' \subseteq Boards,
           UNCHANGED <<banCache, pending, launches, reads, overtaken, unheard, banTask>>
    PROVE  BanInv'
  <1>1. BansTyped'
    BY DEF BanInv, BansTyped
  <1>2. StaleFirst'
    BY DEF BanInv, StaleFirst
  <1>3. BoardsOf(bans') \subseteq BoardsOf(bans)
    BY BoardsOfFewer
  <1>4. Coming => Coming'
    BY DEF Coming
  <1>5. \A view, missed : Faithful(view, missed)
            => /\ Coming' \/ BoardsOf(bans') \subseteq view \cup missed
               /\ pending' > 0 \/ view \subseteq BoardsOf(bans') \cup lapsed'
    BY <1>3, <1>4 DEF Faithful
  <1>6. NewestFaithful'
    BY <1>5 DEF BanInv, NewestFaithful, LastIsNew, Faithful
  <1> QED BY <1>1, <1>2, <1>6 DEF BanInv

\* A ban expires
LEMMA BanExpires ==
    ASSUME BanInv, NEW r, Expire(r)
    PROVE  BanInv'
  <1>1. r.board \in Boards
    BY DEF Expire, BanInv, BansTyped
  <1>2. BoardsOf(bans) \subseteq BoardsOf(bans') \cup lapsed'
    BY DEF Expire, BoardsOf
  <1>3. lapsed' \subseteq Boards
    BY <1>1 DEF Expire, BanInv, BansTyped
  <1> QED BY <1>2, <1>3, RowsLapse DEF Expire, clientVars

\* A board goes with its bans
LEMMA BansDropped ==
    ASSUME BanInv, NEW b, DropBans(b)
    PROVE  BanInv'
  <1>1. BoardsOf(bans) \subseteq BoardsOf(bans') \cup lapsed'
    BY DEF DropBans, BoardsOf
  <1>2. lapsed' \subseteq Boards
    BY BoardsOfRows DEF DropBans, BanInv, BansTyped
  <1> QED BY <1>1, <1>2, RowsLapse DEF DropBans, clientVars

\* A ban of the system is not notified: it is unheard of until the next read
LEMMA SystemBanned ==
    ASSUME BanInv, SystemBan,
           UNCHANGED <<banCache, pending, launches, overtaken, lapsed, banTask>>
    PROVE  BanInv'
  <1> DEFINE n == Len(reads)
  <1>1. All \in Boards
    BY DEF Boards
  <1>2. bans' \subseteq [board : Boards, post : Post \cup {None}]
    BY <1>1 DEF SystemBan, Row, BanInv, BansTyped
  <1>3. /\ reads \in Seq(ReadType) /\ n \in Nat
        /\ \A i \in 1..n : reads[i] \in ReadType
    BY ElementOfSeq, LenProperties DEF BanInv, BansTyped
  <1>4. \A i \in 1..n : /\ [reads[i] EXCEPT !.unheard = {All}] \in ReadType
                        /\ [reads[i] EXCEPT !.unheard = {All}].boards = reads[i].boards
                        /\ [reads[i] EXCEPT !.unheard = {All}].stale = reads[i].stale
                        /\ [reads[i] EXCEPT !.unheard = {All}].unheard = {All}
    BY <1>1, <1>3 DEF ReadType
  <1> DEFINE unread(i) == [reads[i] EXCEPT !.unheard = {All}]
  <1>a. reads' = [i \in 1..n |-> unread(i)]
    BY DEF SystemBan
  <1>b. \A i \in 1..n : /\ unread(i) \in ReadType
                        /\ unread(i).boards = reads[i].boards
                        /\ unread(i).stale = reads[i].stale
                        /\ unread(i).unheard = {All}
    BY <1>4
  <1> HIDE DEF unread
  <1>c. reads' \in [1..n -> ReadType]
    BY <1>a, <1>b
  <1>5. /\ reads' \in Seq(ReadType) /\ Len(reads') = n
        /\ \A i \in 1..n : /\ reads'[i].boards = reads[i].boards
                           /\ reads'[i].stale = reads[i].stale
                           /\ reads'[i].unheard = {All}
    <2>1. reads' \in Seq(ReadType) /\ Len(reads') = n
      BY <1>3, <1>c, <1>a
    <2>2. \A i \in 1..n : reads'[i] = unread(i)
      BY <1>a
    <2> QED BY <1>b, <2>1, <2>2
  <1>6. BansTyped'
    BY <1>1, <1>2, <1>5 DEF SystemBan, BanInv, BansTyped
  <1>7. StaleFirst'
    BY <1>3, <1>5 DEF BanInv, StaleFirst
  <1>8. LastIsNew' <=> LastIsNew
    BY <1>3, <1>5 DEF LastIsNew
  <1>9. BoardsOf(bans') = BoardsOf(bans) \cup {All}
    <2>1. Row(All, None).board = All /\ bans' = bans \cup {Row(All, None)}
      BY DEF SystemBan, Row
    <2> QED BY <2>1 DEF BoardsOf
  <1>10. Coming' <=> Coming
    BY DEF Coming
  <1>11. unheard \subseteq {All} /\ \A i \in 1..n : reads[i].unheard \subseteq {All}
    BY <1>3 DEF ReadType, BanInv, BansTyped
  <1>12. LastIsNew => n \in 1..n
    BY <1>3 DEF LastIsNew
  <1>13. \A view, missed : missed \subseteq {All} /\ Faithful(view, missed)
            => /\ Coming' \/ BoardsOf(bans') \subseteq view \cup {All}
               /\ pending' > 0 \/ view \subseteq BoardsOf(bans') \cup lapsed'
    BY <1>9, <1>10 DEF Faithful
  <1>14. (LastIsNew => Faithful(reads[n].boards, reads[n].unheard))'
    BY <1>5, <1>8, <1>11, <1>12, <1>13 DEF BanInv, NewestFaithful, Faithful
  <1>15. unheard' = {All}
    BY <1>11 DEF SystemBan
  <1>16. (~LastIsNew /\ ~overtaken => Faithful(banCache, unheard))'
    BY <1>8, <1>11, <1>13, <1>15 DEF BanInv, NewestFaithful, Faithful
  <1>17. NewestFaithful'
    BY <1>14, <1>16 DEF NewestFaithful
  <1> QED BY <1>6, <1>7, <1>17 DEF BanInv

\* A read under way is the newest
LEMMA BansRead ==
    ASSUME BanInv, NEW by \in {"listener", "goroutine"}, ReadBans(by), UNCHANGED banTask
    PROVE  BanInv'
  <1> DEFINE n == Len(reads)
             new == [by |-> by, boards |-> BoardsOf(bans), stale |-> FALSE, unheard |-> {}]
  <1>1. BoardsOf(bans) \subseteq Boards
    BY BoardsOfRows DEF BanInv, BansTyped
  <1>2. new \in ReadType
    BY <1>1 DEF ReadType
  <1>3. reads \in Seq(ReadType) /\ n \in Nat
    BY LenProperties DEF BanInv, BansTyped
  <1>4. reads' = Append(reads, new)
    BY DEF ReadBans
  <1> HIDE DEF new
  <1>5. /\ reads' \in Seq(ReadType) /\ Len(reads') = n + 1
        /\ reads'[n + 1] = new
        /\ \A i \in 1..n : reads'[i] = reads[i]
    BY <1>2, <1>3, <1>4, AppendProperties
  <1>6. /\ pending' \in Nat /\ launches' \in 0..MaxReads
        /\ n < MaxReads
    BY AbuseAssumption DEF ReadBans, BanInv, BansTyped
  <1>7. BansTyped'
    BY <1>3, <1>5, <1>6, AbuseAssumption DEF ReadBans, BanInv, BansTyped
  <1>8. ~new.stale /\ new.boards = BoardsOf(bans) /\ new.unheard = {}
    BY DEF new
  <1>9. StaleFirst'
    BY <1>3, <1>5, <1>8 DEF BanInv, StaleFirst
  <1>10. LastIsNew'
    BY <1>3, <1>5, <1>8 DEF LastIsNew
  <1>11. bans' = bans /\ reads'[Len(reads')] = new
    BY <1>5 DEF ReadBans
  <1>12. NewestFaithful'
    BY <1>8, <1>10, <1>11 DEF NewestFaithful, Faithful
  <1> QED BY <1>7, <1>9, <1>12 DEF BanInv

\* The reads that are left when one of them is swapped
LEMMA ReadsLeft ==
    ASSUME reads \in Seq(ReadType), NEW i \in 1..Len(reads), SwapCache(i)
    PROVE  /\ reads' \in Seq(ReadType) /\ Len(reads') = Len(reads) - 1
           /\ \A j \in 1..Len(reads) - 1 :
                 /\ j < i => reads'[j] = [reads[j] EXCEPT !.stale = TRUE]
                 /\ \A k \in 1..Len(reads) : j >= i /\ k = j + 1 => reads'[j] = reads[k]
  <1> DEFINE n == Len(reads)
             left(j) == IF j < i THEN [reads[j] EXCEPT !.stale = TRUE] ELSE reads[j + 1]
  <1>1. /\ n \in Nat /\ i \in 1..n
        /\ \A j \in 1..n : reads[j] \in ReadType
    BY ElementOfSeq, LenProperties
  <1>2. \A j \in 1..n - 1 : j \in 1..n /\ j + 1 \in 1..n
    BY <1>1
  <1>3. \A j \in 1..n : [reads[j] EXCEPT !.stale = TRUE] \in ReadType
    BY <1>1 DEF ReadType
  <1>4. \A j \in 1..n - 1 : left(j) \in ReadType
    BY <1>1, <1>2, <1>3
  <1>5. reads' = [j \in 1..n - 1 |-> left(j)]
    BY DEF SwapCache
  <1>6. \A j \in 1..n - 1 : reads'[j] = left(j)
    BY <1>5
  <1>7. \A j \in 1..n - 1 : /\ j < i => reads'[j] = [reads[j] EXCEPT !.stale = TRUE]
                            /\ \A k \in 1..n : j >= i /\ k = j + 1 => reads'[j] = reads[k]
    <2> TAKE j \in 1..n - 1
    <2>1. reads'[j] = left(j)
      BY <1>6
    <2>2. CASE j < i
      BY <1>1, <2>1, <2>2
    <2>3. CASE ~(j < i)
      BY <1>1, <2>1, <2>3
    <2> QED BY <2>2, <2>3
  <1> HIDE DEF left
  <1>8. n - 1 \in Nat
    BY <1>1
  <1>9. reads' \in [1..n - 1 -> ReadType]
    BY <1>4, <1>5
  <1>10. reads' \in Seq(ReadType) /\ Len(reads') = n - 1
    BY <1>8, <1>9
  <1> QED BY <1>7, <1>10

\* A swap of the newest read makes the cache the newest; another one leaves it the
\* newest, or overtakes the cache
LEMMA CacheSwapped ==
    ASSUME BanInv, NEW i \in Nat, SwapCache(i), UNCHANGED banTask
    PROVE  BanInv'
  <1> DEFINE n == Len(reads)
  <1>1. /\ reads \in Seq(ReadType) /\ n \in Nat /\ i \in 1..n
        /\ \A j \in 1..n : reads[j] \in ReadType
    BY ElementOfSeq, LenProperties DEF BanInv, BansTyped, SwapCache
  <1>2. /\ reads' \in Seq(ReadType) /\ Len(reads') = n - 1
        /\ \A j \in 1..n - 1 : /\ j < i => reads'[j] = [reads[j] EXCEPT !.stale = TRUE]
                              /\ \A k \in 1..n : j >= i /\ k = j + 1 => reads'[j] = reads[k]
    BY <1>1, ReadsLeft
  <1>3. \A j \in 1..n - 1 : /\ j < i => reads'[j].stale
                            /\ j >= i => reads'[j].stale = reads[j + 1].stale
    <2> TAKE j \in 1..n - 1
    <2>1. CASE j < i
      <3>1. reads[j] \in ReadType
        BY <1>1
      <3>2. [reads[j] EXCEPT !.stale = TRUE].stale = TRUE
        BY <3>1 DEF ReadType
      <3>3. reads'[j] = [reads[j] EXCEPT !.stale = TRUE]
        BY <1>2, <2>1
      <3>4. reads'[j].stale = TRUE
        BY <3>2, <3>3
      <3>5. ~(j >= i)
        BY <1>1, <2>1
      <3> QED BY <3>4, <3>5
    <2>2. CASE ~(j < i)
      <3>1. j >= i /\ j + 1 \in 1..n
        BY <1>1, <2>2
      <3>2. reads'[j] = reads[j + 1]
        BY <1>2, <3>1
      <3> QED BY <2>2, <3>2
    <2> QED BY <2>1, <2>2
  <1>4. /\ banCache' = reads[i].boards /\ overtaken' = reads[i].stale
        /\ unheard' = reads[i].unheard
        /\ UNCHANGED <<bans, pending, launches, lapsed>>
    BY DEF SwapCache
  <1>5. reads[i].boards \subseteq Boards /\ reads[i].unheard \subseteq {All}
    BY <1>1 DEF ReadType
  <1>6. BansTyped'
    BY <1>1, <1>2, <1>4, <1>5, AbuseAssumption DEF BanInv, BansTyped
  <1>7. StaleFirst'
    <2> SUFFICES ASSUME NEW j \in 1..n - 1, NEW k \in 1..n - 1, j <= k, reads'[k].stale
                 PROVE  reads'[j].stale
      BY <1>2 DEF StaleFirst
    <2>1. CASE j < i
      BY <1>3, <2>1
    <2>2. CASE ~(j < i)
      <3>1. j >= i /\ k >= i /\ j + 1 \in 1..n /\ k + 1 \in 1..n /\ j + 1 <= k + 1
        BY <1>1, <2>2
      <3>2. reads[k + 1].stale
        BY <1>3, <3>1
      <3>3. reads[j + 1].stale
        BY <3>1, <3>2 DEF BanInv, StaleFirst
      <3> QED BY <1>3, <3>1, <3>3
    <2> QED BY <2>1, <2>2
  <1>8. \A view, missed : Faithful(view, missed) =>
            /\ Coming' \/ BoardsOf(bans') \subseteq view \cup missed
            /\ pending' > 0 \/ view \subseteq BoardsOf(bans') \cup lapsed'
    BY <1>4 DEF Faithful, Coming
  <1>9. NewestFaithful'
    <2>1. CASE LastIsNew /\ i < n
      <3>1. n - 1 \in 1..n - 1 /\ n - 1 >= i /\ (n - 1) + 1 = n
        BY <1>1, <2>1
      <3>2. reads'[n - 1] = reads[n]
        <4>1. n \in 1..n /\ n = (n - 1) + 1
          BY <1>1
        <4> QED BY <1>2, <3>1, <4>1
      <3>3. LastIsNew'
        BY <1>2, <2>1, <3>1, <3>2 DEF LastIsNew
      <3> QED BY <1>2, <1>8, <2>1, <3>2, <3>3 DEF BanInv, NewestFaithful, Faithful
    <2>2. CASE LastIsNew /\ i = n
      <3>1. ~LastIsNew'
        BY <1>1, <1>2, <1>3, <2>2 DEF LastIsNew
      <3> QED BY <1>4, <1>8, <2>2, <3>1 DEF BanInv, NewestFaithful, Faithful
    <2>3. CASE ~LastIsNew
      <3>1. reads[n].stale
        BY <1>1, <2>3 DEF LastIsNew
      <3>2. reads[i].stale
        BY <1>1, <3>1 DEF BanInv, StaleFirst
      <3>3. ~LastIsNew'
        <4> SUFFICES ASSUME n - 1 > 0
                     PROVE  reads'[n - 1].stale
          BY <1>2 DEF LastIsNew
        <4>1. n - 1 \in 1..n - 1 /\ (n - 1) + 1 = n
          BY <1>1
        <4> QED BY <1>1, <1>3, <3>1, <4>1
      <3> QED BY <1>4, <3>2, <3>3 DEF NewestFaithful
    <2> QED BY <1>1, <2>1, <2>2, <2>3
  <1> QED BY <1>6, <1>7, <1>9 DEF BanInv

\* A notification is under way
LEMMA BansPropagated ==
    ASSUME BanInv, NEW r \in Request, PropagateBans(r)
    PROVE  BanInv'
  <1>1. BansTyped'
    BY DEF BanInv, BansTyped, PropagateBans
  <1>2. StaleFirst'
    BY DEF BanInv, StaleFirst, PropagateBans
  <1>3. pending' > 0
    BY DEF BanInv, BansTyped, PropagateBans
  <1>4. NewestFaithful'
    BY <1>3 DEF NewestFaithful, Faithful, Coming
  <1> QED BY <1>1, <1>2, <1>4 DEF BanInv

\* The task that is over had notified
LEMMA TaskEnds ==
    ASSUME BanInv, ClientsTyped, NEW r \in Request, DisconnectByBoardAndIP(r)
    PROVE  BanInv'
  <1>1. \A q \in Request : banTask[q].at = "written" => banTask'[q].at = "written"
    BY DEF DisconnectByBoardAndIP, ClientsTyped
  <1>2. Coming => Coming'
    BY <1>1 DEF Coming, DisconnectByBoardAndIP, banVars
  <1>3. UNCHANGED banVars
    BY DEF DisconnectByBoardAndIP
  <1>4. \A view, missed : Faithful(view, missed) =>
            /\ Coming' \/ BoardsOf(bans') \subseteq view \cup missed
            /\ pending' > 0 \/ view \subseteq BoardsOf(bans') \cup lapsed'
    BY <1>2, <1>3 DEF Faithful, banVars
  <1>5. BansTyped' /\ StaleFirst'
    BY <1>3 DEF BanInv, BansTyped, StaleFirst, banVars
  <1>6. NewestFaithful'
    BY <1>3, <1>4 DEF BanInv, NewestFaithful, LastIsNew, Faithful, banVars
  <1> QED BY <1>5, <1>6 DEF BanInv

-----------------------------------------------------------------------------
(* The clients of the IP.                                                  *)

LeaveInv == ClientsTyped /\ Pursued

\* The client is under the ban of row x
Sought(c, x) == /\ x.post # None
                /\ client[c].at \in {"checked", "synced"}
                /\ x.board \in {All, client[c].board}

\* Without a new row of the staff, nothing is disturbed
LEMMA SameClients ==
    ASSUME LeaveInv, \A x \in bans' : x.post # None => x \in bans, UNCHANGED clientVars
    PROVE  LeaveInv'
  BY DEF LeaveInv, ClientsTyped, Pursued, clientVars

\* The request that adds a row seeks its clients
LEMMA BanSeeks ==
    ASSUME LeaveInv, NEW r \in Request, NEW b \in Boards, NEW p \in Post,
           banTask[r] = Idle, AddBan(r, b, p)
    PROVE  LeaveInv'
  <1> DEFINE new == [at |-> "written", board |-> b]
  <1>1. /\ banTask' = [banTask EXCEPT ![r] = new]
        /\ UNCHANGED <<client, slipped>>
        /\ bans' = bans \cup {Row(b, p)}
    BY DEF AddBan
  <1>2. new \in TaskType /\ new # Idle /\ new.board = b
    BY DEF TaskType, Idle
  <1> HIDE DEF new
  <1>3. ClientsTyped'
    BY <1>1, <1>2 DEF LeaveInv, ClientsTyped
  <1>4. banTask'[r] = new /\ \A q \in Request \ {r} : banTask'[q] = banTask[q]
    BY <1>1 DEF LeaveInv, ClientsTyped
  <1>5. Row(b, p).board = b
    BY DEF Row
  <1>6. Pursued'
    <2> SUFFICES ASSUME NEW c \in Client \ slipped, NEW x \in bans', Sought(c, x)
                 PROVE  \E q \in Request : banTask'[q] # Idle /\ banTask'[q].board = x.board
      BY <1>1 DEF Pursued, Sought
    <2>1. CASE x \in bans
      <3>1. PICK q \in Request : banTask[q] # Idle /\ banTask[q].board = x.board
        BY <2>1 DEF LeaveInv, Pursued, Sought
      <3>2. q # r
        BY <3>1
      <3> QED BY <1>4, <3>1, <3>2
    <2>2. CASE x = Row(b, p)
      BY <1>2, <1>4, <1>5, <2>2
    <2> QED BY <1>1, <2>1, <2>2
  <1> QED BY <1>3, <1>6 DEF LeaveInv

\* A check that lets a client through has seen no ban, or is of rows that are older
LEMMA ClientChecked ==
    ASSUME LeaveInv, NEW c \in Client, NEW b \in Boards, NEW next \in ClientType,
           next.at \in {"checked", "synced"} => next.board = b, Checked(c, b, next)
    PROVE  LeaveInv'
  <1>1. UNCHANGED <<bans, banTask>>
    BY DEF Checked
  <1>2. PICK new \in {Gone, next} : client' = [client EXCEPT ![c] = new]
    BY DEF Checked
  <1>3. /\ slipped' \subseteq slipped \cup {c}
        /\ slipped \ {c} \subseteq slipped'
    BY DEF Checked
  <1>4. Gone \in ClientType /\ Gone.at = "gone"
    BY DEF ClientType, Gone
  <1>5. ClientsTyped'
    BY <1>1, <1>2, <1>3, <1>4 DEF LeaveInv, ClientsTyped
  <1>6. client'[c] = new /\ \A d \in Client \ {c} : client'[d] = client[d]
    BY <1>2 DEF LeaveInv, ClientsTyped
  <1>7. Pursued'
    <2> SUFFICES ASSUME NEW d \in Client, d \notin slipped', NEW x \in bans, Sought(d, x)'
                 PROVE  \E q \in Request : banTask[q] # Idle /\ banTask[q].board = x.board
      BY <1>1 DEF Pursued, Sought
    <2>1. CASE d # c
      <3>1. d \in Client \ slipped /\ client'[d] = client[d]
        BY <1>3, <1>6, <2>1
      <3>2. Sought(d, x)
        BY <3>1 DEF Sought
      <3> QED BY <3>1, <3>2 DEF LeaveInv, Pursued, Sought
    <2>2. CASE d = c
      <3>1. new.at \in {"checked", "synced"} /\ x.board \in {All, new.board}
        BY <1>6, <2>2 DEF Sought
      <3>2. new = next /\ new # Gone
        BY <1>4, <3>1
      <3>3. x.board \in {All, b}
        BY <3>1, <3>2
      <3>4. x.board \in BoardsOf(bans) \cap {All, b}
        BY <3>3 DEF BoardsOf
      <3>5. ~IsBanned(b)
        <4> SUFFICES ASSUME IsBanned(b)
                     PROVE  FALSE
          OBVIOUS
        <4>1. client' = [client EXCEPT ![c] = Gone]
          BY DEF Checked
        <4>2. client'[c] = Gone
          BY <4>1 DEF LeaveInv, ClientsTyped
        <4> QED BY <1>6, <3>2, <4>2
      <3>6. slipped' = slipped \cup {c}
        BY <3>4, <3>5 DEF Checked
      <3> QED BY <2>2, <3>6
    <2> QED BY <2>1, <2>2
  <1> QED BY <1>5, <1>7 DEF LeaveInv

\* registerSync lists a client that was checked
LEMMA ClientListed ==
    ASSUME LeaveInv, NEW c \in Client, RegisterSync(c)
    PROVE  LeaveInv'
  <1> DEFINE new == [client[c] EXCEPT !.at = "synced"]
  <1>1. /\ client[c].at = "checked" /\ client' = [client EXCEPT ![c] = new]
        /\ UNCHANGED <<bans, banTask, slipped>>
    BY DEF RegisterSync, banVars
  <1>2. client[c] \in [at : {"checked", "synced"}, board : Boards]
    BY <1>1 DEF LeaveInv, ClientsTyped, ClientType, Gone
  <1>3. new \in ClientType /\ new.at = "synced" /\ new.board = client[c].board
    BY <1>2 DEF ClientType
  <1> HIDE DEF new
  <1>4. ClientsTyped'
    BY <1>1, <1>3 DEF LeaveInv, ClientsTyped
  <1>5. client'[c] = new /\ \A d \in Client \ {c} : client'[d] = client[d]
    BY <1>1 DEF LeaveInv, ClientsTyped
  <1>6. Pursued'
    <2> SUFFICES ASSUME NEW d \in Client \ slipped, NEW x \in bans, Sought(d, x)'
                 PROVE  \E q \in Request : banTask[q] # Idle /\ banTask[q].board = x.board
      BY <1>1 DEF Pursued, Sought
    <2>1. Sought(d, x)
      BY <1>1, <1>3, <1>5 DEF Sought
    <2> QED BY <2>1 DEF LeaveInv, Pursued, Sought
  <1> QED BY <1>4, <1>6 DEF LeaveInv

\* The notification changes nothing about the clients
LEMMA SeekingGoesOn ==
    ASSUME LeaveInv, NEW r \in Request, PropagateBans(r)
    PROVE  LeaveInv'
  <1> DEFINE new == [banTask[r] EXCEPT !.at = "notified"]
  <1>1. /\ banTask[r].at = "written" /\ banTask' = [banTask EXCEPT ![r] = new]
        /\ UNCHANGED <<bans, client, slipped>>
    BY DEF PropagateBans
  <1>2. banTask[r] \in [at : {"written", "notified"}, board : Boards]
    BY <1>1 DEF LeaveInv, ClientsTyped, TaskType, Idle
  <1>3. new \in TaskType /\ new # Idle /\ new.board = banTask[r].board
    BY <1>2 DEF TaskType, Idle
  <1> HIDE DEF new
  <1>4. ClientsTyped'
    BY <1>1, <1>3 DEF LeaveInv, ClientsTyped
  <1>5. banTask'[r] = new /\ \A q \in Request \ {r} : banTask'[q] = banTask[q]
    BY <1>1 DEF LeaveInv, ClientsTyped
  <1>6. \A q \in Request : banTask[q] # Idle =>
            banTask'[q] # Idle /\ banTask'[q].board = banTask[q].board
    BY <1>3, <1>5
  <1>7. Pursued'
    BY <1>1, <1>6 DEF LeaveInv, Pursued
  <1> QED BY <1>4, <1>7 DEF LeaveInv

\* The clients on the board of the ban leave, those about to be listed slip through
LEMMA SeekingEnds ==
    ASSUME LeaveInv, NEW r \in Request, DisconnectByBoardAndIP(r)
    PROVE  LeaveInv'
  <1> DEFINE b == banTask[r].board
             left(c) == IF Under(c, b) THEN Gone ELSE client[c]
  <1>1. /\ banTask[r].at = "notified"
        /\ banTask' = [banTask EXCEPT ![r] = Idle]
        /\ client' = [c \in Client |-> left(c)]
        /\ slipped' = {c \in slipped : client'[c] # Gone}
                          \cup {c \in Client : client[c].at = "checked"}
        /\ UNCHANGED bans
    BY DEF DisconnectByBoardAndIP, banVars
  <1>2. Gone \in ClientType /\ Gone.at = "gone"
    BY DEF ClientType, Gone
  <1>3. \A c \in Client : left(c) \in ClientType
    BY <1>2 DEF LeaveInv, ClientsTyped
  <1>4. \A c \in Client : client'[c] = left(c)
    BY <1>1
  <1>5. ClientsTyped'
    <2> HIDE DEF left
    <2>1. client' \in [Client -> ClientType]
      BY <1>1, <1>3
    <2>2. slipped' \subseteq Client
      BY <1>1 DEF LeaveInv, ClientsTyped
    <2>3. banTask' \in [Request -> TaskType]
      BY <1>1 DEF LeaveInv, ClientsTyped, TaskType
    <2> QED BY <2>1, <2>2, <2>3 DEF ClientsTyped
  <1>6. \A q \in Request \ {r} : banTask'[q] = banTask[q]
    BY <1>1 DEF LeaveInv, ClientsTyped
  <1>7. Pursued'
    <2> SUFFICES ASSUME NEW c \in Client, c \notin slipped', NEW x \in bans, Sought(c, x)'
                 PROVE  \E q \in Request : banTask'[q] # Idle /\ banTask'[q].board = x.board
      BY <1>1 DEF Pursued, Sought
    <2>1. left(c).at # "gone" /\ client'[c] = left(c)
      BY <1>4 DEF Sought
    <2>2. ~Under(c, b) /\ left(c) = client[c]
      BY <1>2, <2>1
    <2>3. c \notin slipped /\ client[c].at # "checked"
      BY <1>1, <1>2, <2>1, <2>2
    <2>4. Sought(c, x)
      BY <2>1, <2>2 DEF Sought
    <2>5. client[c].at = "synced"
      BY <2>3, <2>4 DEF Sought
    <2>6. x.board # b
      BY <2>2, <2>4, <2>5 DEF Under, Sought
    <2>7. PICK q \in Request : banTask[q] # Idle /\ banTask[q].board = x.board
      BY <2>3, <2>4 DEF LeaveInv, Pursued, Sought
    <2>8. q # r
      BY <2>6, <2>7
    <2> QED BY <1>6, <2>7, <2>8
  <1> QED BY <1>5, <1>7 DEF LeaveInv

-----------------------------------------------------------------------------
(* Scores and captchas.                                                    *)

ScoreInv == ScoresTyped /\ ScoreIsKept /\ SpamIsBanned
CaptchaInv == CaptchasTyped /\ Counting

\* What is buffered, as a number
Buffered(b) == IF b = None THEN 0 ELSE b

\* The floor of a score
LEMMA Floored ==
    ASSUME NEW s \in Int \cup {None}, NEW f \in Int
    PROVE  /\ AtLeast(s, f) \in Int /\ AtLeast(s, f) >= f
           /\ s \in Int => AtLeast(s, f) >= s
           /\ AtLeast(s, f) \in {s, f}
           /\ s = None => AtLeast(s, f) = f
  BY AbuseAssumption DEF AtLeast

\* The merged score is the floored one and what is buffered
LEMMA MergedScore ==
    ASSUME ScoresTyped
    PROVE  /\ Merge(buffer, stored) = AtLeast(stored, clock - 1) + Buffered(buffer)
           /\ Merge(buffer, stored) \in Int
           /\ Buffered(buffer) \in Nat
           /\ Merge(buffer, stored) >= clock - 1
           /\ AtLeast(stored, clock - 1) \in Int
           /\ AtLeast(due, clock - 1) \in Int /\ AtLeast(due, clock - 1) >= clock - 1
  <1>1. clock - 1 \in Int /\ Threshold = 1
    BY DEF ScoresTyped, Threshold
  <1>2. /\ AtLeast(stored, clock - 1) \in Int /\ AtLeast(stored, clock - 1) >= clock - 1
        /\ AtLeast(due, clock - 1) \in Int /\ AtLeast(due, clock - 1) >= clock - 1
    BY <1>1, Floored DEF ScoresTyped
  <1>3. Buffered(buffer) \in Nat
    BY AbuseAssumption DEF Buffered, ScoresTyped
  <1>4. Merge(buffer, stored) = AtLeast(stored, clock - 1) + Buffered(buffer)
    BY <1>1 DEF Merge, Buffered
  <1> QED BY <1>1, <1>2, <1>3, <1>4 DEF ScoresTyped

\* ScoreIsKept as inequalities
Kept == /\ AtLeast(due, clock - 1) <= AtLeast(stored, clock - 1) + Buffered(buffer)
        /\ AtLeast(stored, clock - 1) + Buffered(buffer) <= AtLeast(due, clock - 1) + clock

\* The property is a pair of inequalities
LEMMA KeptIsScoreKept ==
    ASSUME ScoresTyped
    PROVE  ScoreIsKept <=> (errors = 0 => Kept)
  <1>1. Threshold = 1
    BY DEF Threshold
  <1>2. clock \in Nat
    BY DEF ScoresTyped
  <1> QED BY <1>1, <1>2, MergedScore DEF ScoreIsKept, Kept

\* ... in the next state too
LEMMA KeptIsScoreKeptNext ==
    ASSUME ScoresTyped'
    PROVE  ScoreIsKept' <=> (errors' = 0 => Kept')
  <1>1. Threshold = 1
    BY DEF Threshold
  <1>2. clock' \in Nat /\ due' \in Int /\ stored' \in Int \cup {None} /\ clock' - 1 \in Int
    BY DEF ScoresTyped
  <1>3. Buffered(buffer') \in Nat
    BY AbuseAssumption DEF Buffered, ScoresTyped
  <1>4. AtLeast(stored', clock' - 1) \in Int /\ AtLeast(due', clock' - 1) \in Int
    BY <1>2, Floored
  <1>5. Merge(buffer, stored)' = AtLeast(stored', clock' - 1) + Buffered(buffer')
    BY DEF Merge, Buffered, Threshold
  <1>6. ScoreIsKept' <=> (errors' = 0 => Merge(buffer, stored)'
            \in AtLeast(due', clock' - 1)..(AtLeast(due', clock' - 1) + clock'))
    BY DEF ScoreIsKept, Threshold
  <1> QED BY <1>2, <1>3, <1>4, <1>5, <1>6 DEF Kept

\* An action that is scored
LEMMA ScoreIncremented ==
    ASSUME ScoreInv, IncrementSpamScore
    PROVE  ScoreInv'
  <1>1. /\ buffer' = Increment + Buffered(buffer)
        /\ due' = AtLeast(due, clock - 1) + Increment
        /\ UNCHANGED <<clock, stored, spamBanned, errors>>
    BY DEF IncrementSpamScore, Buffered, Threshold
  <1>2. ScoresTyped
    BY DEF ScoreInv
  <1>3. Increment \in Nat /\ Buffered(buffer) \in Nat /\ AtLeast(due, clock - 1) \in Int
    BY <1>2, MergedScore, AbuseAssumption
  <1>4. buffer' \in Nat /\ due' \in Int
    BY <1>1, <1>3
  <1>5. ScoresTyped'
    BY <1>1, <1>4 DEF ScoreInv, ScoresTyped
  <1>6. Buffered(buffer') = Increment + Buffered(buffer)
    BY <1>1, <1>4, AbuseAssumption DEF Buffered
  <1>7. Kept => Kept'
    <2>1. clock \in Nat /\ AtLeast(due, clock - 1) >= clock - 1
          /\ AtLeast(stored, clock - 1) \in Int
      BY <1>2, MergedScore DEF ScoresTyped
    <2>2. due' >= clock - 1
      BY <1>1, <1>3, <2>1
    <2>3. AtLeast(due', clock - 1) = due'
      BY <1>4, <2>1, <2>2, AbuseAssumption DEF AtLeast
    <2> QED BY <1>1, <1>3, <1>6, <2>1, <2>3 DEF Kept
  <1>8. ScoreIsKept'
    BY <1>1, <1>2, <1>5, <1>7, KeptIsScoreKept, KeptIsScoreKeptNext DEF ScoreInv
  <1>9. SpamIsBanned'
    BY <1>1 DEF ScoreInv, SpamIsBanned, IsSpam
  <1> QED BY <1>5, <1>8, <1>9 DEF ScoreInv

\* The buffered score comes to the row
LEMMA ScoreSynced ==
    ASSUME ScoreInv, SyncSpamScores
    PROVE  ScoreInv'
  <1> DEFINE score == Merge(buffer, stored)
  <1>1. /\ buffer' = None /\ stored' = score
        /\ IsSpam(score) => spamBanned'
        /\ UNCHANGED <<clock, due, errors>>
    BY DEF SyncSpamScores
  <1>2. ScoresTyped
    BY DEF ScoreInv
  <1>3. /\ score \in Int /\ score >= clock - 1 /\ clock \in Nat
        /\ score = AtLeast(stored, clock - 1) + Buffered(buffer)
    BY <1>2, MergedScore DEF ScoresTyped
  <1> HIDE DEF score
  <1>4. ScoresTyped'
    BY <1>1, <1>3 DEF ScoreInv, ScoresTyped
  <1>5. Buffered(buffer') = 0
    BY <1>1 DEF Buffered
  <1>6. AtLeast(score, clock - 1) = score
    BY <1>3, AbuseAssumption DEF AtLeast
  <1>7. Kept => Kept'
    BY <1>1, <1>3, <1>5, <1>6 DEF Kept
  <1>8. ScoreIsKept'
    BY <1>1, <1>2, <1>4, <1>7, KeptIsScoreKept, KeptIsScoreKeptNext DEF ScoreInv
  <1>9. SpamIsBanned'
    BY <1>1 DEF SpamIsBanned, IsSpam
  <1> QED BY <1>4, <1>8, <1>9 DEF ScoreInv

\* A database error ends what is said of the sum
LEMMA ScoreLost ==
    ASSUME ScoreInv, LoseSpamScores
    PROVE  ScoreInv'
  <1>1. ScoresTyped' /\ errors' # 0
    BY DEF LoseSpamScores, ScoreInv, ScoresTyped
  <1>2. SpamIsBanned'
    BY DEF LoseSpamScores, ScoreInv, SpamIsBanned, IsSpam
  <1> QED BY <1>1, <1>2 DEF ScoreInv, ScoreIsKept

\* The row of a score that is below the floor goes
LEMMA ScoreExpires ==
    ASSUME ScoreInv, ExpireSpamScores
    PROVE  ScoreInv'
  <1>1. /\ stored # None /\ stored < clock - 1 /\ stored' = None
        /\ UNCHANGED <<clock, buffer, due, spamBanned, errors>>
    BY DEF ExpireSpamScores, Threshold
  <1>2. ScoresTyped
    BY DEF ScoreInv
  <1>3. ScoresTyped'
    BY <1>1, <1>2 DEF ScoresTyped
  <1>4. AtLeast(stored', clock - 1) = AtLeast(stored, clock - 1)
    BY <1>1 DEF AtLeast
  <1>5. Kept => Kept'
    BY <1>1, <1>4 DEF Kept
  <1>6. ScoreIsKept'
    BY <1>1, <1>2, <1>3, <1>5, KeptIsScoreKept, KeptIsScoreKeptNext DEF ScoreInv
  <1>7. SpamIsBanned'
    BY <1>1 DEF SpamIsBanned
  <1> QED BY <1>3, <1>6, <1>7 DEF ScoreInv

\* With the time the floor rises by as much as the tolerance
LEMMA ScoreAges ==
    ASSUME ScoreInv, Tick
    PROVE  ScoreInv'
  <1>1. /\ clock' = clock + 1
        /\ UNCHANGED <<buffer, stored, due, spamBanned, errors>>
    BY DEF Tick
  <1>2. ScoresTyped /\ clock \in Nat
    BY DEF ScoreInv, ScoresTyped
  <1>3. ScoresTyped'
    BY <1>1, <1>2 DEF ScoresTyped
  <1>4. Buffered(buffer) \in Nat
    BY <1>2, MergedScore
  <1>5. \A s \in Int \cup {None} : /\ AtLeast(s, clock) \in Int /\ AtLeast(s, clock - 1) \in Int
                                   /\ AtLeast(s, clock - 1) >= clock - 1
                                   /\ AtLeast(s, clock) >= AtLeast(s, clock - 1)
                                   /\ AtLeast(s, clock) <= AtLeast(s, clock - 1) + 1
                                   /\ AtLeast(s, clock) \in {clock, AtLeast(s, clock - 1)}
                                   /\ AtLeast(s, clock) >= clock
    BY <1>2, AbuseAssumption DEF AtLeast
  <1>6. due \in Int /\ stored \in Int \cup {None}
    BY <1>2 DEF ScoresTyped
  <1>7. Kept => Kept'
    <2> DEFINE d == AtLeast(due, clock)
               d0 == AtLeast(due, clock - 1)
               s == AtLeast(stored, clock)
               s0 == AtLeast(stored, clock - 1)
               b == Buffered(buffer)
    <2>1. /\ d \in Int /\ d0 \in Int /\ d0 >= clock - 1 /\ d >= d0 /\ d <= d0 + 1
          /\ d \in {clock, d0}
      BY <1>5, <1>6
    <2>2. /\ s \in Int /\ s0 \in Int /\ s >= s0 /\ s <= s0 + 1 /\ s >= clock
      BY <1>5, <1>6
    <2>3. clock' - 1 = clock
      BY <1>1, <1>2
    <2>4. Kept => d0 <= s0 + b /\ s0 + b <= d0 + clock
      BY DEF Kept
    <2>5. Kept' <=> d <= s + b /\ s + b <= d + (clock + 1)
      <3>1. Kept' <=> /\ AtLeast(due', clock' - 1)
                            <= AtLeast(stored', clock' - 1) + Buffered(buffer')
                      /\ AtLeast(stored', clock' - 1) + Buffered(buffer')
                            <= AtLeast(due', clock' - 1) + clock'
        BY DEF Kept
      <3> QED BY <1>1, <2>3, <3>1
    <2> HIDE DEF d, d0, s, s0, b
    <2>6. b \in Nat
      BY <1>4 DEF b
    <2> QED BY <1>2, <2>1, <2>2, <2>4, <2>5, <2>6
  <1>8. ScoreIsKept'
    BY <1>1, <1>2, <1>3, <1>7, KeptIsScoreKept, KeptIsScoreKeptNext DEF ScoreInv
  <1>9. SpamIsBanned'
    <2>1. stored # None /\ stored - (clock + 1) > 10 => stored - clock > 10
      BY <1>2, <1>6
    <2> QED BY <1>1, <2>1 DEF ScoreInv, SpamIsBanned, IsSpam, SpamDistance, Threshold
  <1> QED BY <1>3, <1>8, <1>9 DEF ScoreInv

\* A captcha is solved: the sum starts anew
LEMMA ScoreReset ==
    ASSUME ScoreInv, NEW a, ResetSpamScore(a)
    PROVE  ScoreInv'
  <1>1. /\ buffer' = None
        /\ \/ stored' = None /\ due' = -1 /\ errors' = errors
           \/ errors' = errors + 1 /\ UNCHANGED <<stored, due>>
        /\ UNCHANGED <<clock, spamBanned>>
    BY DEF ResetSpamScore, Threshold
  <1>2. ScoresTyped /\ clock \in Nat /\ errors \in Nat
    BY DEF ScoreInv, ScoresTyped
  <1>3. ScoresTyped'
    BY <1>1, <1>2 DEF ScoresTyped
  <1>4. CASE stored' = None /\ due' = -1 /\ errors' = errors
    <2>1. AtLeast(None, clock - 1) = clock - 1
      BY DEF AtLeast
    <2>2. AtLeast(-1, clock - 1) = clock - 1
      BY <1>2, AbuseAssumption DEF AtLeast
    <2>3. Buffered(buffer') = 0
      BY <1>1 DEF Buffered
    <2>4. Kept'
      BY <1>1, <1>2, <1>4, <2>1, <2>2, <2>3 DEF Kept
    <2> QED BY <1>3, <1>4, <2>4, KeptIsScoreKeptNext DEF ScoreInv, SpamIsBanned
  <1>5. CASE errors' = errors + 1 /\ UNCHANGED <<stored, due>>
    <2>1. errors' # 0
      BY <1>2, <1>5
    <2>2. SpamIsBanned'
      BY <1>1, <1>5 DEF ScoreInv, SpamIsBanned, IsSpam
    <2> QED BY <1>3, <2>1, <2>2 DEF ScoreInv, ScoreIsKept
  <1> QED BY <1>1, <1>4, <1>5

\* A spammer is banned again
LEMMA SpammerBanned ==
    ASSUME ScoreInv, spamBanned' = TRUE, UNCHANGED <<clock, buffer, stored, due, errors>>
    PROVE  ScoreInv'
  <1>1. ScoresTyped' /\ SpamIsBanned'
    BY DEF ScoreInv, ScoresTyped, SpamIsBanned
  <1>2. ScoreIsKept'
    BY DEF ScoreInv, ScoreIsKept, AtLeast, Merge
  <1> QED BY <1>1, <1>2 DEF ScoreInv

\* What is not a score
LEMMA SameScore ==
    ASSUME ScoreInv, UNCHANGED scoreVars
    PROVE  ScoreInv'
  <1>1. ScoresTyped' /\ SpamIsBanned'
    BY DEF ScoreInv, ScoresTyped, SpamIsBanned, IsSpam, scoreVars
  <1>2. ScoreIsKept'
    BY DEF ScoreInv, ScoreIsKept, AtLeast, Merge, scoreVars
  <1> QED BY <1>1, <1>2 DEF ScoreInv

\* A failure is counted or is being counted, whoever counts
LEMMA CaptchaStep ==
    ASSUME CaptchaInv, NEW a \in Attempt,
           Solve(a) \/ ResetSpamScore(a) \/ Fail(a) \/ CountFailed(a) \/ BanBot(a)
    PROVE  CaptchaInv'
  <1>1. ASSUME NEW step \in {"idle", "solved", "failed", "bot"}, Go(a, step)
        PROVE  /\ attempt' \in [Attempt -> [at : {"idle", "solved", "failed", "bot"}]]
               /\ attempt'[a].at = step
               /\ \A b \in Attempt \ {a} : attempt'[b] = attempt[b]
    BY <1>1 DEF Go, CaptchaInv, CaptchasTyped
  <1>2. FailLimit \in Nat /\ failed \in Nat
    BY AbuseAssumption DEF CaptchaInv, CaptchasTyped
  <1>3. CASE Solve(a)
    <2>1. Go(a, "solved") /\ attempt[a].at = "idle" /\ UNCHANGED <<failed, botBanned>>
      BY <1>3 DEF Solve
    <2> QED BY <1>1, <1>2, <2>1 DEF CaptchaInv, CaptchasTyped, Counting
  <1>4. CASE ResetSpamScore(a)
    <2>1. Go(a, "idle") /\ attempt[a].at = "solved" /\ UNCHANGED <<failed, botBanned>>
      BY <1>4 DEF ResetSpamScore
    <2> QED BY <1>1, <1>2, <2>1 DEF CaptchaInv, CaptchasTyped, Counting
  <1>5. CASE Fail(a)
    <2>1. Go(a, "failed") /\ failed' = failed + 1
      BY <1>5 DEF Fail
    <2> QED BY <1>1, <1>2, <2>1 DEF CaptchaInv, CaptchasTyped, Counting
  <1>6. CASE CountFailed(a)
    <2>1. /\ Go(a, IF failed >= FailLimit THEN "bot" ELSE "idle")
          /\ UNCHANGED <<failed, botBanned>>
      BY <1>6 DEF CountFailed
    <2>2. CASE failed >= FailLimit
      BY <1>1, <1>2, <2>1, <2>2 DEF CaptchaInv, CaptchasTyped, Counting
    <2>3. CASE ~(failed >= FailLimit)
      BY <1>1, <1>2, <2>1, <2>3 DEF CaptchaInv, CaptchasTyped, Counting
    <2> QED BY <2>2, <2>3
  <1>7. CASE BanBot(a)
    <2>1. Go(a, "idle") /\ botBanned' = TRUE /\ failed' = failed
      BY <1>7 DEF BanBot
    <2> QED BY <1>1, <1>2, <2>1 DEF CaptchaInv, CaptchasTyped, Counting
  <1> QED BY <1>3, <1>4, <1>5, <1>6, <1>7

\* Solutions and failures are forgotten
LEMMA CaptchaForgotten ==
    ASSUME CaptchaInv, Forget
    PROVE  CaptchaInv'
  BY AbuseAssumption DEF CaptchaInv, CaptchasTyped, Counting, Forget

\* What is not a captcha
LEMMA SameCaptchas ==
    ASSUME CaptchaInv, UNCHANGED captchaVars
    PROVE  CaptchaInv'
  BY DEF CaptchaInv, CaptchasTyped, Counting, captchaVars

-----------------------------------------------------------------------------
(* Requests, accounts and boards.                                          *)

RightsInv == Carrying /\ Registered /\ StaffTyped /\ OwnersRemain

\* What one request carries does not disturb the others
LEMMA OthersCarry ==
    ASSUME Carrying, NEW r \in Request, NEW v,
           request' = [request EXCEPT ![r] = v],
           v.at # "idle" => Carried(v)',
           \A a \in Account : password[a] # None => password'[a] # None,
           \A q \in Request \ {r} : In(q, "verified", "login") =>
               expelled'[request[q].account] <= request[q].password
    PROVE  /\ Carrying' /\ request'[r] = v
           /\ \A q \in Request \ {r} : request'[q] = request[q]
  <1>1. /\ request' = [q \in Request |-> request'[q]] /\ request'[r] = v
        /\ \A q \in Request \ {r} : request'[q] = request[q]
    BY DEF Carrying
  <1>2. ASSUME NEW q \in Request \ {r}, request[q].at # "idle"
        PROVE  Carried(request[q])'
    <2> DEFINE x == request[q]
    <2>1. Carried(x) /\ x' = x
      BY <1>1, <1>2 DEF Carrying
    <2>2. x.op = "login" => expelled'[x.account] <= x.password
      BY <2>1 DEF Carried, In
    <2> HIDE DEF x
    <2>3. Carried(x)'
      BY <2>1, <2>2 DEF Carried
    <2> QED BY <2>3 DEF x
  <1>3. \A q \in Request : request'[q].at # "idle" => Carried(request[q])'
    <2> TAKE q \in Request
    <2>1. CASE q = r
      BY <1>1, <2>1
    <2>2. CASE q # r
      BY <1>1, <1>2, <2>2
    <2> QED BY <2>1, <2>2
  <1> QED BY <1>1, <1>3 DEF Carrying

\* A step that is not about requests, accounts or boards
LEMMA SameRights ==
    ASSUME RightsInv, UNCHANGED <<request, accountVars, boardVars>>
    PROVE  RightsInv'
  <1>1. UNCHANGED <<request, password, sessions, expelled, boards, staff, assignments>>
    BY DEF accountVars, boardVars
  <1>2. Carrying'
    BY <1>1 DEF RightsInv, Carrying, Carried
  <1>3. Registered' /\ StaffTyped' /\ OwnersRemain'
    BY <1>1 DEF RightsInv, Registered, StaffTyped, OwnersRemain
  <1> QED BY <1>2, <1>3 DEF RightsInv

\* A request goes on, or ends, and carries something else
LEMMA RequestGoesOn ==
    ASSUME RightsInv, NEW r \in Request, NEW v,
           request' = [request EXCEPT ![r] = v], v.at # "idle" => Carried(v),
           UNCHANGED <<accountVars, boardVars>>
    PROVE  RightsInv'
  <1>1. UNCHANGED <<password, sessions, expelled, boards, staff, assignments>>
    BY DEF accountVars, boardVars
  <1>2. v.at # "idle" => Carried(v)'
    BY <1>1 DEF Carried
  <1>3. \A q \in Request \ {r} : In(q, "verified", "login") =>
            expelled[request[q].account] <= request[q].password
    BY DEF RightsInv, Carrying, Carried, In
  <1>4. Carrying'
    BY <1>1, <1>2, <1>3, OthersCarry DEF RightsInv
  <1>5. Registered' /\ StaffTyped' /\ OwnersRemain'
    BY <1>1 DEF RightsInv, Registered, StaffTyped, OwnersRemain
  <1> QED BY <1>4, <1>5 DEF RightsInv

\* A request ends and leaves no right behind
LEMMA RequestEnds ==
    ASSUME RightsInv, NEW r \in Request, End(r), UNCHANGED <<accountVars, boardVars>>
    PROVE  RightsInv'
  <1>1. Idle.at = "idle" /\ request' = [request EXCEPT ![r] = Idle]
    BY DEF Idle, End
  <1> QED BY <1>1, RequestGoesOn

\* Who is logged in is registered
LEMMA LoggedIn ==
    ASSUME Registered, NEW a, IsLoggedIn(a)
    PROVE  password[a] # None
  BY DEF Registered, IsLoggedIn

\* The handlers let requests in, with what these carry
LEMMA RequestLetIn ==
    ASSUME RightsInv, NEW r \in Request, Handle(r)
    PROVE  RightsInv'
  <1>1. ASSUME NEW a \in Account, NEW op, NEW b, Let(r, a, op, b)
        PROVE  password[a] # None /\ UNCHANGED <<accountVars, boardVars>>
    BY <1>1, LoggedIn DEF Let, RightsInv
  <1>2. ASSUME NEW a \in Account, NEW b \in Boards,
               NEW op \in {"assignStaff", "createBoard", "deleteBoard"}, AskBoard(r, a, op, b)
        PROVE  RightsInv'
    <2> DEFINE v == Allowed(a, op, b)
    <2>1. Let(r, a, op, b) /\ request' = [request EXCEPT ![r] = v]
      BY <1>2 DEF AskBoard
    <2>2. v.at = "allowed" /\ v.op = op /\ v.board = b /\ v.account = a
      BY DEF Allowed
    <2> HIDE DEF v
    <2>3. Carried(v)
      BY <2>2 DEF Carried
    <2> QED BY <1>1, <2>1, <2>3, RequestGoesOn
  <1>3. ASSUME NEW a \in Account, NEW op \in {"logoutAll", "changePassword"}, AskAccount(r, a, op)
        PROVE  RightsInv'
    <2> DEFINE v == Allowed(a, op, All)
    <2>1. Let(r, a, op, All) /\ request' = [request EXCEPT ![r] = v]
      BY <1>3 DEF AskAccount
    <2>2. /\ v.at = "allowed" /\ v.op = op /\ v.account = a
          /\ op = "changePassword" => v \in [at : {"allowed", "verified"}, account : Account,
                                             op : {"changePassword"}, board : Boards]
      BY DEF Allowed, Boards
    <2> HIDE DEF v
    <2>3. Carried(v)
      BY <1>1, <2>1, <2>2 DEF Carried
    <2> QED BY <1>1, <2>1, <2>3, RequestGoesOn
  <1>4. ASSUME NEW op \in {"deletePostsByIP", "sameIPPosts", "ban", "unban", "setThreadLock",
                          "purgePost"},
               NEW global \in BOOLEAN, CanModeratePost(r, op, global)
        PROVE  RightsInv'
    <2>1. PICK a \in Account, p \in Post : AskPost(r, a, op, p, global)
      BY <1>4 DEF CanModeratePost
    <2> DEFINE b == IF global THEN All ELSE BoardOf[p]
               v == AllowedPost(a, op, b, p)
    <2>2. Let(r, a, op, b) /\ request' = [request EXCEPT ![r] = v]
      BY <2>1 DEF AskPost
    <2>3. b \in Boards
      BY AdministrationAssumption DEF Boards
    <2> HIDE DEF b
    <2>4. /\ v.at = "allowed" /\ v.op = op /\ v.post = p
          /\ op = "ban" => v \in [at : {"allowed", "ip"}, account : Account, op : {"ban"},
                                  board : Boards, post : Post]
      BY <2>3 DEF AllowedPost
    <2> HIDE DEF v
    <2>5. Carried(v)
      BY <2>4 DEF Carried
    <2> QED BY <1>1, <2>2, <2>5, RequestGoesOn
  <1>5. ASSUME NEW op \in {"deletePosts", "deleteImages", "spoilerImages"}, ModeratePosts(r, op)
        PROVE  RightsInv'
    <2>1. PICK a \in Account, ps \in SUBSET Post : AskPosts(r, a, op, ps)
      BY <1>5 DEF ModeratePosts
    <2> DEFINE v == [at |-> "allowed", account |-> a, op |-> op, board |-> All, posts |-> ps]
    <2>2. Let(r, a, op, All) /\ request' = [request EXCEPT ![r] = v]
      BY <2>1 DEF AskPosts
    <2>3. v.op = op
      OBVIOUS
    <2> HIDE DEF v
    <2>4. Carried(v)
      BY <2>3 DEF Carried
    <2> QED BY <1>1, <2>2, <2>4, RequestGoesOn
  <1>6. ASSUME NEW a \in Account, Login(r, a)
        PROVE  RightsInv'
    <2> DEFINE v == [at |-> "verified", op |-> "login", account |-> a, password |-> password[a]]
    <2>1. /\ password[a] # None /\ request' = [request EXCEPT ![r] = v]
          /\ UNCHANGED <<accountVars, boardVars>>
      BY <1>6 DEF Login, Begin, accountVars
    <2>2. v.at = "verified" /\ v.op = "login" /\ v.account = a /\ v.password = password[a]
      OBVIOUS
    <2> HIDE DEF v
    <2>3. password[a] \in Nat /\ expelled[a] <= password[a]
      BY <2>1 DEF RightsInv, Registered
    <2>4. Carried(v)
      BY <2>1, <2>2, <2>3 DEF Carried
    <2> QED BY <2>1, <2>4, RequestGoesOn
  <1>7. ASSUME NEW a \in Account, Register(r, a)
        PROVE  RightsInv'
    <2> DEFINE v == [at |-> "verified", op |-> "login", account |-> a, password |-> 0]
    <2>1. /\ password[a] = None /\ password' = [password EXCEPT ![a] = 0]
          /\ request' = [request EXCEPT ![r] = v]
          /\ UNCHANGED <<sessions, expelled, boardVars>>
      BY <1>7 DEF Register, Begin
    <2>2. v.at = "verified" /\ v.op = "login" /\ v.account = a /\ v.password = 0
      OBVIOUS
    <2> HIDE DEF v
    <2>3. expelled[a] = 0
      BY <2>1 DEF RightsInv, Registered
    <2>4. 0 # None
      BY AbuseAssumption
    <2>5. password'[a] = 0 /\ expelled' = expelled
      BY <2>1 DEF RightsInv, Registered
    <2>a. Carried(v)'
      BY <2>2, <2>3, <2>4, <2>5 DEF Carried
    <2>6. \A x \in Account : password[x] # None => password'[x] = password[x]
      BY <2>1 DEF RightsInv, Registered
    <2>7. \A q \in Request \ {r} : In(q, "verified", "login") =>
            expelled[request[q].account] <= request[q].password
      BY DEF RightsInv, Carrying, Carried, In
    <2>8. Carrying'
      BY <2>1, <2>a, <2>6, <2>7, OthersCarry DEF RightsInv
    <2>9. Registered'
      BY <2>1, <2>3, <2>4, <2>5, <2>6 DEF RightsInv, Registered
    <2>10. StaffTyped' /\ OwnersRemain'
      BY <2>1 DEF RightsInv, StaffTyped, OwnersRemain, boardVars
    <2> QED BY <2>8, <2>9, <2>10 DEF RightsInv
  <1> QED
    BY <1>2, <1>3, <1>4, <1>5, <1>6, <1>7
    DEF Handle, login, register, logoutAll, changePassword, assignStaff, createBoard, deleteBoard,
        deletePosts, deleteImage, modSpoilerImage, deletePostsByIP, getSameIPPosts,
        setThreadLock, purgePost, ban, unban

\* The session of a login whose password is not expelled
LEMMA LoginCommitted ==
    ASSUME RightsInv, NEW r \in Request, CommitLogin(r)
    PROVE  RightsInv'
  <1> DEFINE a == request[r].account
             s == [account |-> a, password |-> request[r].password]
  <1>1. /\ In(r, "verified", "login") /\ sessions' = sessions \cup {s}
        /\ request' = [request EXCEPT ![r] = Idle]
        /\ UNCHANGED <<password, expelled, boardVars>>
    BY DEF CommitLogin, End
  <1>2. /\ a \in Account /\ request[r].password \in Nat /\ expelled[a] <= request[r].password
        /\ password[a] # None
    BY <1>1 DEF RightsInv, Carrying, Carried, In
  <1>3. /\ s \in [account : Account, password : Nat] /\ s.account = a
        /\ s.password = request[r].password
    BY <1>2
  <1>4. expelled[a] \in Nat /\ \A x \in sessions : x \in [account : Account, password : Nat]
    BY <1>2 DEF RightsInv, Registered
  <1> HIDE DEF s
  <1>5. Registered'
    BY <1>1, <1>2, <1>3, <1>4 DEF RightsInv, Registered
  <1>6. \A q \in Request \ {r} : In(q, "verified", "login") =>
            expelled[request[q].account] <= request[q].password
    BY DEF RightsInv, Carrying, Carried, In
  <1>7. Carrying'
    BY <1>1, <1>6, OthersCarry DEF RightsInv, Idle
  <1>8. StaffTyped' /\ OwnersRemain'
    BY <1>1 DEF RightsInv, StaffTyped, OwnersRemain, boardVars
  <1> QED BY <1>5, <1>7, <1>8 DEF RightsInv

\* The sessions of the account end; its passwords so far are expelled, unless one
\* of them was compared for a login
LEMMA AllLoggedOut ==
    ASSUME RightsInv, NEW r \in Request, LogOutAll(r)
    PROVE  RightsInv'
  <1> DEFINE a == request[r].account
  <1>1. /\ In(r, "allowed", "logoutAll") /\ sessions' = {s \in sessions : s.account # a}
        /\ expelled' = IF LoginInFlight(a) THEN expelled ELSE [expelled EXCEPT ![a] = password[a]]
        /\ request' = [request EXCEPT ![r] = Idle]
        /\ UNCHANGED <<password, boardVars>>
    BY DEF LogOutAll, End
  <1>2. a \in Account /\ password[a] # None
    BY <1>1 DEF RightsInv, Carrying, Carried, In
  <1>3. password[a] \in Nat
    BY <1>2 DEF RightsInv, Registered
  <1>4. /\ expelled' \in [Account -> Nat]
        /\ \A x \in Account \ {a} : expelled'[x] = expelled[x]
        /\ expelled'[a] \in {expelled[a], password[a]}
        /\ LoginInFlight(a) => expelled'[a] = expelled[a]
    BY <1>1, <1>2, <1>3 DEF RightsInv, Registered
  <1>5. Registered'
    <2>1. \A x \in Account : IF password[x] = None THEN expelled'[x] = 0
                             ELSE expelled'[x] <= password[x]
      BY <1>2, <1>3, <1>4 DEF RightsInv, Registered
    <2>2. \A s \in sessions' : /\ s \in sessions /\ s.account \in Account \ {a}
                               /\ s \in [account : Account, password : Nat]
      BY <1>1 DEF RightsInv, Registered
    <2>3. \A s \in sessions' : password[s.account] # None /\ s.password >= expelled'[s.account]
      BY <1>4, <2>2 DEF RightsInv, Registered
    <2> QED BY <1>1, <1>4, <2>1, <2>2, <2>3 DEF RightsInv, Registered
  <1>6. ASSUME NEW q \in Request \ {r}, In(q, "verified", "login")
        PROVE  expelled'[request[q].account] <= request[q].password
    <2>1. /\ request[q].account \in Account
          /\ expelled[request[q].account] <= request[q].password
      BY <1>6 DEF RightsInv, Carrying, Carried, In
    <2>2. request[q].account = a => LoginInFlight(a)
      BY <1>6 DEF LoginInFlight
    <2> QED BY <1>4, <2>1, <2>2
  <1>7. Carrying'
    BY <1>1, <1>6, OthersCarry DEF RightsInv, Idle
  <1>8. StaffTyped' /\ OwnersRemain'
    BY <1>1 DEF RightsInv, StaffTyped, OwnersRemain, boardVars
  <1> QED BY <1>5, <1>7, <1>8 DEF RightsInv

\* A new password is later than what is expelled
LEMMA PasswordChanged ==
    ASSUME RightsInv, NEW r \in Request, ChangePassword(r)
    PROVE  RightsInv'
  <1> DEFINE a == request[r].account
  <1>1. /\ In(r, "verified", "changePassword")
        /\ password' = [password EXCEPT ![a] = password[a] + 1]
        /\ request' = [request EXCEPT ![r] = Idle]
        /\ UNCHANGED <<sessions, expelled, boardVars>>
    BY DEF ChangePassword, End
  <1>2. a \in Account /\ password[a] # None
    BY <1>1 DEF RightsInv, Carrying, Carried, In
  <1>3. password[a] \in Nat /\ expelled[a] \in Nat /\ expelled[a] <= password[a]
    BY <1>2 DEF RightsInv, Registered
  <1>4. /\ password' \in [Account -> Nat \cup {None}]
        /\ password'[a] = password[a] + 1 /\ password'[a] # None
        /\ \A x \in Account \ {a} : password'[x] = password[x]
    BY <1>1, <1>2, <1>3, AbuseAssumption DEF RightsInv, Registered
  <1>5. \A x \in Account : password[x] # None => password'[x] # None
    BY <1>4
  <1>6. Registered'
    <2>1. \A s \in sessions : s.account \in Account
      BY DEF RightsInv, Registered
    <2>2. \A x \in Account : IF password'[x] = None THEN expelled[x] = 0
                             ELSE expelled[x] <= password'[x]
      BY <1>3, <1>4 DEF RightsInv, Registered
    <2> QED BY <1>1, <1>4, <1>5, <2>1, <2>2 DEF RightsInv, Registered
  <1>7. \A q \in Request \ {r} : In(q, "verified", "login") =>
            expelled[request[q].account] <= request[q].password
    BY DEF RightsInv, Carrying, Carried, In
  <1>8. Carrying'
    BY <1>1, <1>5, <1>7, OthersCarry DEF RightsInv, Idle
  <1>9. StaffTyped' /\ OwnersRemain'
    BY <1>1 DEF RightsInv, StaffTyped, OwnersRemain, boardVars
  <1> QED BY <1>6, <1>8, <1>9 DEF RightsInv

\* A session ends
LEMMA SessionEnds ==
    ASSUME RightsInv, EndSession
    PROVE  RightsInv'
  <1>1. /\ sessions' \subseteq sessions
        /\ UNCHANGED <<password, expelled, request, boardVars>>
    BY DEF EndSession
  <1>2. Registered'
    BY <1>1 DEF RightsInv, Registered
  <1>3. Carrying' /\ StaffTyped' /\ OwnersRemain'
    BY <1>1 DEF RightsInv, Carrying, Carried, StaffTyped, OwnersRemain, boardVars
  <1> QED BY <1>2, <1>3 DEF RightsInv

\* The password was compared
LEMMA PasswordCompared ==
    ASSUME RightsInv, NEW r \in Request, ComparePassword(r)
    PROVE  RightsInv'
  <1> DEFINE v == [request[r] EXCEPT !.at = "verified"]
  <1>1. /\ request[r].at = "allowed" /\ request[r].op = "changePassword"
        /\ request' = [request EXCEPT ![r] = v] /\ UNCHANGED <<accountVars, boardVars>>
    BY DEF ComparePassword, In
  <1>2. /\ request[r] \in [at : {"allowed", "verified"}, account : Account,
                           op : {"changePassword"}, board : Boards]
        /\ password[request[r].account] # None
    BY <1>1 DEF RightsInv, Carrying, Carried
  <1>3. /\ v \in [at : {"allowed", "verified"}, account : Account, op : {"changePassword"},
                  board : Boards]
        /\ v.account = request[r].account
    BY <1>2
  <1> HIDE DEF v
  <1>4. Carried(v)
    BY <1>2, <1>3 DEF Carried
  <1> QED BY <1>1, <1>4, RequestGoesOn

\* The IP of the post was read
LEMMA IPRead ==
    ASSUME RightsInv, NEW r \in Request, GetIP(r)
    PROVE  RightsInv'
  <1> DEFINE v == [request[r] EXCEPT !.at = "ip"]
  <1>1. /\ request[r].at = "allowed" /\ request[r].op = "ban"
        /\ request' = [request EXCEPT ![r] = v] \/ request' = [request EXCEPT ![r] = Idle]
        /\ UNCHANGED <<accountVars, boardVars>>
    BY DEF GetIP, In
  <1>2. request[r] \in [at : {"allowed", "ip"}, account : Account, op : {"ban"},
                        board : Boards, post : Post]
    BY <1>1 DEF RightsInv, Carrying, Carried
  <1>3. v \in [at : {"allowed", "ip"}, account : Account, op : {"ban"}, board : Boards, post : Post]
    BY <1>2
  <1> HIDE DEF v
  <1>4. Carried(v)
    BY <1>3 DEF Carried
  <1> QED BY <1>1, <1>4, RequestGoesOn DEF Idle

\* The rows that an assignment deletes are of its board
LEMMA StaffDeleted ==
    ASSUME RightsInv, NEW r \in Request, DeleteStaff(r)
    PROVE  RightsInv'
  <1> DEFINE b == request[r].board
             v == [at |-> "deleting", op |-> "assignStaff", board |-> b,
                   rows |-> {s \in staff : s.board = b}]
  <1>1. /\ In(r, "allowed", "assignStaff") /\ request' = [request EXCEPT ![r] = v]
        /\ UNCHANGED <<accountVars, boardVars>>
    BY DEF DeleteStaff
  <1>2. b \in Boards
    BY <1>1 DEF RightsInv, Carrying, Carried, In
  <1>3. v.at = "deleting" /\ v.op = "assignStaff" /\ v.board = b /\ \A s \in v.rows : s.board = b
    OBVIOUS
  <1> HIDE DEF v
  <1>4. Carried(v)
    BY <1>2, <1>3 DEF Carried
  <1> QED BY <1>1, <1>4, RequestGoesOn

\* A step of a request about boards or staff, when it ends
LEMMA BoardsChange ==
    ASSUME RightsInv, NEW r \in Request, End(r), UNCHANGED accountVars, StaffTyped', OwnersRemain'
    PROVE  RightsInv'
  <1>1. /\ request' = [request EXCEPT ![r] = Idle]
        /\ UNCHANGED <<password, sessions, expelled>>
    BY DEF End, accountVars
  <1>2. \A q \in Request \ {r} : In(q, "verified", "login") =>
            expelled[request[q].account] <= request[q].password
    BY DEF RightsInv, Carrying, Carried, In
  <1>3. Carrying'
    BY <1>1, <1>2, OthersCarry DEF RightsInv, Idle
  <1>4. Registered'
    BY <1>1 DEF RightsInv, Registered
  <1> QED BY <1>3, <1>4 DEF RightsInv

\* A row of staff
LEMMA StaffRowTyped ==
    ASSUME NEW b \in Boards, NEW a \in Account, NEW pos \in Janitor..BoardOwner, NEW n \in Nat
    PROVE  /\ StaffRow(b, a, pos, n) \in [board : Boards, account : Account,
                                          position : Janitor..BoardOwner, assignment : Nat]
           /\ StaffRow(b, a, pos, n).board = b /\ StaffRow(b, a, pos, n).position = pos
  BY DEF StaffRow

\* The rows an assignment writes have an owner, and those it deletes are of its board
LEMMA StaffInserted ==
    ASSUME RightsInv, NEW r \in Request, InsertStaff(r)
    PROVE  RightsInv'
  <1> DEFINE b == request[r].board
             rows == request[r].rows
  <1>1. /\ In(r, "deleting", "assignStaff") /\ End(r) /\ UNCHANGED <<boards, accountVars>>
    BY DEF InsertStaff
  <1>2. b \in Boards /\ \A s \in rows : s.board = b
    BY <1>1 DEF RightsInv, Carrying, Carried, In
  <1>3. PICK position \in [Account -> NotStaff..BoardOwner] :
            LET named == {a \in Account : position[a] # NotStaff}
            IN  /\ \E a \in Account : position[a] = BoardOwner
                /\ IF b \in boards \cup {All} /\ \A a \in named : password[a] # None
                   THEN /\ staff' = (staff \ rows)
                                \cup {StaffRow(b, a, position[a], assignments + 1) : a \in named}
                        /\ assignments' = assignments + 1
                   ELSE UNCHANGED <<staff, assignments>>
    BY DEF InsertStaff
  <1> DEFINE named == {a \in Account : position[a] # NotStaff}
             row(a) == StaffRow(b, a, position[a], assignments + 1)
  <1>4. CASE UNCHANGED <<staff, assignments>>
    <2>1. StaffTyped' /\ OwnersRemain'
      BY <1>1, <1>4 DEF RightsInv, StaffTyped, OwnersRemain
    <2> QED BY <1>1, <2>1, BoardsChange
  <1>5. CASE /\ b \in boards \cup {All}
             /\ staff' = (staff \ rows) \cup {row(a) : a \in named}
             /\ assignments' = assignments + 1
    <2>1. assignments + 1 \in Nat
      BY DEF RightsInv, StaffTyped
    <2>2. \A a \in named : position[a] \in Janitor..BoardOwner
      BY DEF Janitor, BoardOwner, NotStaff
    <2>3. \A a \in named : /\ row(a) \in [board : Boards, account : Account,
                                          position : Janitor..BoardOwner, assignment : Nat]
                           /\ row(a).board = b /\ row(a).position = position[a]
      BY <1>2, <2>1, <2>2, StaffRowTyped
    <2>4. PICK o \in Account : position[o] = BoardOwner
      BY <1>3
    <2>5. o \in named
      BY <2>4 DEF BoardOwner, NotStaff
    <2> HIDE DEF row, named
    <2>6. StaffTyped'
      BY <1>1, <1>5, <2>1, <2>3 DEF RightsInv, StaffTyped
    <2>7. \A s \in staff : s.board # b => s \in staff'
      BY <1>2, <1>5
    <2>8. row(o) \in staff' /\ row(o).board = b /\ row(o).position = BoardOwner
      BY <1>5, <2>3, <2>4, <2>5
    <2>9. ASSUME NEW d \in boards \cup {All}
          PROVE  \E s \in staff' : s.board = d /\ s.position = BoardOwner
      <3>1. CASE d = b
        BY <2>8, <3>1
      <3>2. CASE d # b
        BY <2>7, <3>2 DEF RightsInv, OwnersRemain
      <3> QED BY <3>1, <3>2
    <2>10. \A s \in staff' : s.board \in boards \cup {All}
      BY <1>5, <2>3 DEF RightsInv, OwnersRemain
    <2>11. OwnersRemain'
      BY <1>1, <2>9, <2>10 DEF OwnersRemain
    <2> QED BY <1>1, <2>6, <2>11, BoardsChange
  <1> QED BY <1>3, <1>4, <1>5

\* A new board has an owner
LEMMA BoardCreated ==
    ASSUME RightsInv, NEW r \in Request, CreateBoard(r)
    PROVE  RightsInv'
  <1> DEFINE b == request[r].board
             a == request[r].account
             row == StaffRow(b, a, BoardOwner, assignments + 1)
  <1>1. In(r, "allowed", "createBoard") /\ End(r) /\ UNCHANGED accountVars
    BY DEF CreateBoard
  <1>2. b \in Boards /\ a \in Account
    BY <1>1 DEF RightsInv, Carrying, Carried, In
  <1>3. CASE b \in boards \cup {All}
    <2>1. UNCHANGED boardVars
      BY <1>3 DEF CreateBoard
    <2>2. StaffTyped' /\ OwnersRemain'
      BY <2>1 DEF RightsInv, StaffTyped, OwnersRemain, boardVars
    <2> QED BY <1>1, <2>2, BoardsChange
  <1>4. CASE b \notin boards \cup {All}
    <2>1. /\ boards' = boards \cup {b} /\ staff' = staff \cup {row}
          /\ assignments' = assignments + 1
      BY <1>4 DEF CreateBoard
    <2>2. assignments + 1 \in Nat /\ BoardOwner \in Janitor..BoardOwner
      BY DEF RightsInv, StaffTyped, Janitor, BoardOwner
    <2> HIDE DEF a, b
    <2>3. /\ row \in [board : Boards, account : Account, position : Janitor..BoardOwner,
                      assignment : Nat]
          /\ row.board = b /\ row.position = BoardOwner
      BY <1>2, <2>2, StaffRowTyped
    <2> HIDE DEF row
    <2>4. StaffTyped'
      BY <1>2, <1>4, <2>1, <2>2, <2>3 DEF RightsInv, StaffTyped, Boards
    <2>5. OwnersRemain'
      BY <2>1, <2>3 DEF RightsInv, OwnersRemain
    <2> QED BY <1>1, <2>4, <2>5, BoardsChange
  <1> QED BY <1>3, <1>4

\* A board goes with its staff
LEMMA StaffCascades ==
    ASSUME RightsInv, NEW b, b # All, Cascade(b), UNCHANGED assignments
    PROVE  StaffTyped' /\ OwnersRemain'
  <1>1. boards' = boards \ {b} /\ staff' = {s \in staff : s.board # b}
    BY DEF Cascade
  <1>2. StaffTyped'
    BY <1>1 DEF RightsInv, StaffTyped
  <1>3. OwnersRemain'
    BY <1>1 DEF RightsInv, OwnersRemain
  <1> QED BY <1>2, <1>3

\* deleteBoard, of a board or of "all", which stays
LEMMA BoardDeleted ==
    ASSUME RightsInv, NEW r \in Request, DeleteBoard(r)
    PROVE  RightsInv'
  <1>1. End(r) /\ UNCHANGED <<accountVars, assignments>>
    BY DEF DeleteBoard
  <1>2. CASE request[r].board = All
    <2>1. UNCHANGED boardVars
      BY <1>1, <1>2 DEF DeleteBoard, boardVars
    <2> QED BY <1>1, <2>1, RequestEnds
  <1>3. CASE request[r].board # All
    <2>1. Cascade(request[r].board)
      BY <1>3 DEF DeleteBoard
    <2>2. StaffTyped' /\ OwnersRemain'
      BY <1>1, <1>3, <2>1, StaffCascades
    <2> QED BY <1>1, <2>2, BoardsChange
  <1> QED BY <1>2, <1>3

\* ... and for inactivity
LEMMA UnusedBoardDeleted ==
    ASSUME RightsInv, NEW b \in Board, DeleteUnusedBoards(b)
    PROVE  RightsInv'
  <1>1. Cascade(b) /\ UNCHANGED <<assignments, accountVars, request>>
    BY DEF DeleteUnusedBoards
  <1>2. b # All
    BY AbuseAssumption
  <1>3. StaffTyped' /\ OwnersRemain'
    BY <1>1, <1>2, StaffCascades
  <1>4. Carrying' /\ Registered'
    BY <1>1 DEF RightsInv, Carrying, Carried, Registered, accountVars
  <1> QED BY <1>3, <1>4 DEF RightsInv

\* The steps of requests
LEMMA RequestActs ==
    ASSUME RightsInv, NEW r \in Request, Act(r)
    PROVE  RightsInv'
  <1>1. CASE \/ CommitLogin(r) \/ LogOutAll(r) \/ ComparePassword(r) \/ ChangePassword(r)
             \/ DeleteStaff(r) \/ InsertStaff(r) \/ CreateBoard(r) \/ DeleteBoard(r) \/ GetIP(r)
    BY <1>1, LoginCommitted, AllLoggedOut, PasswordCompared, PasswordChanged, StaffDeleted,
       StaffInserted, BoardCreated, BoardDeleted, IPRead
  <1>2. CASE \/ WriteBan(r) \/ Unban(r)
             \/ GetSameIPPosts(r) \/ SetThreadLock(r) \/ PurgePost(r)
             \/ DeletePosts(r) \/ ModerateImages(r) \/ DeletePostsByIP(r)
    <2>1. End(r) /\ UNCHANGED <<accountVars, boardVars>>
      BY <1>2 DEF WriteBan, Unban, GetSameIPPosts, SetThreadLock, PurgePost, LogPost, DeletePosts,
                  ModerateImages, DeletePostsByIP
    <2> QED BY <2>1, RequestEnds
  <1> QED BY <1>1, <1>2 DEF Act

-----------------------------------------------------------------------------
(* Posts, and the log.                                                     *)

PostsInv == PostsTyped /\ Doomed /\ ShadowHides

\* A step that is not about posts
LEMMA SamePosts ==
    ASSUME PostsInv, UNCHANGED <<postVars, shadow>>
    PROVE  PostsInv'
  BY DEF PostsInv, PostsTyped, Doomed, ShadowHides, postVars

\* Posts that are deleted, or go, and shadow bans that expire
LEMMA PostsGo ==
    ASSUME PostsInv, UNCHANGED <<insert, outran>>,
           posts' \in [Post -> {"absent", "shown", "deleted"}],
           \A p \in Post : posts'[p] = "shown" => posts[p] = "shown",
           shadow' \subseteq shadow
    PROVE  PostsInv'
  BY DEF PostsInv, PostsTyped, Doomed, ShadowHides

\* The posts of a request are deleted
LEMMA PostsDeleted ==
    ASSUME PostsInv, NEW r \in Request, DeletePosts(r)
    PROVE  PostsInv'
  <1>1. UNCHANGED <<insert, outran, shadow>>
    BY DEF DeletePosts
  <1>2. PICK found : posts' = [p \in Post |-> IF p \in found THEN "deleted" ELSE posts[p]]
                     \/ posts' = posts
    BY DEF DeletePosts
  <1> QED BY <1>1, <1>2, PostsGo DEF PostsInv, PostsTyped

\* A shadow ban hides what is shown on the board
LEMMA PostsShadowed ==
    ASSUME PostsInv, Carrying, NEW r \in Request, DeletePostsByIP(r)
    PROVE  PostsInv'
  <1> DEFINE b == BoardOf[request[r].post]
             found == {p \in Post : posts[p] = "shown" /\ BoardOf[p] = b}
  <1>1. UNCHANGED <<insert, outran>> /\ In(r, "allowed", "deletePostsByIP")
    BY DEF DeletePostsByIP
  <1>2. CASE UNCHANGED <<posts, shadow>>
    BY <1>1, <1>2, SamePosts DEF postVars
  <1>3. CASE /\ posts' = [p \in Post |-> IF p \in found THEN "deleted" ELSE posts[p]]
             /\ shadow' = shadow \cup {b}
    <2>1. b \in Board
      BY <1>1, AdministrationAssumption DEF Carrying, Carried, In
    <2>2. /\ posts' \in [Post -> {"absent", "shown", "deleted"}]
          /\ \A p \in Post : posts'[p] = "shown" => posts[p] = "shown" /\ p \notin found
      BY <1>3 DEF PostsInv, PostsTyped
    <2>3. PostsTyped'
      BY <1>3, <2>1, <2>2 DEF PostsInv, PostsTyped
    <2>4. ShadowHides'
      BY <1>1, <1>3, <2>2 DEF PostsInv, ShadowHides
    <2>5. Doomed'
      BY <1>1 DEF PostsInv, Doomed
    <2> QED BY <2>3, <2>4, <2>5 DEF PostsInv
  <1> QED BY <1>2, <1>3 DEF DeletePostsByIP

\* An insertion looks for a shadow ban
LEMMA InsertBegun ==
    ASSUME PostsInv, NEW p \in Post, BeginInsert(p)
    PROVE  PostsInv'
  <1> DEFINE banned == BoardOf[p] \in shadow
             new == [at |-> "begun", doomed |-> banned, banned |-> banned]
  <1>1. insert' = [insert EXCEPT ![p] = new] /\ UNCHANGED <<posts, outran, shadow>>
    BY DEF BeginInsert, logVars
  <1> HIDE DEF banned
  <1>2. new.doomed = new.banned
    OBVIOUS
  <1> HIDE DEF new
  <1>3. /\ insert' = [x \in Post |-> insert'[x]] /\ insert'[p] = new
        /\ \A x \in Post \ {p} : insert'[x] = insert[x]
    BY <1>1 DEF PostsInv, Doomed
  <1>4. Doomed'
    BY <1>2, <1>3 DEF PostsInv, Doomed
  <1>5. PostsTyped' /\ ShadowHides'
    BY <1>1 DEF PostsInv, PostsTyped, ShadowHides
  <1> QED BY <1>4, <1>5 DEF PostsInv

\* The post is there, deleted if its insertion saw a shadow ban
LEMMA InsertCommitted ==
    ASSUME PostsInv, NEW p \in Post, CommitInsert(p)
    PROVE  PostsInv'
  <1>1. /\ insert[p].at = "begun" /\ insert' = [insert EXCEPT ![p] = Idle] /\ shadow' = shadow
        /\ insert[p].doomed = insert[p].banned
    BY DEF CommitInsert, logVars, PostsInv, Doomed
  <1>2. Doomed'
    BY <1>1 DEF PostsInv, Doomed, Idle
  <1>3. CASE UNCHANGED <<posts, outran>>
    BY <1>1, <1>2, <1>3 DEF PostsInv, PostsTyped, ShadowHides
  <1>4. CASE /\ posts' = [posts EXCEPT ![p] = IF insert[p].doomed THEN "deleted" ELSE "shown"]
             /\ outran' = IF insert[p].banned THEN outran \ {p} ELSE outran \cup {p}
    <2>1. /\ posts' \in [Post -> {"absent", "shown", "deleted"}]
          /\ \A x \in Post \ {p} : posts'[x] = posts[x]
      BY <1>4 DEF PostsInv, PostsTyped
    <2>2. CASE insert[p].banned
      <3>1. insert[p].doomed
        BY <1>1, <2>2
      <3>2. posts'[p] = "deleted" /\ outran' = outran \ {p}
        BY <1>4, <2>2, <3>1 DEF PostsInv, PostsTyped
      <3>3. ShadowHides'
        BY <1>1, <2>1, <3>2 DEF PostsInv, ShadowHides
      <3> QED BY <1>1, <1>2, <2>1, <3>3 DEF PostsInv, PostsTyped
    <2>3. CASE ~insert[p].banned
      <3>1. outran' = outran \cup {p}
        BY <1>4, <2>3
      <3>2. ShadowHides'
        BY <1>1, <2>1, <3>1 DEF PostsInv, ShadowHides
      <3> QED BY <1>1, <1>2, <2>1, <3>2 DEF PostsInv, PostsTyped
    <2> QED BY <2>2, <2>3
  <1> QED BY <1>3, <1>4 DEF CommitInsert

\* A board goes with its posts
LEMMA PostsCascade ==
    ASSUME PostsInv, NEW b, Cascade(b), UNCHANGED <<insert, outran>>
    PROVE  PostsInv'
  <1>1. /\ posts' = [p \in Post |-> IF BoardOf[p] = b THEN "absent" ELSE posts[p]]
        /\ shadow' = shadow \ {b}
    BY DEF Cascade
  <1>2. /\ posts' \in [Post -> {"absent", "shown", "deleted"}]
        /\ \A p \in Post : posts'[p] = "shown" => posts[p] = "shown"
    BY <1>1 DEF PostsInv, PostsTyped
  <1> QED BY <1>1, <1>2, PostsGo

\* The steps of requests, as far as posts are concerned
LEMMA PostsModerated ==
    ASSUME PostsInv, Carrying, NEW r \in Request, Act(r)
    PROVE  PostsInv'
  <1>1. CASE DeletePosts(r) \/ DeletePostsByIP(r)
    BY <1>1, PostsDeleted, PostsShadowed
  <1>2. CASE DeleteBoard(r)
    <2>1. UNCHANGED <<insert, outran>>
      BY <1>2 DEF DeleteBoard
    <2>2. CASE request[r].board = All
      BY <1>2, <2>1, <2>2, SamePosts DEF DeleteBoard, postVars, logVars
    <2>3. CASE request[r].board # All
      BY <1>2, <2>1, <2>3, PostsCascade DEF DeleteBoard
    <2> QED BY <2>2, <2>3
  <1>3. CASE \/ CommitLogin(r) \/ LogOutAll(r) \/ ComparePassword(r) \/ ChangePassword(r)
             \/ DeleteStaff(r) \/ InsertStaff(r) \/ CreateBoard(r) \/ GetIP(r)
    <2>1. UNCHANGED <<postVars, logVars>>
      BY <1>3 DEF CommitLogin, LogOutAll, ComparePassword, ChangePassword, DeleteStaff,
                  InsertStaff, CreateBoard, GetIP
    <2> QED BY <2>1, SamePosts DEF logVars
  <1>4. CASE \/ WriteBan(r) \/ Unban(r)
             \/ GetSameIPPosts(r) \/ SetThreadLock(r) \/ PurgePost(r) \/ ModerateImages(r)
    <2>1. UNCHANGED <<postVars, shadow>>
      BY <1>4 DEF WriteBan, Unban, GetSameIPPosts, SetThreadLock, PurgePost, LogPost,
                  ModerateImages
    <2> QED BY <2>1, SamePosts
  <1> QED BY <1>1, <1>2, <1>3, <1>4 DEF Act

\* The log grows, and no ban of the staff is new
LEMMA LogGrows ==
    ASSUME BansAreLogged, \A x \in bans' : x.post # None => x \in bans, modLog \subseteq modLog'
    PROVE  BansAreLogged'
  BY DEF BansAreLogged

\* A ban is written with its entry
LEMMA BanLogged ==
    ASSUME BansAreLogged, NEW r \in Request, WriteBan(r)
    PROVE  BansAreLogged'
  <1> DEFINE b == request[r].board
             p == request[r].post
             e == Entry("ban", b, p, request[r].account)
  <1>1. CASE There(r)
    <2>1. bans' = bans \cup {Row(b, p)} /\ modLog' = modLog \cup {e}
      BY <1>1 DEF WriteBan, AddBan, Logged
    <2>2. /\ e.type = "ban" /\ e.board = b /\ e.post = p
          /\ Row(b, p).board = b /\ Row(b, p).post = p
      BY DEF Entry, Row
    <2> HIDE DEF e
    <2> QED BY <2>1, <2>2 DEF BansAreLogged
  <1>2. CASE ~There(r)
    <2>1. UNCHANGED <<bans, modLog>>
      BY <1>2 DEF WriteBan, abuseVars, banVars
    <2> QED BY <2>1, LogGrows
  <1> QED BY <1>1, <1>2

\* A board goes with its bans and its log
LEMMA LogCascades ==
    ASSUME BansAreLogged, NEW b, NEW new, Cascade(b),
           modLog' = {e \in modLog : e.board # b} \cup {new}
    PROVE  BansAreLogged'
  BY DEF BansAreLogged, Cascade, DropBans

\* The steps of requests, as far as the log is concerned
LEMMA BansStayLogged ==
    ASSUME BansAreLogged, NEW r \in Request, Act(r)
    PROVE  BansAreLogged'
  <1>1. CASE WriteBan(r)
    BY <1>1, BanLogged
  <1>2. CASE DeleteBoard(r)
    <2>1. CASE request[r].board = All
      <3>1. UNCHANGED <<bans, modLog>>
        BY <1>2, <2>1 DEF DeleteBoard, logVars, abuseVars, banVars
      <3> QED BY <3>1, LogGrows
    <2>2. CASE request[r].board # All
      BY <1>2, <2>2, LogCascades DEF DeleteBoard
    <2> QED BY <2>1, <2>2
  <1>3. CASE \/ CommitLogin(r) \/ LogOutAll(r) \/ ComparePassword(r) \/ ChangePassword(r)
             \/ DeleteStaff(r) \/ InsertStaff(r) \/ CreateBoard(r) \/ GetIP(r)
    <2>1. UNCHANGED <<logVars, abuseVars>>
      BY <1>3 DEF CommitLogin, LogOutAll, ComparePassword, ChangePassword, DeleteStaff,
                  InsertStaff, CreateBoard, GetIP
    <2> QED BY <2>1, LogGrows DEF logVars, abuseVars, banVars
  <1>4. CASE Unban(r)
    <2>1. bans' \subseteq bans /\ modLog \subseteq modLog'
      BY <1>4 DEF Unban, LiftBan, Logged, abuseVars, banVars
    <2> QED BY <2>1, LogGrows
  <1>5. CASE \/ GetSameIPPosts(r) \/ SetThreadLock(r) \/ PurgePost(r)
             \/ DeletePosts(r) \/ ModerateImages(r) \/ DeletePostsByIP(r)
    <2>1. bans' = bans
      BY <1>5 DEF GetSameIPPosts, SetThreadLock, PurgePost, LogPost, DeletePosts,
                  ModerateImages, DeletePostsByIP, abuseVars, banVars
    <2>2. modLog \subseteq modLog'
      <3>1. CASE GetSameIPPosts(r) \/ SetThreadLock(r) \/ PurgePost(r)
        BY <3>1 DEF GetSameIPPosts, SetThreadLock, PurgePost, LogPost, Logged
      <3>2. CASE DeletePosts(r)
        BY <3>2 DEF DeletePosts
      <3>3. CASE ModerateImages(r)
        BY <3>3 DEF ModerateImages
      <3>4. CASE DeletePostsByIP(r)
        BY <3>4 DEF DeletePostsByIP
      <3> QED BY <1>5, <3>1, <3>2, <3>3, <3>4
    <2> QED BY <2>1, <2>2, LogGrows
  <1> QED BY <1>1, <1>2, <1>3, <1>4, <1>5 DEF Act

-----------------------------------------------------------------------------
(* All of it.                                                              *)

AbuseInv == BanInv /\ LeaveInv /\ ScoreInv /\ CaptchaInv
AdminInv == AbuseInv /\ RightsInv /\ PostsInv /\ BansAreLogged /\ Handled

\* A step that is not about abuse
LEMMA SameAbuse ==
    ASSUME AbuseInv, UNCHANGED abuseVars
    PROVE  AbuseInv'
  <1>1. /\ UNCHANGED <<bans, banCache, pending, launches, reads, overtaken, unheard, lapsed,
                       banTask>>
        /\ UNCHANGED <<clientVars, scoreVars, captchaVars>>
    BY DEF abuseVars, banVars, clientVars
  <1>2. BanInv'
    BY <1>1, SameBans DEF AbuseInv, BanInv, BansTyped
  <1>3. LeaveInv'
    BY <1>1, SameClients DEF AbuseInv
  <1> QED BY <1>1, <1>2, <1>3, SameScore, SameCaptchas DEF AbuseInv

\* A step about bans alone
LEMMA BansOnly ==
    ASSUME AbuseInv, UNCHANGED <<scoreVars, captchaVars>>, BanInv', LeaveInv'
    PROVE  AbuseInv'
  BY SameScore, SameCaptchas DEF AbuseInv

\* The steps of Propagate
LEMMA PropagateStep ==
    ASSUME AbuseInv, Propagate
    PROVE  AbuseInv'
  <1>1. ASSUME NEW r \in Request, PropagateBans(r)
        PROVE  AbuseInv'
    <2>1. UNCHANGED <<scoreVars, captchaVars>>
      BY <1>1 DEF PropagateBans
    <2> QED BY <1>1, <2>1, BansPropagated, SeekingGoesOn, BansOnly DEF AbuseInv
  <1>2. ASSUME NEW r \in Request, DisconnectByBoardAndIP(r)
        PROVE  AbuseInv'
    <2>1. UNCHANGED <<scoreVars, captchaVars>>
      BY <1>2 DEF DisconnectByBoardAndIP
    <2> QED BY <1>2, <2>1, TaskEnds, SeekingEnds, BansOnly DEF AbuseInv, LeaveInv
  <1>3. ASSUME NEW by \in {"listener", "goroutine"}, ReadBans(by)
        PROVE  AbuseInv'
    <2>1. UNCHANGED <<bans, clientVars, scoreVars, captchaVars>> /\ banTask' = banTask
      BY <1>3 DEF ReadBans, clientVars
    <2>2. BanInv'
      BY <1>3, <2>1, BansRead DEF AbuseInv
    <2>3. LeaveInv'
      BY <2>1, SameClients DEF AbuseInv
    <2> QED BY <2>1, <2>2, <2>3, BansOnly
  <1>4. ASSUME NEW i \in 1..MaxReads, SwapCache(i)
        PROVE  AbuseInv'
    <2>1. UNCHANGED <<bans, clientVars, scoreVars, captchaVars>> /\ banTask' = banTask /\ i \in Nat
      BY <1>4, AbuseAssumption DEF SwapCache, clientVars
    <2>2. BanInv'
      BY <1>4, <2>1, CacheSwapped DEF AbuseInv
    <2>3. LeaveInv'
      BY <2>1, SameClients DEF AbuseInv
    <2> QED BY <2>1, <2>2, <2>3, BansOnly
  <1> QED BY <1>1, <1>2, <1>3, <1>4 DEF Propagate

\* A ban of the system
LEMMA SystemBanStep ==
    ASSUME BanInv, LeaveInv, SystemBan,
           UNCHANGED <<banCache, pending, launches, overtaken, lapsed, clientVars>>
    PROVE  BanInv' /\ LeaveInv'
  <1>1. banTask' = banTask
    BY DEF clientVars
  <1>2. \A x \in bans' : x.post # None => x \in bans
    BY DEF SystemBan, Row
  <1> QED BY <1>1, <1>2, SystemBanned, SameClients

\* The goroutines that a positive answer starts
LEMMA Launched ==
    ASSUME BanInv, NEW n \in Nat, Launch(n)
    PROVE  launches' \in 0..MaxReads
  <1>1. Len(reads) \in Nat /\ launches \in 0..MaxReads /\ MaxReads \in Nat
    BY LenProperties, AbuseAssumption DEF BanInv, BansTyped
  <1> QED BY <1>1 DEF Launch

\* A client is checked
LEMMA CheckStep ==
    ASSUME AbuseInv, NEW c \in Client, NEW b \in Boards, NEW next \in ClientType,
           next.at \in {"checked", "synced"} => next.board = b, Checked(c, b, next)
    PROVE  AbuseInv'
  <1>1. /\ UNCHANGED <<bans, banCache, pending, reads, overtaken, unheard, lapsed, banTask>>
        /\ UNCHANGED <<scoreVars, captchaVars>>
        /\ Launch(1) \/ UNCHANGED launches
    BY DEF Checked
  <1>2. launches' \in 0..MaxReads
    BY <1>1, Launched DEF AbuseInv, BanInv, BansTyped
  <1>3. BanInv'
    BY <1>1, <1>2, SameBans DEF AbuseInv
  <1>4. LeaveInv'
    BY ClientChecked DEF AbuseInv
  <1> QED BY <1>1, <1>3, <1>4, BansOnly

\* The steps of AbuseStep
LEMMA AbuseStepKeeps ==
    ASSUME AbuseInv, AbuseStep
    PROVE  AbuseInv'
  <1>1. ASSUME NEW b \in Boards, AssertNotBanned(b)
        PROVE  AbuseInv'
    <2>1. /\ UNCHANGED <<bans, banCache, pending, reads, overtaken, unheard, lapsed, banTask>>
          /\ UNCHANGED <<clientVars, scoreVars, captchaVars>>
          /\ Launch(1) \/ Launch(2)
      BY <1>1 DEF AssertNotBanned, clientVars
    <2>2. launches' \in 0..MaxReads
      BY <2>1, Launched DEF AbuseInv
    <2>3. BanInv' /\ LeaveInv'
      BY <2>1, <2>2, SameBans, SameClients DEF AbuseInv
    <2> QED BY <2>1, <2>3, BansOnly
  <1>2. ASSUME NEW r \in bans, Expire(r)
        PROVE  AbuseInv'
    <2>1. UNCHANGED <<clientVars, scoreVars, captchaVars>> /\ bans' \subseteq bans
      BY <1>2 DEF Expire
    <2>2. BanInv' /\ LeaveInv'
      BY <1>2, <2>1, BanExpires, SameClients DEF AbuseInv
    <2> QED BY <2>1, <2>2, BansOnly
  <1>3. ASSUME NEW c \in Client, Connect(c)
        PROVE  AbuseInv'
    <2> DEFINE next == [at |-> "open"]
    <2>1. next \in ClientType /\ next.at = "open" /\ All \in Boards /\ Checked(c, All, next)
      BY <1>3 DEF ClientType, Boards, Connect
    <2> HIDE DEF next
    <2> QED BY <2>1, CheckStep
  <1>4. ASSUME NEW c \in Client, NEW b \in Boards, Synchronise(c, b)
        PROVE  AbuseInv'
    <2> DEFINE next == [at |-> "checked", board |-> b]
    <2>1. next \in ClientType /\ next.board = b /\ Checked(c, b, next)
      BY <1>4 DEF ClientType, Synchronise
    <2> HIDE DEF next
    <2> QED BY <2>1, CheckStep
  <1>5. ASSUME NEW c \in Client, RegisterSync(c)
        PROVE  AbuseInv'
    <2>1. UNCHANGED <<banVars, banTask, scoreVars, captchaVars>>
      BY <1>5 DEF RegisterSync
    <2>2. BanInv'
      BY <2>1, SameBans DEF AbuseInv, BanInv, BansTyped, banVars
    <2> QED BY <1>5, <2>1, <2>2, ClientListed, BansOnly DEF AbuseInv
  <1>6. CASE IncrementSpamScore \/ LoseSpamScores \/ ExpireSpamScores \/ Tick
    <2>1. UNCHANGED <<banVars, clientVars, captchaVars>>
      BY <1>6 DEF IncrementSpamScore, LoseSpamScores, ExpireSpamScores, Tick
    <2>2. BanInv' /\ LeaveInv' /\ CaptchaInv'
      BY <2>1, SameBans, SameClients, SameCaptchas
      DEF AbuseInv, BanInv, BansTyped, banVars, clientVars
    <2>3. ScoreInv'
      BY <1>6, ScoreIncremented, ScoreLost, ScoreExpires, ScoreAges DEF AbuseInv
    <2> QED BY <2>2, <2>3 DEF AbuseInv
  <1>7. CASE SyncSpamScores
    <2>1. /\ UNCHANGED <<banCache, pending, launches, overtaken, lapsed, clientVars, captchaVars>>
          /\ SystemBan \/ UNCHANGED <<bans, unheard, reads>>
      BY <1>7 DEF SyncSpamScores
    <2>2. BanInv' /\ LeaveInv'
      BY <2>1, SystemBanStep, SameBans, SameClients
      DEF AbuseInv, BanInv, BansTyped, clientVars
    <2> QED BY <1>7, <2>1, <2>2, ScoreSynced, SameCaptchas DEF AbuseInv
  <1>8. CASE GetSpamScore
    <2>1. /\ UNCHANGED <<banCache, pending, launches, overtaken, lapsed, clientVars, captchaVars>>
          /\ UNCHANGED <<clock, buffer, stored, due, errors>>
          /\ SystemBan /\ spamBanned' = TRUE
      BY <1>8 DEF GetSpamScore
    <2> QED BY <2>1, SystemBanStep, SpammerBanned, SameCaptchas DEF AbuseInv
  <1>9. CASE Forget
    <2>1. UNCHANGED <<banVars, clientVars, scoreVars>>
      BY <1>9 DEF Forget
    <2>2. BanInv' /\ LeaveInv' /\ ScoreInv'
      BY <2>1, SameBans, SameClients, SameScore
      DEF AbuseInv, BanInv, BansTyped, banVars, clientVars
    <2> QED BY <1>9, <2>2, CaptchaForgotten DEF AbuseInv
  <1>10. ASSUME NEW a \in Attempt,
                Solve(a) \/ ResetSpamScore(a) \/ Fail(a) \/ CountFailed(a) \/ BanBot(a)
         PROVE  AbuseInv'
    <2>1. CaptchaInv'
      BY <1>10, CaptchaStep DEF AbuseInv
    <2>2. CASE Solve(a) \/ Fail(a) \/ CountFailed(a)
      <3>1. UNCHANGED <<banVars, clientVars, scoreVars>>
        BY <2>2 DEF Solve, Fail, CountFailed
      <3>2. BanInv' /\ LeaveInv' /\ ScoreInv'
        BY <3>1, SameBans, SameClients, SameScore
        DEF AbuseInv, BanInv, BansTyped, banVars, clientVars
      <3> QED BY <2>1, <3>2 DEF AbuseInv
    <2>3. CASE ResetSpamScore(a)
      <3>1. UNCHANGED <<banVars, clientVars>>
        BY <2>3 DEF ResetSpamScore
      <3>2. BanInv' /\ LeaveInv'
        BY <3>1, SameBans, SameClients
        DEF AbuseInv, BanInv, BansTyped, banVars, clientVars
      <3> QED BY <2>1, <2>3, <3>2, ScoreReset DEF AbuseInv
    <2>4. CASE BanBot(a)
      <3>1. /\ UNCHANGED <<banCache, pending, launches, overtaken, lapsed, clientVars, scoreVars>>
            /\ SystemBan
        BY <2>4 DEF BanBot
      <3> QED BY <2>1, <3>1, SystemBanStep, SameScore DEF AbuseInv
    <2> QED BY <1>10, <2>2, <2>3, <2>4
  <1> QED
    BY <1>1, <1>2, <1>3, <1>4, <1>5, <1>6, <1>7, <1>8, <1>9, <1>10 DEF AbuseStep

\* A step of a request that does not propagate a ban
LEMMA HandlerGoesOn ==
    ASSUME Handled, Carrying, NEW r \in Request, banTask[r] = Idle, banTask' = banTask,
           \E v : request' = [request EXCEPT ![r] = v]
    PROVE  Handled'
  BY DEF Handled, Carrying

\* A request is let in where no other handler is, and propagates a ban when it is over
LEMMA RequestsAreHandled ==
    ASSUME Handled, RightsInv, LeaveInv, NEW r \in Request, Handle(r) \/ Act(r)
    PROVE  Handled'
  <1>1. Carrying
    BY DEF RightsInv
  <1>2. CASE Handle(r)
    <2>1. ASSUME NEW a, NEW op, NEW b, Let(r, a, op, b)
          PROVE  banTask[r] = Idle /\ banTask' = banTask
      BY <2>1 DEF Let, abuseVars, clientVars
    <2>2. ASSUME NEW a, NEW op, Begin(r, a, op)
          PROVE  /\ banTask[r] = Idle /\ banTask' = banTask
                 /\ \E v : request' = [request EXCEPT ![r] = v]
      BY <2>2 DEF Begin, abuseVars, clientVars
    <2>3. ASSUME NEW a, NEW op, NEW b, AskBoard(r, a, op, b)
          PROVE  Handled'
      BY <1>1, <2>1, <2>3, HandlerGoesOn DEF AskBoard
    <2>4. ASSUME NEW a, NEW op, AskAccount(r, a, op)
          PROVE  Handled'
      BY <1>1, <2>1, <2>4, HandlerGoesOn DEF AskAccount
    <2>5. ASSUME NEW op, NEW global, CanModeratePost(r, op, global)
          PROVE  Handled'
      BY <1>1, <2>1, <2>5, HandlerGoesOn DEF CanModeratePost, AskPost
    <2>6. ASSUME NEW op, ModeratePosts(r, op)
          PROVE  Handled'
      BY <1>1, <2>1, <2>6, HandlerGoesOn DEF ModeratePosts, AskPosts
    <2>7. CASE login(r) \/ register(r)
      BY <1>1, <2>2, <2>7, HandlerGoesOn DEF login, register, Login, Register
    <2> QED
      BY <1>2, <2>3, <2>4, <2>5, <2>6, <2>7
      DEF Handle, logoutAll, changePassword, assignStaff, createBoard, deleteBoard,
          deletePosts, deleteImage, modSpoilerImage, deletePostsByIP, getSameIPPosts,
          setThreadLock, purgePost, ban, unban
  <1>3. CASE Act(r)
    <2>1. request[r] # Idle
      <3>1. PICK step, op : /\ step \in {"allowed", "verified", "deleting", "ip"}
                            /\ In(r, step, op)
        <4>1. CASE \/ CommitLogin(r) \/ LogOutAll(r) \/ ComparePassword(r) \/ ChangePassword(r)
                   \/ DeleteStaff(r) \/ InsertStaff(r) \/ CreateBoard(r) \/ DeleteBoard(r)
          BY <4>1 DEF CommitLogin, LogOutAll, ComparePassword, ChangePassword, DeleteStaff,
                      InsertStaff, CreateBoard, DeleteBoard
        <4>2. CASE GetIP(r) \/ WriteBan(r) \/ Unban(r)
          BY <4>2 DEF GetIP, WriteBan, Unban
        <4>3. CASE \/ GetSameIPPosts(r) \/ SetThreadLock(r) \/ PurgePost(r)
                   \/ DeletePosts(r) \/ ModerateImages(r) \/ DeletePostsByIP(r)
          BY <4>3 DEF GetSameIPPosts, SetThreadLock, PurgePost, LogPost, DeletePosts,
                      ModerateImages, DeletePostsByIP
        <4> QED BY <1>3, <4>1, <4>2, <4>3 DEF Act
      <3> QED BY <3>1 DEF In, Idle
    <2>2. banTask[r] = Idle
      BY <2>1 DEF Handled
    <2>3. CASE WriteBan(r)
      <3>1. request' = [request EXCEPT ![r] = Idle]
        BY <2>3 DEF WriteBan, End
      <3>2. \A q \in Request \ {r} : banTask'[q] = banTask[q]
        BY <2>3 DEF WriteBan, AddBan, LeaveInv, ClientsTyped, abuseVars, clientVars
      <3> QED BY <1>1, <3>1, <3>2 DEF Handled, Carrying
    <2>4. CASE ~WriteBan(r)
      <3>1. banTask' = banTask
        BY <1>3, <2>4
        DEF Act, CommitLogin, LogOutAll, ComparePassword, ChangePassword, DeleteStaff, InsertStaff,
            CreateBoard, DeleteBoard, Cascade, DropBans, GetIP, Unban, LiftBan, GetSameIPPosts,
            SetThreadLock, PurgePost, LogPost, DeletePosts, ModerateImages, DeletePostsByIP,
            abuseVars, clientVars
      <3>2. \E v : request' = [request EXCEPT ![r] = v]
        BY <1>3
        DEF Act, End, CommitLogin, LogOutAll, ComparePassword, ChangePassword, DeleteStaff,
            InsertStaff, CreateBoard, DeleteBoard, GetIP, WriteBan, Unban, GetSameIPPosts,
            SetThreadLock, PurgePost, LogPost, DeletePosts, ModerateImages, DeletePostsByIP
      <3> QED BY <1>1, <2>2, <3>1, <3>2, HandlerGoesOn
    <2> QED BY <2>3, <2>4
  <1> QED BY <1>2, <1>3

\* What requests do about bans
LEMMA RequestsAndAbuse ==
    ASSUME AbuseInv, RightsInv, Handled, NEW r \in Request, Handle(r) \/ Act(r)
    PROVE  AbuseInv'
  <1>1. CASE Handle(r)
    <2>1. UNCHANGED abuseVars
      BY <1>1
      DEF Handle, login, register, Login, Register, Begin, Let, AskBoard, AskAccount, AskPost,
          AskPosts, CanModeratePost, ModeratePosts, logoutAll, changePassword, assignStaff,
          createBoard, deleteBoard, deletePosts, deleteImage, modSpoilerImage, deletePostsByIP,
          getSameIPPosts, setThreadLock, purgePost, ban, unban
    <2> QED BY <2>1, SameAbuse
  <1>2. CASE WriteBan(r)
    <2> DEFINE b == request[r].board
               p == request[r].post
    <2>1. In(r, "ip", "ban")
      BY <1>2 DEF WriteBan
    <2>2. b \in Boards /\ p \in Post /\ banTask[r] = Idle
      BY <2>1 DEF RightsInv, Carrying, Carried, In, Handled, Idle
    <2>3. CASE There(r)
      <3>1. AddBan(r, b, p)
        BY <1>2, <2>3 DEF WriteBan
      <3>2. UNCHANGED <<scoreVars, captchaVars>>
        BY <3>1 DEF AddBan
      <3> HIDE DEF b, p
      <3>3. BanInv' /\ LeaveInv'
        BY <2>2, <3>1, BanAdded, BanSeeks DEF AbuseInv, LeaveInv
      <3> QED BY <3>2, <3>3, BansOnly
    <2>4. CASE ~There(r)
      BY <1>2, <2>4, SameAbuse DEF WriteBan
    <2> QED BY <2>3, <2>4
  <1>3. CASE Unban(r)
    <2>1. CASE There(r)
      <3>1. PICK b, p : LiftBan(b, p)
        BY <1>3, <2>1 DEF Unban
      <3>2. UNCHANGED <<clientVars, scoreVars, captchaVars>> /\ bans' \subseteq bans
        BY <3>1 DEF LiftBan
      <3>3. banTask' = banTask
        BY <3>2 DEF clientVars
      <3>4. BanInv' /\ LeaveInv'
        BY <3>1, <3>2, <3>3, BanLifted, SameClients DEF AbuseInv
      <3> QED BY <3>2, <3>4, BansOnly
    <2>2. CASE ~There(r)
      BY <1>3, <2>2, SameAbuse DEF Unban
    <2> QED BY <2>1, <2>2
  <1>4. CASE DeleteBoard(r)
    <2>1. CASE request[r].board = All
      BY <1>4, <2>1, SameAbuse DEF DeleteBoard
    <2>2. CASE request[r].board # All
      <3>1. PICK b : DropBans(b)
        BY <1>4, <2>2 DEF DeleteBoard, Cascade
      <3>2. UNCHANGED <<clientVars, scoreVars, captchaVars>> /\ bans' \subseteq bans
        BY <3>1 DEF DropBans
      <3> QED BY <3>1, <3>2, BansDropped, SameClients, BansOnly DEF AbuseInv
    <2> QED BY <2>1, <2>2
  <1>5. CASE \/ CommitLogin(r) \/ LogOutAll(r) \/ ComparePassword(r) \/ ChangePassword(r)
             \/ DeleteStaff(r) \/ InsertStaff(r) \/ CreateBoard(r) \/ GetIP(r)
             \/ GetSameIPPosts(r) \/ SetThreadLock(r) \/ PurgePost(r)
             \/ DeletePosts(r) \/ ModerateImages(r) \/ DeletePostsByIP(r)
    <2>1. UNCHANGED abuseVars
      BY <1>5 DEF CommitLogin, LogOutAll, ComparePassword, ChangePassword, DeleteStaff,
                  InsertStaff, CreateBoard, GetIP, GetSameIPPosts, SetThreadLock, PurgePost,
                  LogPost, DeletePosts, ModerateImages, DeletePostsByIP
    <2> QED BY <2>1, SameAbuse
  <1> QED BY <1>1, <1>2, <1>3, <1>4, <1>5 DEF Act

\* The invariant holds at first
LEMMA AdminInit == Init => AdminInv
  <1> SUFFICES ASSUME Init PROVE AdminInv
    OBVIOUS
  <1>1. BanInv
    <2>1. reads = <<>> /\ Len(reads) = 0 /\ reads \in Seq(ReadType)
      BY DEF Init, AbuseInit
    <2>2. BansTyped
      BY <2>1, AbuseAssumption DEF Init, AbuseInit, BansTyped
    <2>3. NewestFaithful
      BY <2>1 DEF Init, AbuseInit, NewestFaithful, LastIsNew, Faithful, BoardsOf
    <2>4. StaleFirst
      BY <2>1 DEF StaleFirst
    <2> QED BY <2>2, <2>3, <2>4 DEF BanInv
  <1>2. LeaveInv
    BY DEF Init, AbuseInit, LeaveInv, ClientsTyped, Pursued, TaskType, ClientType
  <1>3. ScoreInv
    <2>1. /\ clock = 0 /\ errors = 0 /\ buffer = None /\ stored = None /\ due = -1
      BY DEF Init, AbuseInit, Threshold
    <2>2. ScoresTyped
      BY <2>1 DEF ScoresTyped
    <2>3. AtLeast(None, -1) = -1 /\ AtLeast(-1, -1) = -1
      BY AbuseAssumption DEF AtLeast
    <2>4. Merge(buffer, stored) = -1
      BY <2>1, <2>3 DEF Merge, Threshold
    <2>5. ScoreIsKept
      BY <2>1, <2>3, <2>4 DEF ScoreIsKept, Threshold
    <2> QED BY <2>1, <2>2, <2>5 DEF ScoreInv, SpamIsBanned
  <1>4. CaptchaInv
    <2>1. FailLimit \in Nat \ {0} /\ failed = 0 /\ attempt = [a \in Attempt |-> Idle]
      BY AbuseAssumption DEF Init, AbuseInit
    <2> QED BY <2>1 DEF CaptchaInv, CaptchasTyped, Counting, Idle
  <1>5. RightsInv
    <2>1. Carrying
      BY DEF Init, Carrying, Idle
    <2>2. 0 # None
      BY AbuseAssumption
    <2>3. /\ password \in [Account -> Nat \cup {None}] /\ expelled = [a \in Account |-> 0]
          /\ \A a \in Account : password[a] \in {0, None}
      BY DEF Init
    <2>4. \A s \in sessions : /\ s \in [account : Account, password : Nat]
                              /\ s.password = 0 /\ password[s.account] = 0
      BY DEF Init
    <2>5. Registered
      BY <2>2, <2>3, <2>4 DEF Registered
    <2>6. BoardOwner \in Janitor..BoardOwner
      BY DEF Janitor, BoardOwner
    <2>7. \A b \in Boards : LET row == StaffRow(b, AdminAccount, BoardOwner, 0)
                            IN  /\ row \in [board : Boards, account : Account,
                                            position : Janitor..BoardOwner, assignment : Nat]
                                /\ row.board = b /\ row.position = BoardOwner
      BY <2>6, StaffRowTyped, AdministrationAssumption
    <2>8. /\ staff = {StaffRow(b, AdminAccount, BoardOwner, 0) : b \in Boards}
          /\ boards = Board /\ assignments = 0
      BY DEF Init
    <2>9. StaffTyped
      BY <2>7, <2>8 DEF StaffTyped
    <2>10. OwnersRemain
      BY <2>7, <2>8 DEF OwnersRemain, Boards
    <2> QED BY <2>1, <2>5, <2>9, <2>10 DEF RightsInv
  <1>6. PostsInv
    BY DEF Init, PostsInv, PostsTyped, Doomed, ShadowHides, Idle
  <1>7. BansAreLogged /\ Handled
    BY DEF Init, AbuseInit, BansAreLogged, Handled
  <1> QED BY <1>1, <1>2, <1>3, <1>4, <1>5, <1>6, <1>7 DEF AdminInv, AbuseInv

\* ... and every step keeps it
LEMMA AdminNext == AdminInv /\ [Next]_vars => AdminInv'
  <1> SUFFICES ASSUME AdminInv, [Next]_vars PROVE AdminInv'
    OBVIOUS
  <1> USE DEF AdminInv
  <1>1. Carrying
    BY DEF RightsInv
  <1>2. ASSUME UNCHANGED adminVars
        PROVE  /\ RightsInv' /\ PostsInv' /\ UNCHANGED <<request, modLog>>
    <2>1. UNCHANGED <<request, accountVars, boardVars, postVars, shadow, modLog>>
      BY <1>2 DEF adminVars, logVars
    <2> QED BY <2>1, SameRights, SamePosts
  <1>3. CASE PropagateNext
    <2>1. Propagate /\ UNCHANGED adminVars
      BY <1>3 DEF PropagateNext
    <2>2. bans' = bans /\ \A r \in Request : banTask[r] = Idle => banTask'[r] = Idle
      BY <2>1
      DEF Propagate, PropagateBans, DisconnectByBoardAndIP, ReadBans, SwapCache, banVars,
          clientVars, AbuseInv, LeaveInv, ClientsTyped, Idle
    <2> QED BY <1>2, <2>1, <2>2, PropagateStep, LogGrows DEF Handled
  <1>4. CASE AbuseStep /\ UNCHANGED adminVars
    <2>1. banTask' = banTask /\ \A x \in bans' : x.post # None => x \in bans
      BY <1>4
      DEF AbuseStep, AssertNotBanned, Expire, Connect, Checked, RegisterSync, Synchronise,
          IncrementSpamScore, SyncSpamScores, LoseSpamScores, GetSpamScore, ExpireSpamScores, Tick,
          Forget, Solve, ResetSpamScore, Fail, CountFailed, BanBot, SystemBan, Row, banVars,
          clientVars
    <2> QED BY <1>2, <1>4, <2>1, AbuseStepKeeps, LogGrows DEF Handled
  <1>5. ASSUME NEW r \in Request, Handle(r)
        PROVE  AdminInv'
    <2>1. UNCHANGED <<postVars, logVars, abuseVars>>
      BY <1>5
      DEF Handle, login, register, Login, Register, Begin, Let, AskBoard, AskAccount, AskPost,
          AskPosts, CanModeratePost, ModeratePosts, logoutAll, changePassword, assignStaff,
          createBoard, deleteBoard, deletePosts, deleteImage, modSpoilerImage, deletePostsByIP,
          getSameIPPosts, setThreadLock, purgePost, ban, unban
    <2>2. PostsInv' /\ BansAreLogged'
      BY <2>1, SamePosts, LogGrows DEF logVars, abuseVars, banVars
    <2>3. Handled'
      BY <1>5, RequestsAreHandled DEF AbuseInv
    <2> QED BY <1>5, <2>1, <2>2, <2>3, SameAbuse, RequestLetIn
  <1>6. ASSUME NEW r \in Request, Act(r)
        PROVE  AdminInv'
    <2>1. Handled'
      BY <1>6, RequestsAreHandled DEF AbuseInv
    <2> QED BY <1>1, <1>6, <2>1, RequestsAndAbuse, RequestActs, PostsModerated, BansStayLogged
  <1>7. CASE EndSession
    <2>1. UNCHANGED <<postVars, logVars, request, abuseVars>>
      BY <1>7 DEF EndSession
    <2>2. PostsInv' /\ BansAreLogged' /\ Handled'
      BY <2>1, SamePosts, LogGrows DEF logVars, abuseVars, banVars, clientVars, Handled
    <2> QED BY <1>7, <2>1, <2>2, SessionEnds, SameAbuse
  <1>8. ASSUME NEW b \in Board, DeleteUnusedBoards(b)
        PROVE  AdminInv'
    <2>1. /\ Cascade(b) /\ UNCHANGED <<insert, outran, request>>
          /\ modLog' = {e \in modLog : e.board # b} \cup {Entry("deleteBoard", All, 0, "system")}
      BY <1>8 DEF DeleteUnusedBoards
    <2>2. DropBans(b)
      BY <2>1 DEF Cascade
    <2>3. UNCHANGED <<clientVars, scoreVars, captchaVars>> /\ bans' \subseteq bans
      BY <2>2 DEF DropBans
    <2>4. AbuseInv'
      BY <2>2, <2>3, BansDropped, SameClients, BansOnly DEF AbuseInv
    <2>5. Handled'
      BY <2>1, <2>3 DEF Handled, clientVars
    <2> QED BY <1>8, <2>1, <2>4, <2>5, UnusedBoardDeleted, PostsCascade, LogCascades
  <1>9. ASSUME NEW b \in Board, ExpireShadow(b)
        PROVE  AdminInv'
    <2>1. /\ UNCHANGED <<modLog, accountVars, boardVars, postVars, request, abuseVars>>
          /\ shadow' \subseteq shadow
      BY <1>9 DEF ExpireShadow
    <2>2. PostsInv'
      BY <2>1, PostsGo DEF postVars, PostsInv, PostsTyped
    <2>3. BansAreLogged' /\ Handled'
      BY <2>1, LogGrows DEF abuseVars, banVars, clientVars, Handled
    <2> QED BY <2>1, <2>2, <2>3, SameRights, SameAbuse
  <1>10. ASSUME NEW p \in Post, BeginInsert(p) \/ CommitInsert(p) \/ DeleteOldThreads(p)
         PROVE  AdminInv'
    <2>1. UNCHANGED <<accountVars, boardVars, logVars, request, abuseVars>>
      BY <1>10 DEF BeginInsert, CommitInsert, DeleteOldThreads
    <2>2. CASE DeleteOldThreads(p)
      <3>1. posts' = [posts EXCEPT ![p] = "absent"] /\ UNCHANGED <<insert, outran, shadow>>
        BY <2>2 DEF DeleteOldThreads, logVars
      <3> QED BY <2>1, <3>1, PostsGo, SameRights, SameAbuse, LogGrows
              DEF PostsInv, PostsTyped, Handled, abuseVars, banVars, clientVars, logVars
    <2>3. BansAreLogged' /\ Handled'
      BY <2>1, LogGrows DEF abuseVars, banVars, clientVars, Handled, logVars
    <2> QED BY <1>10, <2>1, <2>2, <2>3, InsertBegun, InsertCommitted, SameRights, SameAbuse
  <1>11. CASE UNCHANGED vars
    <2>1. UNCHANGED <<abuseVars, adminVars>>
      BY <1>11 DEF vars
    <2>2. BansAreLogged' /\ Handled'
      BY <1>2, <2>1, LogGrows DEF abuseVars, banVars, clientVars, Handled
    <2> QED BY <1>2, <2>1, <2>2, SameAbuse
  <1> QED
    BY <1>3, <1>4, <1>5, <1>6, <1>7, <1>8, <1>9, <1>10, <1>11 DEF Next

\* The invariant
THEOREM AdminInvHolds == Spec => []AdminInv
  BY AdminInit, AdminNext, PTL DEF Spec

\* Every board keeps an owner, and who changed the password and logged out everywhere
\* has shut out all who knew the old one (server/admin.go:565, accounts.go:188), for
\* any accounts, boards, requests and bounds
THEOREM RightsAreKept == Spec => []RightsHold
  <1>1. AdminInv => RightsHold
    BY DEF AdminInv, AbuseInv, BanInv, BansTyped, RightsInv, Registered, StaffTyped, PostsInv,
           PostsTyped, RightsHold, TypeOK, ShutOut
  <1> QED BY <1>1, AdminInvHolds, PTL

\* A ban is in the log, and a shadow ban hides what it did not miss (bans.go:83,
\* delete_posts_by_ip.sql)
THEOREM ModerationIsKept == Spec => []ModerationHolds
  <1>1. AdminInv => ModerationHolds
    BY DEF AdminInv, PostsInv, ModerationHolds
  <1> QED BY <1>1, AdminInvHolds, PTL

\* At rest the copy of the bans is that of the rows, and after a ban its clients have
\* left (bans.go:38 and 149), for any boards, clients, requests and refreshes
THEOREM BansAreKept == Spec => []BansHold
  <1>1. AdminInv => AbuseTypeOK
    <2> SUFFICES ASSUME AdminInv PROVE AbuseTypeOK
      OBVIOUS
    <2>1. BansTyped /\ ClientsTyped /\ ScoresTyped
      BY DEF AdminInv, AbuseInv, BanInv, LeaveInv, ScoreInv
    <2>2. bans \subseteq [board : Boards, post : {r.post : r \in bans}]
      BY <2>1 DEF BansTyped
    <2>3. All \in Boards
      BY DEF Boards
    <2> QED BY <2>1, <2>2, <2>3 DEF BansTyped, ClientsTyped, ScoresTyped, AbuseTypeOK
  <1>2. AdminInv => BansReach
    <2> SUFFICES ASSUME BanInv, CacheAtRest, ~overtaken
                 PROVE  /\ BoardsOf(bans) \subseteq banCache \cup unheard
                        /\ banCache \subseteq BoardsOf(bans) \cup lapsed
      BY DEF AdminInv, AbuseInv, BansReach
    <2>1. ~Coming /\ ~(pending > 0) /\ ~LastIsNew
      BY DEF CacheAtRest, Coming, LastIsNew
    <2> QED BY <2>1 DEF BanInv, NewestFaithful, Faithful
  <1>3. AdminInv => BannedLeave
    <2> SUFFICES ASSUME Pursued, \A r \in Request : banTask[r] = Idle,
                        NEW c \in Client \ slipped, NEW x \in bans, x.post # None,
                        Under(c, x.board)
                 PROVE  FALSE
      BY DEF AdminInv, AbuseInv, LeaveInv, BannedLeave
    <2> QED BY DEF Pursued, Under
  <1>4. AdminInv => BansHold
    BY <1>1, <1>2, <1>3 DEF BansHold
  <1> QED BY <1>4, AdminInvHolds, PTL

\* Without database errors the score is the sum of what was scored, and spam and
\* failed captchas are banned however they are counted (antispam.go:18 and 77,
\* captcha.go:59), for any limits and any number of attempts
THEOREM ScoresAreKept == Spec => []ScoresHold
  <1>1. AdminInv => ScoreIsKept
    BY DEF AdminInv, AbuseInv, ScoreInv
  <1>2. AdminInv => AbuseIsBanned
    BY DEF AdminInv, AbuseInv, ScoreInv, SpamIsBanned, CaptchaInv, Counting, AbuseIsBanned
  <1>3. AdminInv => ScoresHold
    BY <1>1, <1>2 DEF ScoresHold
  <1> QED BY <1>3, AdminInvHolds, PTL
=============================================================================

--------------------------- MODULE Administration ---------------------------
(***************************************************************************)
(* Accounts, their sessions and what the staff of boards do: the handlers  *)
(* of src/server/accounts.go and src/server/admin.go, which check the      *)
(* rights first and act later, on the tables of src/db/auth.go,            *)
(* src/db/admin.go and src/db/bans.go.  Deletions check the rights again,  *)
(* in the SQL functions that perform them.  Bans and their effects are     *)
(* those of Abuse.  A post stands for a thread with its only post; all of  *)
(* the posts are by the IP of Abuse.                                       *)
(***************************************************************************)
EXTENDS Abuse

CONSTANTS Account,      \* login IDs
          AdminAccount, \* the account "admin"
          Post,
          BoardOf       \* Post -> the board it is or would be on

ASSUME AdministrationAssumption ==
    /\ AdminAccount \in Account
    /\ None \notin Post
    /\ BoardOf \in [Post -> Board]
    /\ \A x \in AbuseBounds : x.acts \in Nat /\ x.there \subseteq Post

VARIABLES
    boards,       \* boards that exist, without "all"
    staff,        \* rows of staff, each with the assignment that wrote it
    password,     \* Account -> revision of the password, None if nobody registered it
    sessions,     \* rows of sessions: the account and the password it was opened with
    posts,        \* Post -> "absent", "shown" or "deleted"
    shadow,       \* boards with a row of type shadow
    modLog,       \* rows of mod_log: type, board, post and account
    request,      \* Request -> how far its handler has come
    insert,       \* Post -> the transaction that inserts it
    expelled,     \* history: Account -> passwords below cannot have a session left
    outran,       \* history: posts whose transaction saw no shadow ban that is there now
    assignments,  \* how many times staff was assigned
    acts          \* requests let in so far

accountVars == <<password, sessions, expelled>>
boardVars == <<boards, staff, assignments>>
postVars == <<posts, insert, outran>>
logVars == <<shadow, modLog>>
adminVars == <<accountVars, boardVars, postVars, logVars, request, acts>>
vars == <<abuseVars, adminVars>>

\* common.ModerationLevel
NotStaff == 0
Janitor == 1
Moderator == 2
BoardOwner == 3
Admin == 4

\* The level of canPerform in each handler, isLoggedIn alone for NotStaff: the SQL
\* functions check the rest
LevelOf == [logoutAll |-> NotStaff, changePassword |-> NotStaff,
            deletePosts |-> NotStaff, deletePostsByIP |-> NotStaff,
            deleteImages |-> NotStaff, spoilerImages |-> NotStaff,
            sameIPPosts |-> Janitor, ban |-> Moderator, unban |-> Moderator,
            setThreadLock |-> Moderator, assignStaff |-> BoardOwner,
            deleteBoard |-> BoardOwner, purgePost |-> Admin, createBoard |-> Admin]

Op == DOMAIN LevelOf

StaffRow(b, a, pos, n) == [board |-> b, account |-> a, position |-> pos, assignment |-> n]
Entry(type, b, p, a) == [type |-> type, board |-> b, post |-> p, by |-> a]

Init ==
    /\ AbuseInit
    /\ boards = Board
    /\ staff = {StaffRow(b, AdminAccount, BoardOwner, 0) : b \in Boards}
    /\ password = [a \in Account |-> IF a # AdminAccount /\ "register" \in bound.ops THEN None
                                     ELSE 0]
    /\ sessions = {[account |-> a, password |-> 0] : a \in {x \in Account : password[x] = 0}}
    /\ posts = [p \in Post |-> IF p \in bound.there THEN "shown" ELSE "absent"]
    /\ shadow = {} /\ modLog = {}
    /\ request = [r \in Request |-> Idle]
    /\ insert = [p \in Post |-> Idle]
    /\ expelled = [a \in Account |-> 0]
    /\ outran = {}
    /\ assignments = 0
    /\ acts = 0

(***************************************************************************)
(* Rights.                                                                 *)
(***************************************************************************)
IsLoggedIn(a) == \E s \in sessions : s.account = a

\* FindPosition: the highest position on the board or on "all"
HasPosition(a, b, level) ==
    level = NotStaff \/ \E s \in staff : /\ s.account = a
                                         /\ s.board \in {b, All}
                                         /\ s.position >= level

\* CanPerform: the admin account can do anything, and only it what needs Admin
CanPerform(a, b, level) ==
    a = AdminAccount \/ (level # Admin /\ HasPosition(a, b, level))

\* assert_can_perform knows only the rows of staff
AssertCanPerform(a, b) == HasPosition(a, b, Janitor)

(***************************************************************************)
(* Requests: canPerform or isLoggedIn lets the handler in, ...             *)
(***************************************************************************)
Let(r, a, op, b) ==
    /\ request[r] = Idle /\ banTask[r] = Idle
    /\ op \in bound.ops
    /\ acts < bound.acts /\ acts' = acts + 1
    /\ IsLoggedIn(a)
    /\ CanPerform(a, b, LevelOf[op])
    /\ UNCHANGED <<accountVars, boardVars, postVars, logVars, abuseVars>>

Allowed(a, op, b) == [at |-> "allowed", account |-> a, op |-> op, board |-> b]
AllowedPost(a, op, b, p) ==
    [at |-> "allowed", account |-> a, op |-> op, board |-> b, post |-> p]

\* canPerform asks for a board that exists; board creation only for the admin
AskBoard(r, a, op, b) ==
    /\ op \in {"assignStaff", "deleteBoard", "createBoard"}
    /\ op = "createBoard" \/ b \in boards \cup {All}
    /\ Let(r, a, op, b)
    /\ request' = [request EXCEPT ![r] = Allowed(a, op, b)]

\* The account's own requests
AskAccount(r, a, op) ==
    /\ op \in {"logoutAll", "changePassword"}
    /\ Let(r, a, op, All)
    /\ request' = [request EXCEPT ![r] = Allowed(a, op, All)]

\* canModeratePost and ban look the board of the post up; a global ban, and the
\* deletions, do not
AskPost(r, a, op, p, global) ==
    /\ op \in {"deletePostsByIP", "sameIPPosts", "ban", "unban", "setThreadLock", "purgePost"}
    /\ global => op \in {"ban", "unban"}
    /\ op \in {"unban", "deletePostsByIP"} \/ posts[p] # "absent" \/ global
    /\ global \/ BoardOf[p] \in boards
    /\ LET b == IF global THEN All ELSE BoardOf[p]
       IN  /\ Let(r, a, op, b)
           /\ request' = [request EXCEPT ![r] = AllowedPost(a, op, b, p)]

AskPosts(r, a, op, ps) ==
    /\ op \in {"deletePosts", "deleteImages", "spoilerImages"}
    /\ Let(r, a, op, All)
    /\ request' = [request EXCEPT ![r] = [at |-> "allowed", account |-> a, op |-> op,
                                          board |-> All, posts |-> ps]]

(***************************************************************************)
(* ... and then it acts.                                                   *)
(***************************************************************************)
In(r, step, op) == request[r].at = step /\ request[r].op = op
End(r) == request' = [request EXCEPT ![r] = Idle]

\* A request without a session
Begin(r, a, op) ==
    /\ request[r] = Idle /\ banTask[r] = Idle
    /\ op \in bound.ops
    /\ acts < bound.acts /\ acts' = acts + 1
    /\ request' = [request EXCEPT ![r] = [at |-> "verified", op |-> "login", account |-> a,
                                          password |-> IF op = "login" THEN password[a] ELSE 0]]
    /\ UNCHANGED <<sessions, expelled, boardVars, postVars, logVars, abuseVars>>

\* login: the password is compared, ...
Login(r, a) == password[a] # None /\ Begin(r, a, "login") /\ UNCHANGED password

\* register: the account is written unless it is there, then it is logged in
Register(r, a) == /\ password[a] = None
                  /\ Begin(r, a, "register")
                  /\ password' = [password EXCEPT ![a] = 0]

\* ... and commitLogin writes the session
CommitLogin(r) ==
    /\ In(r, "verified", "login")
    /\ sessions' = sessions \cup {[account |-> request[r].account,
                                   password |-> request[r].password]}
    /\ End(r)
    /\ UNCHANGED <<password, expelled, boardVars, postVars, logVars, acts, abuseVars>>

LoginInFlight(a) == \E r \in Request : In(r, "verified", "login") /\ request[r].account = a

\* Mutant of LogOutAll: only the session of the request is deleted
LogOutOne(r) ==
    /\ In(r, "allowed", "logoutAll")
    /\ LET a == request[r].account
       IN  /\ \E s \in sessions : s.account = a /\ sessions' = sessions \ {s}
           /\ expelled' = IF LoginInFlight(a) THEN expelled
                          ELSE [expelled EXCEPT ![a] = password[a]]
    /\ End(r)
    /\ UNCHANGED <<password, boardVars, postVars, logVars, acts, abuseVars>>

LogOutAll(r) ==
    /\ In(r, "allowed", "logoutAll")
    /\ LET a == request[r].account
       IN  /\ sessions' = {s \in sessions : s.account # a}
           /\ expelled' = IF LoginInFlight(a) THEN expelled
                          ELSE [expelled EXCEPT ![a] = password[a]]
    /\ End(r)
    /\ UNCHANGED <<password, boardVars, postVars, logVars, acts, abuseVars>>

\* changePassword compares the old password, then hashes and writes the new one;
\* the sessions stay
ComparePassword(r) ==
    /\ In(r, "allowed", "changePassword")
    /\ request' = [request EXCEPT ![r].at = "verified"]
    /\ UNCHANGED <<accountVars, boardVars, postVars, logVars, acts, abuseVars>>

ChangePassword(r) ==
    /\ In(r, "verified", "changePassword")
    /\ password' = [password EXCEPT ![request[r].account] = @ + 1]
    /\ End(r)
    /\ UNCHANGED <<sessions, expelled, boardVars, postVars, logVars, acts, abuseVars>>

\* logout, or expireRows when the session has the cookie's age
EndSession == \E s \in sessions :
    /\ "login" \in bound.ops
    /\ sessions' = sessions \ {s}
    /\ UNCHANGED <<password, expelled, boardVars, postVars, logVars, request, acts, abuseVars>>

\* WriteStaff deletes the rows that its statement sees, ...
DeleteStaff(r) ==
    /\ In(r, "allowed", "assignStaff")
    /\ request' = [request EXCEPT ![r] = [at |-> "deleting", op |-> "assignStaff",
                                          board |-> @.board,
                                          rows |-> {s \in staff : s.board = @.board}]]
    /\ UNCHANGED <<accountVars, boardVars, postVars, logVars, acts, abuseVars>>

\* Mutant of InsertStaff: the handler does not ask for an owner
InsertAnyStaff(r) ==
    /\ In(r, "deleting", "assignStaff")
    /\ request[r].board \in boards \cup {All}
    /\ \E position \in [Account -> NotStaff..BoardOwner] :
          staff' = (staff \ request[r].rows)
                      \cup {StaffRow(request[r].board, a, position[a], assignments + 1)
                               : a \in {x \in Account : position[x] # NotStaff}}
    /\ assignments' = assignments + 1
    /\ End(r)
    /\ UNCHANGED <<boards, accountVars, postVars, logVars, acts, abuseVars>>

\* ... which a concurrent assignment may add to: read committed, no unique key.
\* Then the new rows, with an owner at least, unless the board or an account is not there
InsertStaff(r) ==
    /\ In(r, "deleting", "assignStaff")
    /\ \E position \in [Account -> NotStaff..BoardOwner] :
          LET named == {a \in Account : position[a] # NotStaff}
          IN  /\ \E a \in Account : position[a] = BoardOwner
              /\ IF request[r].board \in boards \cup {All} /\ \A a \in named : password[a] # None
                 THEN /\ staff' = (staff \ request[r].rows)
                              \cup {StaffRow(request[r].board, a, position[a], assignments + 1)
                                       : a \in named}
                      /\ assignments' = assignments + 1
                 ELSE UNCHANGED <<staff, assignments>>
    /\ End(r)
    /\ UNCHANGED <<boards, accountVars, postVars, logVars, acts, abuseVars>>

\* WriteBoard and WriteStaff in one transaction; a board of the name is a conflict
CreateBoard(r) ==
    /\ In(r, "allowed", "createBoard")
    /\ IF request[r].board \in boards \cup {All} THEN UNCHANGED boardVars
       ELSE /\ boards' = boards \cup {request[r].board}
            /\ staff' = staff \cup {StaffRow(request[r].board, request[r].account, BoardOwner,
                                        assignments + 1)}
            /\ assignments' = assignments + 1
    /\ End(r)
    /\ UNCHANGED <<accountVars, postVars, logVars, acts, abuseVars>>

\* The rows that refer to the board go with it
Cascade(b) ==
    /\ boards' = boards \ {b}
    /\ staff' = {s \in staff : s.board # b}
    /\ posts' = [p \in Post |-> IF BoardOf[p] = b THEN "absent" ELSE posts[p]]
    /\ DropBans(b)
    /\ shadow' = shadow \ {b}

\* deleteBoard, of the handler or for inactivity
DeleteBoard(r) ==
    /\ In(r, "allowed", "deleteBoard")
    /\ IF request[r].board = All THEN UNCHANGED <<boards, staff, posts, logVars, abuseVars>>
       ELSE /\ Cascade(request[r].board)
            /\ modLog' = {e \in modLog : e.board # request[r].board}
                            \cup {Entry("deleteBoard", All, 0, request[r].account)}
    /\ End(r)
    /\ UNCHANGED <<assignments, accountVars, insert, outran, acts>>

DeleteUnusedBoards(b) ==
    /\ "deleteBoard" \in bound.ops /\ b \in boards
    /\ Cascade(b)
    /\ modLog' = {e \in modLog : e.board # b} \cup {Entry("deleteBoard", All, 0, "system")}
    /\ UNCHANGED <<assignments, accountVars, insert, outran, request, acts>>

(***************************************************************************)
(* Moderation of posts.  The trigger of mod_log refers to the post: with   *)
(* the post gone, a transaction that logs it is rolled back.               *)
(***************************************************************************)
Logged(r, type, b) ==
    modLog' = modLog \cup {Entry(type, b, request[r].post, request[r].account)}

There(r) == posts[request[r].post] # "absent" /\ request[r].board \in boards \cup {All}

\* Ban reads the IP of the post, ...
GetIP(r) ==
    /\ In(r, "allowed", "ban")
    /\ request' = [request EXCEPT ![r] = IF There(r) THEN [@ EXCEPT !.at = "ip"] ELSE Idle]
    /\ UNCHANGED <<accountVars, boardVars, postVars, logVars, acts, abuseVars>>

\* Mutant of WriteBan: the entry of the log has a transaction of its own
WriteBanThenLog(r) ==
    /\ In(r, "ip", "ban")
    /\ IF request[r].board \in boards \cup {All}
       THEN /\ AddBan(r, request[r].board, request[r].post)
            /\ IF There(r) THEN Logged(r, "ban", request[r].board) ELSE UNCHANGED modLog
       ELSE UNCHANGED <<modLog, abuseVars>>
    /\ End(r)
    /\ UNCHANGED <<shadow, accountVars, boardVars, postVars, acts>>

\* ... and writes the ban and its log in one transaction
WriteBan(r) ==
    /\ In(r, "ip", "ban")
    /\ IF There(r) THEN /\ AddBan(r, request[r].board, request[r].post)
                        /\ Logged(r, "ban", request[r].board)
       ELSE UNCHANGED <<modLog, abuseVars>>
    /\ End(r)
    /\ UNCHANGED <<shadow, accountVars, boardVars, postVars, acts>>

Unban(r) ==
    /\ In(r, "allowed", "unban")
    /\ IF There(r) THEN /\ LiftBan(request[r].board, request[r].post)
                        /\ Logged(r, "unban", request[r].board)
       ELSE UNCHANGED <<modLog, abuseVars>>
    /\ End(r)
    /\ UNCHANGED <<shadow, accountVars, boardVars, postVars, acts>>

\* A transaction of op of which nothing but the log is modelled here
LogPost(r, op) ==
    /\ In(r, "allowed", op)
    /\ IF There(r) THEN Logged(r, op, request[r].board) ELSE UNCHANGED modLog
    /\ End(r)
    /\ UNCHANGED <<shadow, accountVars, boardVars, postVars, acts, abuseVars>>

GetSameIPPosts(r) == LogPost(r, "sameIPPosts")
SetThreadLock(r) == LogPost(r, "setThreadLock")
PurgePost(r) == LogPost(r, "purgePost")

\* delete_posts: all of the posts, or none if the rights for one of them miss
DeletePosts(r) ==
    /\ In(r, "allowed", "deletePosts")
    /\ LET found == {p \in request[r].posts : posts[p] = "shown"}
           a == request[r].account
       IN  IF \A p \in found : AssertCanPerform(a, BoardOf[p])
           THEN /\ posts' = [p \in Post |-> IF p \in found THEN "deleted" ELSE posts[p]]
                /\ modLog' = modLog \cup {Entry("delete", BoardOf[p], p, a) : p \in found}
           ELSE UNCHANGED <<posts, modLog>>
    /\ End(r)
    /\ UNCHANGED <<insert, outran, shadow, accountVars, boardVars, acts, abuseVars>>

\* delete_images and spoiler_images: the same of images, of which only the log is
\* modelled
ModerateImages(r) ==
    /\ In(r, "allowed", "deleteImages") \/ In(r, "allowed", "spoilerImages")
    /\ LET found == {p \in request[r].posts : posts[p] # "absent"}
           a == request[r].account
       IN  modLog' = IF \A p \in found : AssertCanPerform(a, BoardOf[p])
                     THEN modLog \cup {Entry(request[r].op, BoardOf[p], p, a) : p \in found}
                     ELSE modLog
    /\ End(r)
    /\ UNCHANGED <<shadow, accountVars, boardVars, postVars, acts, abuseVars>>

\* delete_posts_by_ip, with a duration: the shown posts of the board, and the row
\* of bans that deletes those to come
DeletePostsByIP(r) ==
    /\ In(r, "allowed", "deletePostsByIP")
    /\ LET b == BoardOf[request[r].post]
           a == request[r].account
           found == {p \in Post : posts[p] = "shown" /\ BoardOf[p] = b}
       IN  IF posts[request[r].post] # "absent" /\ AssertCanPerform(a, b)
           THEN /\ posts' = [p \in Post |-> IF p \in found THEN "deleted" ELSE posts[p]]
                /\ shadow' = shadow \cup {b}
                /\ modLog' = modLog \cup {Entry("delete", b, p, a) : p \in found}
                                    \cup {Entry("shadow", b, request[r].post, a)}
           ELSE UNCHANGED <<posts, shadow, modLog>>
    /\ End(r)
    /\ UNCHANGED <<insert, outran, accountVars, boardVars, acts, abuseVars>>

\* Mutant of BeginInsert: the trigger does not look for a shadow ban
BeginInsertUnseen(p) ==
    /\ "insert" \in bound.ops
    /\ posts[p] = "absent" /\ insert[p] = Idle /\ BoardOf[p] \in boards
    /\ insert' = [insert EXCEPT ![p] = [at |-> "begun", doomed |-> FALSE,
                                        banned |-> BoardOf[p] \in shadow]]
    /\ UNCHANGED <<posts, outran, accountVars, boardVars, logVars, request, acts, abuseVars>>

\* A post is inserted: before_posts_insert looks for a shadow ban of the IP, ...
BeginInsert(p) ==
    /\ "insert" \in bound.ops
    /\ posts[p] = "absent" /\ insert[p] = Idle /\ BoardOf[p] \in boards
    /\ LET banned == BoardOf[p] \in shadow
       IN  insert' = [insert EXCEPT ![p] = [at |-> "begun", doomed |-> banned,
                                            banned |-> banned]]
    /\ UNCHANGED <<posts, outran, accountVars, boardVars, logVars, request, acts, abuseVars>>

\* ... and the post is there when the transaction ends
CommitInsert(p) ==
    /\ insert[p].at = "begun"
    /\ insert' = [insert EXCEPT ![p] = Idle]
    /\ IF BoardOf[p] \in boards
       THEN /\ posts' = [posts EXCEPT ![p] = IF insert[p].doomed THEN "deleted" ELSE "shown"]
            /\ outran' = IF insert[p].banned THEN outran \ {p} ELSE outran \cup {p}
       ELSE UNCHANGED <<posts, outran>>
    /\ UNCHANGED <<accountVars, boardVars, logVars, request, acts, abuseVars>>

\* deleteOldThreads
DeleteOldThreads(p) ==
    /\ "deleteOldThreads" \in bound.ops
    /\ posts[p] # "absent"
    /\ posts' = [posts EXCEPT ![p] = "absent"]
    /\ UNCHANGED <<insert, outran, accountVars, boardVars, logVars, request, acts, abuseVars>>

\* A shadow ban expires: what came through while it stood is not looked at again
ExpireShadow(b) ==
    /\ b \in shadow
    /\ shadow' = shadow \ {b}
    /\ UNCHANGED <<modLog, accountVars, boardVars, postVars, request, acts, abuseVars>>

(***************************************************************************)
(* The specification.                                                      *)
(***************************************************************************)
\* The handlers, by their names in src/server
login(r) == \E a \in Account : Login(r, a)
register(r) == \E a \in Account : Register(r, a)
logoutAll(r) == \E a \in Account : AskAccount(r, a, "logoutAll")
changePassword(r) == \E a \in Account : AskAccount(r, a, "changePassword")
assignStaff(r) == \E a \in Account, b \in Boards : AskBoard(r, a, "assignStaff", b)
createBoard(r) == \E a \in Account, b \in Boards : AskBoard(r, a, "createBoard", b)
deleteBoard(r) == \E a \in Account, b \in Boards : AskBoard(r, a, "deleteBoard", b)

ModeratePosts(r, op) == \E a \in Account, ps \in SUBSET Post \ {{}} : AskPosts(r, a, op, ps)
deletePosts(r) == ModeratePosts(r, "deletePosts")
deleteImage(r) == ModeratePosts(r, "deleteImages")
modSpoilerImage(r) == ModeratePosts(r, "spoilerImages")

CanModeratePost(r, op, global) == \E a \in Account, p \in Post : AskPost(r, a, op, p, global)
deletePostsByIP(r) == CanModeratePost(r, "deletePostsByIP", FALSE)
getSameIPPosts(r) == CanModeratePost(r, "sameIPPosts", FALSE)
setThreadLock(r) == CanModeratePost(r, "setThreadLock", FALSE)
purgePost(r) == CanModeratePost(r, "purgePost", FALSE)
ban(r) == \E global \in BOOLEAN : CanModeratePost(r, "ban", global)
unban(r) == \E global \in BOOLEAN : CanModeratePost(r, "unban", global)

Handle(r) == \/ login(r) \/ register(r) \/ logoutAll(r) \/ changePassword(r)
             \/ assignStaff(r) \/ createBoard(r) \/ deleteBoard(r)
             \/ deletePosts(r) \/ deleteImage(r) \/ modSpoilerImage(r)
             \/ deletePostsByIP(r) \/ getSameIPPosts(r) \/ setThreadLock(r) \/ purgePost(r)
             \/ ban(r) \/ unban(r)

Act(r) == \/ CommitLogin(r) \/ LogOutAll(r) \/ ComparePassword(r) \/ ChangePassword(r)
          \/ DeleteStaff(r) \/ InsertStaff(r) \/ CreateBoard(r) \/ DeleteBoard(r)
          \/ GetIP(r) \/ WriteBan(r) \/ Unban(r)
          \/ GetSameIPPosts(r) \/ SetThreadLock(r) \/ PurgePost(r)
          \/ DeletePosts(r) \/ ModerateImages(r) \/ DeletePostsByIP(r)

PropagateNext == Propagate /\ UNCHANGED adminVars

Next == \/ PropagateNext
        \/ AbuseStep /\ UNCHANGED adminVars
        \/ \E r \in Request : Handle(r) \/ Act(r)
        \/ EndSession
        \/ \E b \in Board : DeleteUnusedBoards(b) \/ ExpireShadow(b)
        \/ \E p \in Post : BeginInsert(p) \/ CommitInsert(p) \/ DeleteOldThreads(p)

\* The goroutines that propagate bans run and the database answers them
Spec == Init /\ [][Next]_vars /\ WF_vars(PropagateNext)

(***************************************************************************)
(* Properties.                                                             *)
(***************************************************************************)
\* The type of the variables
TypeOK ==
    /\ boards \subseteq Board /\ shadow \subseteq Board
    /\ staff \subseteq [board : Boards, account : Account,
                        position : Janitor..BoardOwner, assignment : Nat]
    /\ posts \in [Post -> {"absent", "shown", "deleted"}]
    /\ sessions \subseteq [account : Account, password : Nat]
    /\ bans \subseteq [board : Boards, post : Post \cup {None}]

\* server/admin.go:565, "Ensure there always is at least one board owner", and a board
\* that is gone has left no staff
OwnersRemain ==
    /\ \A b \in boards \cup {All} :
          \E s \in staff : s.board = b /\ s.position = BoardOwner
    /\ \A s \in staff : s.board \in boards \cup {All}

\* accounts.go:188: who changes the password and logs out everywhere has shut out
\* all who knew the old one, but a login that had compared it before
ShutOut == \A s \in sessions : s.password >= expelled[s.account]

\* bans.go:83: a ban of a post that exists is in the log of its board
BansAreLogged ==
    \A x \in bans : x.post # None => \E e \in modLog : e.type = "ban" /\ e.board = x.board /\ e.post = x.post

\* delete_posts_by_ip.sql, "Keep deleting posts till this expires": while the
\* shadow ban stands no post of the IP is shown on the board, but one whose
\* transaction had begun before
ShadowHides ==
    \A p \in Post \ outran : posts[p] = "shown" => BoardOf[p] \notin shadow

\* What holds of rights, and of moderated posts
RightsHold == TypeOK /\ OwnersRemain /\ ShutOut
ModerationHolds == BansAreLogged /\ ShadowHides

\* db/admin.go:125, "WriteStaff writes staff positions of a specific board. Old rows
\* are overwritten": the staff of a board is that of one assignment
StaffOverwritten ==
    \A s, t \in staff : s.board = t.board => s.assignment = t.assignment

\* bans.go:106, "Unban lifts a ban from a specific post on a specific board"
UnbanLifts ==
    [][\A r \in Request :
          In(r, "allowed", "unban") /\ request'[r] = Idle =>
              Row(request[r].board, request[r].post) \notin bans']_vars
=============================================================================

------------------------------ MODULE Startup ------------------------------
(***************************************************************************)
(* Server processes that start on one Postgres database (src/db/init.go,   *)
(* loadDB and initDB) and bring it to the version of their build           *)
(* (src/db/migrations.go, runMigrations).  Instances in different imager   *)
(* modes share a database, so several may start at once; any of them may   *)
(* be killed between two steps.  A transaction takes the lock of the       *)
(* version row, runs one migration and writes the next version; a kill     *)
(* rolls it back.  The database may be empty or left by an older build.    *)
(***************************************************************************)
EXTENDS Migrations

CONSTANTS Proc,         \* server processes
          Setups,       \* [build: migrations a process's build has,
                        \*  imager: the processes that only handle images]
          NoRow,        \* "no version row"
          Nobody,       \* "no process"
          MaxKills      \* bound: kills and restarts after a failure

ASSUME StartupAssumption ==
    /\ Setups \subseteq [build : [Proc -> 1..Len(Migrations)], imager : SUBSET Proc]
    /\ Nobody \notin Proc
    /\ NoRow \notin Nat
    /\ MaxKills \in Nat

VARIABLES
    setup,      \* the processes' builds and modes
    database,   \* [exists: is there a table main, version, schema]
    applied,    \* history: the migrations committed, in order
    pc,         \* what each process does next
    failure,    \* why its last start failed
    lock,       \* the process that holds the version row
    bolt,       \* the process that has db.db open
    kills

startupVars == <<setup, database, applied, pc, failure, lock, bolt, kills>>

(***************************************************************************)
(* Databases.                                                              *)
(***************************************************************************)
NoRows == [accounts |-> {}, boards |-> {}, staff |-> {}, threads |-> {},
           legacy |-> <<>>, links |-> {}, pyu |-> {}, roulette |-> {}]

Blank == [ok |-> TRUE, cols |-> [t \in {"main"} |-> <<"id", "val">>], refs |-> {},
          idx |-> {}, routines |-> {}, triggers |-> {}, objects |-> {},
          main |-> {"version", "pyu"}, rows |-> NoRows]

Empty == [exists |-> FALSE, version |-> NoRow, schema |-> Blank]

\* What the users of a served database add: a board with a thread of three
\* posts that link to each other and to a post of no thread, and its staff.
\* The triggers of the tables, where they are registered, add the rows of #pyu
\* and #roulette.
UserRows(db) ==
    [db.rows EXCEPT
        !.accounts = @ \cup {"mod"},
        !.boards = @ \cup {"a"},
        !.staff = @ \cup {<<"a", "mod", IF "links" \in ToSet(db.cols["posts"])
                                        THEN title ELSE "Moderator">> : title \in {"moderators", "helper"}},
        !.threads = {1},
        !.legacy = IF "links" \in ToSet(db.cols["posts"])
                   THEN <<<<>>, <<1>>, <<9, 2, 1>>>> ELSE <<>>,
        !.pyu = IF <<"after_boards_insert", "boards">> \in db.triggers THEN @ \cup {"a"} ELSE @,
        !.roulette = IF <<"after_threads_insert", "threads">> \in db.triggers
                     THEN {1} ELSE @]

\* What migration 31 repairs: an init.sql of the time had put locked in posts
Misplaced(db) ==
    [db EXCEPT !.cols["threads"] = SelectSeq(@, LAMBDA c : c # "locked"),
               !.cols["posts"] = Append(@, "locked")]

(***************************************************************************)
(* What the queries of this build need.                                    *)
(***************************************************************************)
\* reader.go reads i.* by position: the order of the columns is part of it
ImageColumns == <<"audio", "video", "file_type", "thumb_type", "dims", "length",
                  "size", "md5", "sha1", "title", "artist">>

ReaderUses == {
    <<"posts", <<"editing", "moderated", "spoiler", "sage", "id", "time", "body", "flag",
                 "name", "trip", "auth", "commands", "imagename", "op", "sha1", "board">>>>,
    <<"links", <<"source", "target">>>>,
    <<"threads", <<"id", "sticky", "board", "update_time", "bump_time", "subject",
                   "locked">>>>}
PostUses == {<<"posts", <<"editing", "board", "op", "body", "flag", "name", "trip", "auth",
                          "sage", "password", "ip", "id">>>>}
ModerationUses == {<<"post_moderation", <<"post_id", "type", "length", "by", "data">>>>}
BoardUses == {<<"boards", <<"readonly", "textonly", "forcedanon", "disablerobots", "flags",
                            "nsfw", "rbtext", "pyu", "id", "defaultcss", "title", "notice",
                            "rules", "eightball", "created">>>>}
AccountUses == {<<"accounts", <<"id", "password">>>>,
                <<"sessions", <<"account", "token", "expires">>>>,
                <<"staff", <<"account", "board", "position">>>>}
BanUses == {<<"bans", <<"ip", "board", "forpost", "reason", "by", "expires", "type">>>>}
CaptchaUses == {<<"last_solved_captchas", <<"ip", "time">>>>,
                <<"failed_captchas", <<"ip", "expires">>>>}
SpamUses == {<<"spam_scores", <<"ip", "score">>>>}
CommandUses == {<<"pyu", <<"id", "pcount">>>>,
                <<"pyu_limit", <<"ip", "board", "restricted", "pcount">>>>,
                <<"roulette", <<"id", "scount", "rcount">>>>}
TokenUses == {<<"image_tokens", <<"token", "sha1", "expires">>>>}
LogUses == {<<"mod_log", <<"type", "board", "post_id", "by", "length", "data", "created",
                           "id">>>>}
ReportUses == {<<"reports", <<"id", "target", "board", "reason", "by", "illegal",
                              "created">>>>}
AssetUses == {<<t, <<"board", "data", "mime">>>> : t \in {"banners", "loading_animations"}}
WalletUses == {<<"engagement", <<"address", "posts", "logins", "threads", "seendate",
                                 "boards">>>>, <<"wallet_ips", <<"address", "ips">>>>}

Uses == ReaderUses \cup PostUses \cup ModerationUses \cup BoardUses \cup AccountUses
        \cup BanUses \cup CaptchaUses \cup SpamUses \cup CommandUses \cup TokenUses
        \cup LogUses \cup ReportUses \cup AssetUses \cup WalletUses

\* Functions the code calls, and those they and the triggers call
CalledRoutines == {"delete_images", "spoiler_images", "delete_posts_by_ip", "delete_posts",
                   "insert_image", "use_image_token", "bump_thread", "post_count",
                   "post_board", "is_deleted", "assert_can_perform"}

\* The tables with their triggers
Triggers == UNION {{<<f, t>> : f \in ToSet(TriggersOf[t])} : t \in DOMAIN TriggersOf}

\* The newest build has upgraded the database
Current == database.version = Len(Migrations)

(***************************************************************************)
(* The starts.                                                             *)
(***************************************************************************)
StartupInit ==
    /\ setup \in Setups
    /\ database = Empty
    /\ applied = <<>>
    /\ pc = [p \in Proc |-> "off"]
    /\ failure = [p \in Proc |-> "none"]
    /\ lock = Nobody
    /\ bolt = Nobody
    /\ kills = 0

Fail(p, why) == /\ pc' = [pc EXCEPT ![p] = "off"]
                /\ failure' = [failure EXCEPT ![p] = why]

Step(p, from, to) == pc[p] = from /\ pc' = [pc EXCEPT ![p] = to]

Launch(p) ==
    /\ failure[p] = "none"
    /\ Step(p, "off", "check")
    /\ UNCHANGED <<setup, database, applied, failure, lock, bolt, kills>>

\* loadDB: select exists (... table_name = 'main')
CheckMain(p) ==
    /\ Step(p, "check", IF database.exists THEN "migrate" ELSE "create")
    /\ UNCHANGED <<setup, database, applied, failure, lock, bolt, kills>>

\* initDB: the table and its first rows are two statements, in no transaction
CreateMain(p) ==
    /\ pc[p] = "create"
    /\ IF database.exists
       THEN Fail(p, "relation exists") /\ UNCHANGED database
       ELSE /\ database' = [database EXCEPT !.exists = TRUE]
            /\ Step(p, "create", "insert")
            /\ UNCHANGED failure
    /\ UNCHANGED <<setup, applied, lock, bolt, kills>>

InsertVersion(p) ==
    /\ Step(p, "insert", "migrate")
    /\ database' = [database EXCEPT !.version = 0]
    /\ UNCHANGED <<setup, applied, failure, lock, bolt, kills>>

\* Mutant of LockVersion: the version is read without a lock
LockVersionUnlocked(p) ==
    /\ pc[p] = "migrate"
    /\ IF database.version = setup.build[p] THEN Step(p, "migrate", "load")
       ELSE Step(p, "migrate", "locked")
    /\ UNCHANGED <<setup, database, applied, failure, lock, bolt, kills>>

\* Mutant of LockVersion: every other version is taken for a newer one
LockVersionStrict(p) ==
    /\ pc[p] = "migrate"
    /\ lock = Nobody
    /\ database.version # NoRow
    /\ IF database.version = setup.build[p] THEN Step(p, "migrate", "load") /\ UNCHANGED failure
       ELSE Fail(p, "database ahead")
    /\ UNCHANGED <<setup, database, applied, lock, bolt, kills>>

\* runMigrations: select val ... for update waits for the row, then compares
LockVersion(p) ==
    /\ pc[p] = "migrate"
    /\ lock = Nobody
    /\ CASE database.version = NoRow -> Fail(p, "no rows") /\ UNCHANGED lock
         [] database.version = setup.build[p] ->
              Step(p, "migrate", "load") /\ UNCHANGED <<failure, lock>>
         [] OTHER ->
              IF database.version > setup.build[p]
              THEN Fail(p, "database ahead") /\ UNCHANGED lock
              ELSE Step(p, "migrate", "locked") /\ lock' = p /\ UNCHANGED failure
    /\ UNCHANGED <<setup, database, applied, bolt, kills>>

\* Mutant of RunMigration: the transaction is left open
RunMigrationOpen(p) ==
    /\ pc[p] = "locked"
    /\ \E db \in {Migrate(database.schema, Statements(database.schema, database.version + 1))} :
           database' = [database EXCEPT !.version = @ + 1, !.schema = db]
    /\ applied' = Append(applied, database.version + 1)
    /\ Step(p, "locked", "migrate")
    /\ UNCHANGED <<setup, failure, lock, bolt, kills>>

\* The migration and the new version, committed together or not at all
RunMigration(p) ==
    /\ pc[p] = "locked"
    /\ LET v == database.version + 1 IN
       \E db \in {Migrate(database.schema, Statements(database.schema, v))} :
           IF db.ok
           THEN /\ database' = [database EXCEPT !.version = v, !.schema = db]
                /\ applied' = Append(applied, v)
                /\ Step(p, "locked", "migrate")
                /\ UNCHANGED failure
           ELSE Fail(p, "statement refused") /\ UNCHANGED <<database, applied>>
    /\ lock' = Nobody
    /\ UNCHANGED <<setup, bolt, kills>>

\* The loaders; openBoltDB needs the file lock unless the process only
\* handles images
LoadAll(p) ==
    /\ pc[p] = "load"
    /\ IF p \in setup.imager
       THEN Step(p, "load", "serve") /\ UNCHANGED <<failure, bolt>>
       ELSE IF bolt # Nobody
            THEN Fail(p, "bolt timeout") /\ UNCHANGED bolt
            ELSE Step(p, "load", "serve") /\ bolt' = p /\ UNCHANGED failure
    /\ UNCHANGED <<setup, database, applied, lock, kills>>

Released(holder, p) == IF holder = p THEN Nobody ELSE holder

\* The process is killed, or an operator starts it again after a failure
Kill(p) ==
    /\ kills < MaxKills
    /\ pc[p] # "off" \/ failure[p] # "none"
    /\ pc' = [pc EXCEPT ![p] = "off"]
    /\ failure' = [failure EXCEPT ![p] = "none"]
    /\ lock' = Released(lock, p)
    /\ bolt' = Released(bolt, p)
    /\ kills' = kills + 1
    /\ UNCHANGED <<setup, database, applied>>

\* Users of a build that serves the database fill it: an old one, from before
\* #pyu and #roulette had rows, or the current one
Populate(p) ==
    /\ pc[p] = "serve"
    /\ database.version = setup.build[p]
    /\ database.version < 51 \/ Current
    /\ "a" \notin database.schema.rows.boards
    /\ database' = [database EXCEPT !.schema.rows = UserRows(database.schema)]
    /\ UNCHANGED <<setup, applied, pc, failure, lock, bolt, kills>>

\* The database a build of 29 or 30 migrations serves is one its init.sql made
FromInitSql(p) ==
    /\ pc[p] = "serve"
    /\ database.version = setup.build[p]
    /\ database.version \in {29, 30}
    /\ "locked" \in ToSet(database.schema.cols["threads"])
    /\ database' = [database EXCEPT !.schema = Misplaced(@)]
    /\ UNCHANGED <<setup, applied, pc, failure, lock, bolt, kills>>

Progress(p) == \/ Launch(p) \/ CheckMain(p) \/ CreateMain(p) \/ InsertVersion(p)
               \/ LockVersion(p) \/ RunMigration(p) \/ LoadAll(p)

StartupNext == \E p \in Proc : Progress(p) \/ Kill(p) \/ Populate(p) \/ FromInitSql(p)

StartupFairness == \A p \in Proc : WF_startupVars(Progress(p))

StartupSpec == StartupInit /\ [][StartupNext]_startupVars /\ StartupFairness

(***************************************************************************)
(* Properties.                                                             *)
(***************************************************************************)
Failures == {"none", "relation exists", "no rows", "database ahead",
             "statement refused", "bolt timeout"}

\* The type of the variables
StartupTypeOK ==
    /\ database.exists \in BOOLEAN
    /\ database.version \in {NoRow} \cup 0..Len(Migrations)
    /\ applied \in Seq(1..Len(Migrations))
    /\ pc \in [Proc -> {"off", "check", "create", "insert", "migrate", "locked",
                        "load", "serve"}]
    /\ failure \in [Proc -> Failures]
    /\ lock \in Proc \cup {Nobody}
    /\ bolt \in Proc \cup {Nobody}
    /\ kills \in 0..MaxKills

\* The committed migrations are those of the list, each once and in order, and
\* the version row counts them
MigratedInOrder ==
    /\ applied = [i \in 1..Len(applied) |-> i]
    /\ database.version # NoRow => database.version = Len(applied)

\* A migration finds everything its statements need, from every database an
\* older build can have left: no start fails because Postgres refuses one
NoStatementRefused == \A p \in Proc : failure[p] # "statement refused"

\* A start fails only because of another process: one that has created main or
\* has yet to insert the version row or was killed before it did, a newer build,
\* or one that has db.db open
FailureHasReason == [][\A p \in Proc : failure'[p] # failure[p] =>
    CASE failure'[p] = "relation exists" -> database.exists
      [] failure'[p] = "no rows" ->
           applied = <<>> /\ (kills > 0 \/ \E q \in Proc \ {p} : pc[q] = "insert")
      [] failure'[p] = "database ahead" ->
           \E q \in Proc \ {p} : setup.build[q] > setup.build[p]
      [] failure'[p] = "bolt timeout" ->
           \E q \in Proc \ {p} : pc[q] = "serve" /\ q \notin setup.imager
      [] OTHER -> failure'[p] = "none"]_startupVars

\* The schema has every column, routine and trigger the queries of this build
\* use, and the columns of images in the order reader.go scans i.* into
ServedSchema ==
    (\E p \in Proc : pc[p] = "serve") /\ Current =>
        /\ \A u \in Uses : Has(database.schema, u[1], u[2])
        /\ database.schema.cols["images"] = ImageColumns
        /\ CalledRoutines \subseteq database.schema.routines
        /\ Triggers \subseteq database.schema.triggers

\* The rows the code takes for granted: DecrementRoulette and GetPcount fail on
\* a thread or board without its row, the system account signs automatic bans,
\* and assert_can_perform asks for a level on "all"
ServedRows ==
    (\E p \in Proc : pc[p] = "serve") /\ Current =>
        LET rows == database.schema.rows
        IN  /\ rows.pyu = rows.boards
            /\ rows.roulette = rows.threads
            /\ {"admin", "system"} \subseteq rows.accounts
            /\ \A a \in {"admin", "system"} : <<"all", a, "BoardOwner">> \in rows.staff

\* A link between two posts that exist is kept when migration 41 moves it
LinksKept ==
    database.version # NoRow /\ database.version >= 41 =>
        \A p \in DOMAIN database.schema.rows.legacy :
            \A i \in DOMAIN database.schema.rows.legacy[p] :
                LET t == database.schema.rows.legacy[p][i]
                IN  t \in DOMAIN database.schema.rows.legacy
                      => <<p, t>> \in database.schema.rows.links

\* A start that gets to the migrations upgrades the database at least to its
\* build, or fails, or is killed; and every start ends in serving or stops
Upgraded ==
    /\ \A p \in Proc : (database.version # NoRow /\ pc[p] = "migrate") ~>
            (pc[p] = "off" \/ (database.version # NoRow /\ database.version >= setup.build[p]))
    /\ \A p \in Proc : (pc[p] = "check") ~> (pc[p] \in {"serve", "off"})
=============================================================================

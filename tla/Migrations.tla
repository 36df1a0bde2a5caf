----------------------------- MODULE Migrations -----------------------------
(***************************************************************************)
(* The schema of the Postgres database and the list of migrations of       *)
(* src/db/migrations.go that builds it: what every statement of every      *)
(* migration needs and changes.  A schema is what the statements tell      *)
(* apart: tables with their columns, references, indexes, routines,        *)
(* triggers, other named objects (a sequence, a type), the keys of the     *)
(* key-value table main, and the rows the migrations read and write.       *)
(* Names are in lower case, as Postgres folds them.  Column types,         *)
(* defaults and the rows of other tables are left out.                     *)
(***************************************************************************)
EXTENDS Naturals, Sequences, SequencesExt, FiniteSets

(***************************************************************************)
(* The statements.                                                         *)
(***************************************************************************)
Create(t, cols, refs) == [do |-> "create", table |-> t, cols |-> cols, refs |-> refs]
DropTable(t) == [do |-> "drop table", table |-> t]
Add(t, cols) == [do |-> "add", table |-> t, cols |-> cols]
Drop(t, cols) == [do |-> "drop", table |-> t, cols |-> cols]
Retype(t, cols) == [do |-> "retype", table |-> t, cols |-> cols]
Rename(t, a, b) == [do |-> "rename", table |-> t, cols |-> <<a>>, to |-> b]
Refer(t, c, u) == [do |-> "refer", table |-> t, cols |-> <<c>>, to |-> u]
Index(i, t, cols) == [do |-> "index", name |-> i, table |-> t, cols |-> cols]
DropIndex(i) == [do |-> "drop index", name |-> i]
Object(o) == [do |-> "object", name |-> o]
Load(f) == [do |-> "load", name |-> f]
Forget(f) == [do |-> "forget", name |-> f]
Attach(f, t) == [do |-> "attach", name |-> f, table |-> t]
Put(k) == [do |-> "put", name |-> k]
Erase(k) == [do |-> "remove", name |-> k]
Patch == [do |-> "patch"]
Rows(what) == [do |-> "rows", name |-> what]

\* The same statement for each name of a list
ForEach(Op(_), names) == [i \in DOMAIN names |-> Op(names[i])]

\* SQL files that say "create function", not "create or replace function"
CreatedOnce == {"post_count", "post_op", "use_image_token", "insert_image",
                "post_board", "assert_can_perform"}

(***************************************************************************)
(* What Postgres demands of a statement.                                   *)
(***************************************************************************)
Has(db, t, cols) == t \in DOMAIN db.cols /\ ToSet(cols) \subseteq ToSet(db.cols[t])

\* Titles of staff before migration 82, and the levels it ports them to
ModLevels == [janitors |-> "Janitor", moderators |-> "Moderator", owners |-> "BoardOwner",
              admin |-> "Admin"]

RowsLegal(db, what) ==
    CASE what = "insert accounts" -> db.rows.accounts \cap {"admin", "system"} = {}
      [] what = "port links" -> Has(db, "posts", <<"id", "op", "links">>)
      [] what = "remove commands" -> Has(db, "posts", <<"id", "commands">>)
      [] what = "insert all" ->
           /\ "all" \notin db.rows.boards
           /\ {"admin", "system"} \subseteq db.rows.accounts
           /\ Has(db, "staff", <<"board", "account", "position">>)
           /\ Has(db, "boards", <<"id", "readonly", "textonly", "forcedanon",
                    "disablerobots", "flags", "nsfw", "rbtext", "created",
                    "defaultcss", "title", "notice", "rules", "eightball">>)
      [] what = "insert pyu" -> Has(db, "pyu", <<"id", "pcount">>) /\ db.rows.pyu = {}
      [] what = "insert roulette" ->
           Has(db, "roulette", <<"id", "scount", "rcount">>) /\ db.rows.roulette = {}
      [] what = "count images" ->
           Has(db, "threads", <<"imagectr">>) /\ Has(db, "posts", <<"sha1", "op">>)
      [] what = "count bans" -> Has(db, "mod_log", <<"board", "by", "type">>)
      [] OTHER -> TRUE

Legal(db, s) ==
    CASE s.do = "create" -> s.table \notin DOMAIN db.cols
                            /\ \A r \in s.refs : r[2] \in DOMAIN db.cols
      [] s.do = "drop table" -> s.table \in DOMAIN db.cols
                            /\ \A r \in db.refs : r[3] = s.table => r[1] = s.table
      [] s.do = "add" -> s.table \in DOMAIN db.cols
                            /\ ToSet(s.cols) \cap ToSet(db.cols[s.table]) = {}
      [] s.do \in {"drop", "retype"} -> Has(db, s.table, s.cols)
      [] s.do = "rename" -> Has(db, s.table, s.cols) /\ s.to \notin ToSet(db.cols[s.table])
      [] s.do = "refer" -> Has(db, s.table, s.cols) /\ s.to \in DOMAIN db.cols
      [] s.do = "index" -> Has(db, s.table, s.cols)
                            /\ \A i \in db.idx : i[1] # s.name
      [] s.do = "drop index" -> \E i \in db.idx : i[1] = s.name
      [] s.do = "object" -> s.name \notin db.objects
      [] s.do = "load" -> s.name \in CreatedOnce => s.name \notin db.routines
      [] s.do = "attach" -> s.table \in DOMAIN db.cols /\ s.name \in db.routines
      [] s.do = "put" -> s.name \notin db.main
      [] s.do = "patch" -> "config" \in db.main
      [] s.do = "rows" -> RowsLegal(db, s.name)
      [] OTHER -> TRUE

(***************************************************************************)
(* What a statement does.                                                  *)
(***************************************************************************)
\* Migration 41: the last link of every post goes to the new table, if both
\* posts are there
PortLinks(rows) ==
    LET last(p) == rows.legacy[p][Len(rows.legacy[p])]
    IN  {<<p, last(p)>> : p \in {q \in DOMAIN rows.legacy :
             rows.legacy[q] # <<>> /\ last(q) \in DOMAIN rows.legacy}}

\* Migration 82: titles become levels, and a title it does not know the level 0
PortLevels(staff) ==
    {<<r[1], r[2], IF r[3] \in DOMAIN ModLevels THEN ModLevels[r[3]]
                    ELSE "NotStaff">> : r \in staff}

RowsEffect(rows, what) ==
    CASE what = "insert accounts" -> [rows EXCEPT !.accounts = @ \cup {"admin", "system"}]
      [] what = "replace system" ->
           [rows EXCEPT !.accounts = @ \cup {"system"},
                        !.staff = {r \in @ : r[2] # "system"}]
      [] what = "port links" -> [rows EXCEPT !.links = PortLinks(rows)]
      [] what = "insert all" ->
           [rows EXCEPT !.boards = @ \cup {"all"},
                        !.staff = {r \in @ : r[1] # "all"} \cup
                                  {<<"all", a, "owners">> : a \in {"admin", "system"}}]
      [] what = "insert pyu" -> [rows EXCEPT !.pyu = rows.boards]
      [] what = "insert roulette" -> [rows EXCEPT !.roulette = rows.threads]
      [] what = "port levels" -> [rows EXCEPT !.staff = PortLevels(@)]
      [] OTHER -> rows

Without(f, x) == [y \in DOMAIN f \ {x} |-> f[y]]

Renamed(q, a, b) == [i \in DOMAIN q |-> IF q[i] = a THEN b ELSE q[i]]

Effect(db, s) ==
    CASE s.do = "create" ->
           [db EXCEPT !.cols = [t \in DOMAIN @ \cup {s.table} |->
                                  IF t = s.table THEN s.cols ELSE @[t]],
                      !.refs = @ \cup {<<s.table, r[1], r[2]>> : r \in s.refs}]
      [] s.do = "drop table" ->
           [db EXCEPT !.cols = Without(@, s.table),
                      !.refs = {r \in @ : r[1] # s.table},
                      !.idx = {i \in @ : i[2] # s.table},
                      !.triggers = {g \in @ : g[2] # s.table}]
      [] s.do = "add" -> [db EXCEPT !.cols[s.table] = @ \o s.cols]
      [] s.do = "drop" ->
           LET gone == ToSet(s.cols)
           IN  [db EXCEPT !.cols[s.table] = SelectSeq(@, LAMBDA c : c \notin gone),
                          !.refs = {r \in @ : r[1] # s.table \/ r[2] \notin gone},
                          !.idx = {i \in @ : i[2] # s.table \/ ToSet(i[3]) \cap gone = {}}]
      [] s.do = "rename" ->
           LET a == s.cols[1]
           IN  [db EXCEPT !.cols[s.table] = Renamed(@, a, s.to),
                          !.refs = {<<r[1], IF r[1] = s.table /\ r[2] = a
                                            THEN s.to ELSE r[2], r[3]>> : r \in @},
                          !.idx = {<<i[1], i[2], IF i[2] = s.table
                                     THEN Renamed(i[3], a, s.to) ELSE i[3]>> : i \in @}]
      [] s.do = "refer" ->
           [db EXCEPT !.refs = @ \cup {<<s.table, s.cols[1], s.to>>}]
      [] s.do = "index" -> [db EXCEPT !.idx = @ \cup {<<s.name, s.table, s.cols>>}]
      [] s.do = "drop index" -> [db EXCEPT !.idx = {i \in @ : i[1] # s.name}]
      [] s.do = "object" -> [db EXCEPT !.objects = @ \cup {s.name}]
      [] s.do = "load" -> [db EXCEPT !.routines = @ \cup {s.name}]
      [] s.do = "forget" -> [db EXCEPT !.routines = @ \ {s.name},
                                       !.triggers = {g \in @ : g[1] # s.name}]
      [] s.do = "attach" -> [db EXCEPT !.triggers = @ \cup {<<s.name, s.table>>}]
      [] s.do = "put" -> [db EXCEPT !.main = @ \cup {s.name}]
      [] s.do = "remove" -> [db EXCEPT !.main = @ \ {s.name}]
      [] s.do = "rows" -> [db EXCEPT !.rows = RowsEffect(@, s.name)]
      [] OTHER -> db

\* A statement that Postgres refuses aborts the transaction: nothing after it
\* can succeed, whether or not the code looks at the error
Exec(db, s) ==
    IF db.ok /\ Legal(db, s) THEN Effect(db, s) ELSE [db EXCEPT !.ok = FALSE]

\* The same, for TLC to evaluate the schema before it only once
Strictly(db, s) == CHOOSE after \in {Exec(before, s) : before \in {db}} : TRUE

Migrate(db, statements) == FoldLeft(Strictly, db, statements)

(***************************************************************************)
(* The migrations, in the order of the list.                               *)
(***************************************************************************)
AddIndex(i, t, c) == Index(i, t, <<c>>)

\* Migration 1: the first schema
Genesis == <<<<
    Create("accounts", <<"id", "password">>, {}),
    Create("sessions", <<"account", "token", "expires">>, {<<"account", "accounts">>}),
    Create("bans", <<"board", "ip", "by", "reason", "expires">>, {}),
    Index("bans_pkey", "bans", <<"ip", "board">>),
    Create("images", <<"apng", "audio", "video", "filetype", "thumbtype", "dims",
                       "length", "size", "md5", "sha1">>, {}),
    Create("image_tokens", <<"token", "sha1", "expires">>, {<<"sha1", "images">>}),
    Create("boards", <<"readonly", "textonly", "forcedanon", "hashcommands",
                       "codetags", "id", "ctr", "created", "title", "notice",
                       "rules", "eightball">>, {}),
    Create("staff", <<"board", "account", "position">>,
           {<<"board", "boards">>, <<"account", "accounts">>}),
    AddIndex("staff_board", "staff", "board"),
    AddIndex("staff_account", "staff", "account"),
    Object("post_id"),
    Create("threads", <<"locked", "board", "id", "postctr", "imagectr", "bumptime",
                        "replytime", "subject", "log">>, {<<"board", "boards">>}),
    AddIndex("threads_board", "threads", "board"),
    AddIndex("bumptime", "threads", "bumptime"),
    Create("posts", <<"editing", "spoiler", "deleted", "banned", "id", "op", "time",
                      "board", "trip", "auth", "sha1", "name", "imagename", "body",
                      "password", "ip", "links", "backlinks", "commands">>,
           {<<"op", "threads">>, <<"sha1", "images">>}),
    AddIndex("deleted", "posts", "deleted"),
    AddIndex("op", "posts", "op"),
    AddIndex("image", "posts", "sha1"),
    AddIndex("editing", "posts", "editing"),
    AddIndex("ip", "posts", "ip"),
    Create("engagement", <<"address", "posts", "logins", "threads", "seendate",
                           "boards">>, {}),
    Create("wallet_ips", <<"address", "ips">>, {}),
    Put("config"),
    Rows("insert accounts")>>>>

\* Migrations 2 to 16
Era2 == <<
    <<Drop("threads", <<"locked">>), Drop("boards", <<"hashcommands", "codetags">>)>>,
    <<Drop("threads", <<"log">>)>>,
    <<Drop("boards", <<"ctr">>)>>,
    <<Rows("count images")>>,
    <<Add("images", <<"title", "artist">>)>>,
    <<Add("posts", <<"sage">>)>>,
    <<DropIndex("deleted")>>,
    <<Patch>>,
    <<Add("boards", <<"disablerobots">>)>>,
    <<Add("threads", <<"sticky">>)>>,
    <<Add("bans", <<"forpost">>)>>,
    <<Create("mod_log", <<"type", "board", "id", "by", "created">>, {}),
      AddIndex("mod_log_board", "mod_log", "board"),
      AddIndex("mod_log_created", "mod_log", "created")>>,
    <<AddIndex("sticky", "threads", "sticky")>>,
    <<Drop("posts", <<"backlinks">>)>>,
    <<Create("banners", <<"board", "id", "data", "mime">>, {<<"board", "boards">>})>> >>

\* Migrations 17 to 30
Era17 == <<
    <<Retype("boards", <<"id">>)>> \o
      ForEach(LAMBDA t : Retype(t, <<"board">>),
              <<"bans", "mod_log", "staff", "banners", "threads", "posts">>),
    <<Create("loading_animations", <<"board", "data", "mime">>, {<<"board", "boards">>})>>,
    <<Add("boards", <<"defaultcss">>)>>,
    <<Add("posts", <<"flag">>)>>,
    <<Add("boards", <<"flags">>)>>,
    <<Retype("images", <<"title">>)>>,
    <<Add("boards", <<"nsfw">>)>>,
    <<Create("reports", <<"id", "target", "board", "reason", "by", "illegal",
                          "created">>, {}),
      AddIndex("report_board", "reports", "board"),
      AddIndex("report_created", "reports", "created")>>,
    <<Add("boards", <<"nonlive">>)>>,
    <<Add("threads", <<"nonlive">>)>>,
    <<Add("boards", <<"posterids">>)>>,
    <<Add("posts", <<"posterid">>)>>,
    <<Add("threads", <<"locked">>)>>,
    <<Add("boards", <<"js">>)>> >>

\* Migrations 31 to 40; 31 has its statements only in a database with posts.locked
Repair == <<Drop("posts", <<"locked">>), Add("threads", <<"locked">>)>>
Era31 == <<
    Repair,
    <<Drop("boards", <<"js">>)>>,
    <<DropIndex("editing"), Drop("boards", <<"nonlive">>), Drop("posts", <<"editing">>)>>,
    <<Drop("posts", <<"password">>)>>,
    <<Add("boards", <<"nonlive">>), Add("posts", <<"editing">>),
      AddIndex("editing", "posts", "editing")>>,
    <<Add("posts", <<"password">>)>>,
    <<Put("roulette")>>,
    <<Rows("replace system")>>,
    <<Patch>>,
    <<Rows("count bans"), Put("rcount")>> >>

\* Migration 41: links get a table of their own
Links41 == <<<<
    Create("links", <<"source", "target">>, {<<"source", "posts">>, <<"target", "posts">>}),
    AddIndex("link_source", "links", "source"),
    AddIndex("link_target", "links", "target"),
    Rows("port links"),
    Drop("posts", <<"links">>)>>>>

\* The tables of #pyu, which migrations 51 and 57 both create
PyuTables == <<
    Create("pyu", <<"id", "pcount">>, {<<"id", "boards">>}),
    Create("pyu_limit", <<"ip", "board", "expires", "pcount">>, {<<"board", "boards">>}),
    AddIndex("pyu_limit_ip", "pyu_limit", "ip"),
    AddIndex("pyu_limit_board", "pyu_limit", "board")>>

\* Migrations 42 to 50
Era42 == <<
    <<Drop("banners", <<"id">>)>>,
    <<Refer("mod_log", "board", "boards"), Refer("bans", "board", "boards")>>,
    <<Drop("threads", <<"postctr">>), Drop("threads", <<"imagectr">>)>>,
    <<Add("mod_log", <<"length">>), Add("mod_log", <<"reason">>)>>,
    <<AddIndex("image_filetype", "images", "filetype"),
      AddIndex("image_audio", "images", "audio"),
      AddIndex("post_board", "posts", "board")>>,
    <<Add("boards", <<"rbtext">>)>>,
    <<Rows("remove commands")>>,
    <<Erase("pyu")>>,
    <<Add("boards", <<"pyu">>)>> >>

\* Migrations 51 to 57
Era51 == <<
    PyuTables,
    <<>>,
    <<Drop("boards", <<"pyu">>), DropTable("pyu"), DropTable("pyu_limit")>>,
    <<Patch>>,
    <<Rows("insert all")>>,
    <<Add("boards", <<"pyu">>)>>,
    PyuTables>>

\* Migrations 58 to 67
Era58 == <<
    <<Rows("insert pyu")>>,
    <<Drop("pyu_limit", <<"expires">>), Add("pyu_limit", <<"restricted">>)>>,
    <<Create("captchas", <<"id", "solution", "expires">>, {}),
      Create("failed_captchas", <<"ip", "expires">>, {})>>,
    <<AddIndex("failed_captchas_ip", "failed_captchas", "ip")>>,
    <<AddIndex("image_tokens_expires_idx", "image_tokens", "expires"),
      AddIndex("bans_expires_idx", "bans", "expires"),
      AddIndex("captchas_expires_idx", "captchas", "expires"),
      AddIndex("failed_captchas_expires_idx", "failed_captchas", "expires"),
      AddIndex("posts_time_idx", "posts", "time")>>,
    <<Put("geo_md5")>>,
    <<Erase("roulette"), Erase("rcount")>>,
    <<Create("roulette", <<"id", "scount", "rcount">>, {<<"id", "threads">>}),
      AddIndex("roulette_rcount", "roulette", "rcount")>>,
    <<Rows("insert roulette")>>,
    <<Create("spam_scores", <<"ip", "score">>, {})>> >>

\* Migrations 68 to 79
Era68 == <<
    <<Drop("boards", <<"nonlive">>), Drop("threads", <<"nonlive">>)>>,
    <<Add("posts", <<"meidovision">>)>>,
    ForEach(LAMBDA c : Drop("posts", <<c>>), <<"deleted", "banned", "meidovision">>) \o
    <<Add("posts", <<"moderated">>),
      Create("post_moderation", <<"post_id", "type", "by", "length", "reason">>,
             {<<"post_id", "posts">>}),
      AddIndex("post_moderation_post_id_idx", "post_moderation", "post_id")>>,
    ForEach(LAMBDA c : Retype("posts", <<c>>),
            <<"spoiler", "sage", "name", "trip", "auth", "imagename", "flag", "posterid">>),
    ForEach(LAMBDA t : Rename(t, "reason", "data"), <<"mod_log", "post_moderation">>),
    <<DropIndex("bans_pkey"), AddIndex("bans_ip_idx", "bans", "ip"),
      AddIndex("bans_board_idx", "bans", "board")>>,
    <<Patch, DropTable("captchas")>>,
    <<Create("last_solved_captchas", <<"ip", "time">>, {}),
      AddIndex("last_solved_captchas_time_idx", "last_solved_captchas", "time")>>,
    <<>>,
    <<>>,
    <<Drop("images", <<"apng">>)>>,
    ForEach(Forget, <<"notify_thread_post_count", "notify_thread_deleted">>) \o
    ForEach(Load, <<"post_count", "post_op", "bump_thread", "use_image_token",
                    "insert_image">>) \o
    <<Rename("mod_log", "id", "post_id"), Add("mod_log", <<"id">>)>> >>

\* Migrations 80 and 81
Era80 == <<
    <<Retype("posts", <<"id", "time">>), Drop("posts", <<"posterid">>),
      Retype("threads", <<"id", "replytime", "bumptime">>), Drop("boards", <<"posterids">>)>>,
    <<Rename("images", "filetype", "file_type"), Rename("images", "thumbtype", "thumb_type")>> >>

\* Migration 82: a title becomes a level, in a column of the same name
NewColumn(t, c) == <<Drop(t, <<c>>), Add(t, <<c>>)>>
\* Mutant of Levels82: the titles are not ported
Levels82Unported == <<NewColumn("posts", "auth") \o NewColumn("staff", "position")>>

Levels82 == <<NewColumn("posts", "auth") \o NewColumn("staff", "position")
              \o <<Rows("port levels")>> >>

\* The trigger functions that loading triggers/<table>.sql defines
TriggersOf == [boards |-> <<"after_boards_insert", "after_boards_update", "after_boards_delete">>,
               mod_log |-> <<"after_mod_log_insert">>,
               posts |-> <<"before_posts_insert", "after_posts_update">>,
               threads |-> <<"after_threads_insert", "after_threads_update",
                             "after_threads_delete">>]
LoadTriggers(t) == ForEach(Load, TriggersOf[t])
Register(t) == LoadTriggers(t) \o ForEach(LAMBDA f : Attach(f, t), TriggersOf[t])

\* Migrations 83 to 93
Era83 == <<
    LoadTriggers("boards"),
    <<AddIndex("post_moderation_type_idx", "post_moderation", "type")>> \o
      ForEach(Load, <<"delete_posts_by_ip", "assert_can_perform">>),
    ForEach(Load, <<"is_deleted", "delete_posts_by_ip">>),
    <<Create("continuous_deletions", <<"ip", "board", "by", "till">>, {}),
      Index("continuous_deletions_ip_board_idx", "continuous_deletions", <<"ip", "board">>),
      AddIndex("continuous_deletions_till_idx", "continuous_deletions", "till"),
      Load("post_board"), Load("delete_posts_by_ip"),
      Retype("post_moderation", <<"post_id", "length", "data">>)>>,
    <<Load("delete_posts_by_ip")>>,
    <<>>,
    <<DropTable("continuous_deletions"), Object("ban_type"), Add("bans", <<"type">>),
      AddIndex("bans_type_idx", "bans", "type"), Load("delete_posts_by_ip")>> \o
      LoadTriggers("mod_log") \o LoadTriggers("posts"),
    <<Forget("delete_post")>> \o
      ForEach(Load, <<"delete_posts", "delete_images", "spoiler_images">>),
    <<Load("delete_posts_by_ip")>>,
    <<Load("delete_images"), Load("spoiler_images")>>,
    <<Forget("bump_thread"), Load("bump_thread")>> >>

\* Migrations 94 to 98
Era94 == <<
    ForEach(Forget, <<"on_boards_insert", "on_boards_update", "on_boards_delete",
                      "on_mod_log_insert", "on_posts_insert", "on_posts_update",
                      "on_threads_insert", "on_threads_update", "on_threads_delete">>) \o
      Register("boards") \o Register("mod_log") \o Register("posts") \o Register("threads"),
    <<Retype("boards", <<"id", "defaultcss">>), Retype("banners", <<"board">>),
      Retype("bans", <<"board", "reason">>), Retype("loading_animations", <<"board">>),
      Retype("mod_log", <<"board">>), Retype("post_moderation", <<"by", "data">>),
      Retype("posts", <<"board", "trip", "name", "imagename", "flag">>),
      Retype("pyu", <<"id">>), Retype("pyu_limit", <<"board">>),
      Retype("reports", <<"board", "reason">>), Retype("staff", <<"board">>),
      Retype("threads", <<"board">>)>>,
    <<Rename("threads", "replytime", "update_time"),
      Rename("threads", "bumptime", "bump_time"), Load("bump_thread")>> \o
      LoadTriggers("threads"),
    <<Erase("geo_md5")>>,
    LoadTriggers("posts")>>

Migrations == Genesis \o Era2 \o Era17 \o Era31 \o Links41 \o Era42 \o Era51 \o Era58
              \o Era68 \o Era80 \o Levels82 \o Era83 \o Era94

\* Migration 31 looks for posts.locked and does nothing without it
Statements(db, v) ==
    IF Migrations[v] = Repair /\ "locked" \notin ToSet(db.cols["posts"])
    THEN <<>> ELSE Migrations[v]

=============================================================================

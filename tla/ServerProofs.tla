---------------------------- MODULE ServerProofs ----------------------------
(***************************************************************************)
(* Proofs about Server.  Of its start: for any processes, builds, modes    *)
(* and number of kills, and whatever the migrations do to the schema (of   *)
(* the list of migrations only its being a list is used).  Of the copies   *)
(* of rows: for any transactions and any number of writes and of           *)
(* connections lost.                                                       *)
(***************************************************************************)
EXTENDS Server, SequenceTheorems, TLAPS

-----------------------------------------------------------------------------
(* The list of migrations has a length.                                    *)

\* A function on the numbers from 1 to its length
IsList(s) == s = [i \in 1..Len(s) |-> s[i]] /\ Len(s) \in Nat

\* Such a function is a sequence of something.
LEMMA ListIsSeq ==
    ASSUME NEW s, IsList(s) PROVE \E S : s \in Seq(S)
<1> DEFINE S == {s[i] : i \in 1..Len(s)}
<1>1. s \in [1..Len(s) -> S]
  BY DEF IsList
<1> QED BY <1>1, SeqDef DEF IsList

\* The eras of the list of migrations can be strung together.
LEMMA ListsConcatenate ==
    ASSUME NEW s, NEW t, IsList(s), IsList(t) PROVE IsList(s \o t)
<1>1. PICK S : s \in Seq(S)
  BY ListIsSeq
<1>2. PICK T : t \in Seq(T)
  BY ListIsSeq
<1>3. s \in Seq(S \cup T) /\ t \in Seq(S \cup T)
  BY <1>1, <1>2, SeqMonotonic
<1>4. s \o t \in Seq(S \cup T)
  BY <1>3, ConcatProperties
<1> QED BY <1>4, LenProperties DEF IsList

\* Every era is a list, whatever its migrations are.
LEMMA MigrationsIsList == IsList(Migrations)
<1>1. IsList(Genesis) BY DEF Genesis, IsList
<1>2. IsList(Era2) BY DEF Era2, IsList
<1>3. IsList(Era17) BY DEF Era17, IsList
<1>4. IsList(Era31) BY DEF Era31, IsList
<1>5. IsList(Links41) BY DEF Links41, IsList
<1>6. IsList(Era42) BY DEF Era42, IsList
<1>7. IsList(Era51) BY DEF Era51, IsList
<1>8. IsList(Era58) BY DEF Era58, IsList
<1>9. IsList(Era68) BY DEF Era68, IsList
<1>10. IsList(Era80) BY DEF Era80, IsList
<1>11. IsList(Levels82) BY DEF Levels82, IsList
<1>12. IsList(Era83) BY DEF Era83, IsList
<1>13. IsList(Era94) BY DEF Era94, IsList
<1> QED BY <1>1, <1>2, <1>3, <1>4, <1>5, <1>6, <1>7, <1>8, <1>9, <1>10, <1>11, <1>12,
           <1>13, ListsConcatenate DEF Migrations

\* The newest version is a number.
LEMMA NewestVersion == Len(Migrations) \in Nat
BY MigrationsIsList DEF IsList

-----------------------------------------------------------------------------
(* The inductive invariant.                                                *)

\* The database is a record, and the setup does not change
Shape == DOMAIN database = {"exists", "version", "schema"} /\ setup \in Setups

\* The version row is inserted once, by the process that has created main: any
\* other finds the table.  Without this a late insertion could set the version
\* back after migrations.
Inserted ==
    /\ database.version = NoRow => applied = <<>>
    /\ database.version # NoRow => database.exists
    /\ \A p \in Proc : pc[p] = "insert" => database.exists /\ database.version = NoRow
    /\ \A p, q \in Proc : pc[p] = "insert" /\ pc[q] = "insert" => p = q

\* The process in a migration's transaction holds the row and has more to run
Locked ==
    /\ \A p \in Proc : pc[p] = "locked" <=> lock = p
    /\ \A p \in Proc : pc[p] = "locked" =>
          database.version # NoRow /\ database.version < setup.build[p]

\* What every start keeps
StartInv == StartupTypeOK /\ Shape /\ MigratedInOrder /\ Inserted /\ Locked

\* An empty database, and nothing has started.
LEMMA StartInvInit == StartupInit => StartInv
BY StartupAssumption, NewestVersion, EmptySeq
   DEF StartupInit, Empty, StartInv, StartupTypeOK, Failures, Shape, MigratedInOrder,
       Inserted, Locked

\* A process starts.
LEMMA LaunchKeeps ==
    ASSUME StartInv, NEW p \in Proc, Launch(p) PROVE StartInv'
<1> USE StartupAssumption, NewestVersion
<1>1. StartupTypeOK'
  BY DEF StartInv, Launch, Step, StartupTypeOK
<1>2. Shape'
  BY DEF StartInv, Launch, Shape
<1>3. MigratedInOrder'
  BY DEF StartInv, Launch, MigratedInOrder
<1>4. Inserted'
  BY DEF StartInv, Launch, Step, StartupTypeOK, Inserted
<1>5. Locked'
  BY DEF StartInv, Launch, Step, StartupTypeOK, Locked
<1> QED BY <1>1, <1>2, <1>3, <1>4, <1>5 DEF StartInv

\* It looks for the table main.
LEMMA CheckMainKeeps ==
    ASSUME StartInv, NEW p \in Proc, CheckMain(p) PROVE StartInv'
<1> USE StartupAssumption, NewestVersion
<1>1. StartupTypeOK'
  BY DEF StartInv, CheckMain, Step, StartupTypeOK
<1>2. Shape'
  BY DEF StartInv, CheckMain, Shape
<1>3. MigratedInOrder'
  BY DEF StartInv, CheckMain, MigratedInOrder
<1>4. Inserted'
  BY DEF StartInv, CheckMain, Step, StartupTypeOK, Inserted
<1>5. Locked'
  BY DEF StartInv, CheckMain, Step, StartupTypeOK, Locked
<1> QED BY <1>1, <1>2, <1>3, <1>4, <1>5 DEF StartInv

\* It creates main, which is not there, or fails.
LEMMA CreateMainKeeps ==
    ASSUME StartInv, NEW p \in Proc, CreateMain(p) PROVE StartInv'
<1> USE StartupAssumption, NewestVersion
<1>1. database'.version = database.version /\ DOMAIN database' = DOMAIN database
      /\ database'.exists = TRUE
  BY DEF StartInv, Shape, CreateMain, StartupTypeOK
<1>2. StartupTypeOK'
  BY <1>1 DEF StartInv, CreateMain, Step, Fail, StartupTypeOK, Failures
<1>3. Shape'
  BY <1>1 DEF StartInv, CreateMain, Shape
<1>4. MigratedInOrder'
  BY <1>1 DEF StartInv, CreateMain, MigratedInOrder
<1>5. Inserted'
  BY <1>1 DEF StartInv, CreateMain, Step, Fail, StartupTypeOK, Inserted
<1>6. Locked'
  BY <1>1 DEF StartInv, CreateMain, Step, Fail, StartupTypeOK, Locked
<1> QED BY <1>2, <1>3, <1>4, <1>5, <1>6 DEF StartInv

\* The only process to get here inserts version 0 after no migration.
LEMMA InsertVersionKeeps ==
    ASSUME StartInv, NEW p \in Proc, InsertVersion(p) PROVE StartInv'
<1> USE StartupAssumption, NewestVersion
<1>1. database'.version = 0 /\ DOMAIN database' = DOMAIN database
      /\ database'.exists = database.exists
  BY DEF StartInv, Shape, InsertVersion
<1>2. applied = <<>> /\ database.exists /\ database.version = NoRow
  BY DEF StartInv, InsertVersion, Step, Inserted
<1>3. StartupTypeOK'
  BY <1>1 DEF StartInv, InsertVersion, Step, StartupTypeOK
<1>4. Shape'
  BY <1>1 DEF StartInv, InsertVersion, Shape
<1>5. MigratedInOrder'
  BY <1>1, <1>2 DEF InsertVersion, MigratedInOrder
<1>6. Inserted'
  BY <1>1, <1>2 DEF StartInv, InsertVersion, Step, StartupTypeOK, Inserted
<1>7. Locked'
  BY <1>1, <1>2 DEF StartInv, InsertVersion, Step, StartupTypeOK, Locked
<1> QED BY <1>3, <1>4, <1>5, <1>6, <1>7 DEF StartInv

\* The row is locked only if there is a migration to run, or read and let go.
LEMMA LockVersionKeeps ==
    ASSUME StartInv, NEW p \in Proc, LockVersion(p) PROVE StartInv'
<1> USE StartupAssumption, NewestVersion
<1>1. lock = Nobody /\ pc[p] = "migrate" /\ UNCHANGED <<setup, database, applied, bolt, kills>>
  BY DEF LockVersion
<1>2. \A q \in Proc : pc[q] # "locked"
  BY <1>1 DEF StartInv, Locked
<1>3. setup.build[p] \in 1..Len(Migrations)
  BY DEF StartInv, Shape
<1>4. \/ /\ pc' = [pc EXCEPT ![p] = "off"] \/ pc' = [pc EXCEPT ![p] = "load"]
         /\ lock' = Nobody
         /\ failure' = failure \/ failure' = [failure EXCEPT ![p] = "no rows"]
                              \/ failure' = [failure EXCEPT ![p] = "database ahead"]
      \/ /\ pc' = [pc EXCEPT ![p] = "locked"]
         /\ lock' = p
         /\ failure' = failure
         /\ database.version # NoRow /\ database.version < setup.build[p]
  <2>1. CASE database.version = NoRow
    <3>1. database.version # setup.build[p]
      BY <1>3, <2>1
    <3>2. Fail(p, "no rows") /\ UNCHANGED lock
      BY <2>1, <3>1 DEF LockVersion
    <3> QED BY <1>1, <3>2 DEF Fail
  <2>2. CASE database.version # NoRow /\ database.version = setup.build[p]
    BY <1>1, <2>2 DEF LockVersion, Step
  <2>3. CASE database.version # NoRow /\ database.version # setup.build[p]
    <3>1. database.version \in Nat
      BY <2>3 DEF StartInv, StartupTypeOK
    <3>2. CASE database.version > setup.build[p]
      BY <1>1, <2>3, <3>2 DEF LockVersion, Fail
    <3>3. CASE ~(database.version > setup.build[p])
      BY <1>1, <1>3, <2>3, <3>1, <3>3 DEF LockVersion, Step
    <3> QED BY <3>2, <3>3
  <2> QED BY <2>1, <2>2, <2>3
<1>5. StartupTypeOK'
  BY <1>1, <1>4 DEF StartInv, StartupTypeOK, Failures
<1>6. Inserted'
  BY <1>1, <1>4 DEF StartInv, StartupTypeOK, Inserted
<1>7. Locked'
  <2>1. ASSUME NEW to \in {"off", "load"}, pc' = [pc EXCEPT ![p] = to], lock' = Nobody
        PROVE  Locked'
    BY <1>1, <1>2, <2>1 DEF StartInv, StartupTypeOK, Locked
  <2>2. ASSUME pc' = [pc EXCEPT ![p] = "locked"], lock' = p,
               database.version # NoRow, database.version < setup.build[p]
        PROVE  Locked'
    BY <1>1, <1>2, <2>2 DEF StartInv, StartupTypeOK, Locked
  <2> QED BY <1>4, <2>1, <2>2
<1> QED BY <1>1, <1>5, <1>6, <1>7 DEF StartInv, Shape, MigratedInOrder

\* The holder of the lock commits the next migration with its version, or fails.
LEMMA RunMigrationKeeps ==
    ASSUME StartInv, NEW p \in Proc, RunMigration(p) PROVE StartInv'
<1> USE StartupAssumption, NewestVersion
<1> DEFINE v == database.version + 1
<1>1. pc[p] = "locked" /\ lock = p /\ lock' = Nobody /\ UNCHANGED <<setup, bolt, kills>>
  BY DEF StartInv, Locked, RunMigration
<1>2. \A q \in Proc \ {p} : pc[q] # "locked"
  BY <1>1 DEF StartInv, Locked
<1>3. v \in 1..Len(Migrations) /\ database.version \in Nat
  BY <1>1 DEF StartInv, Locked, StartupTypeOK, Shape
<1>4. applied \in Seq(1..Len(Migrations)) /\ Len(applied) + 1 = v
      /\ applied = [i \in 1..Len(applied) |-> i]
  BY <1>3 DEF StartInv, StartupTypeOK, MigratedInOrder
<1>5. ASSUME NEW db, database' = [database EXCEPT !.version = v, !.schema = db],
             applied' = Append(applied, v), Step(p, "locked", "migrate"), failure' = failure
      PROVE  StartInv'
  <2>1. database'.version = v /\ DOMAIN database' = DOMAIN database
        /\ database'.exists = database.exists
    BY <1>5 DEF StartInv, Shape
  <2>2. applied' \in Seq(1..Len(Migrations)) /\ Len(applied') = v
        /\ applied' = [i \in 1..Len(applied') |-> i]
    <3>1. applied' \in Seq(1..Len(Migrations)) /\ Len(applied') = v
      BY <1>3, <1>4, <1>5, AppendProperties
    <3>2. \A i \in 1..v : applied'[i] = i
      BY <1>3, <1>4, <1>5, AppendProperties
    <3> QED BY <3>1, <3>2, LenProperties
  <2>3. StartupTypeOK'
    BY <1>1, <1>3, <1>5, <2>1, <2>2 DEF StartInv, StartupTypeOK, Step
  <2>4. Shape' /\ MigratedInOrder'
    BY <1>1, <2>1, <2>2 DEF StartInv, Shape, MigratedInOrder
  <2>5. Inserted'
    BY <1>1, <1>3, <1>5, <2>1 DEF StartInv, StartupTypeOK, Inserted, Step
  <2>6. Locked'
    BY <1>1, <1>2, <1>5 DEF StartInv, StartupTypeOK, Locked, Step
  <2> QED BY <2>3, <2>4, <2>5, <2>6 DEF StartInv
<1>6. CASE Fail(p, "statement refused") /\ UNCHANGED <<database, applied>>
  <2>1. StartupTypeOK'
    BY <1>1, <1>6 DEF StartInv, StartupTypeOK, Fail, Failures
  <2>2. Inserted'
    BY <1>1, <1>6 DEF StartInv, StartupTypeOK, Inserted, Fail
  <2>3. Locked'
    BY <1>1, <1>2, <1>6 DEF StartInv, StartupTypeOK, Locked, Fail
  <2> QED BY <1>1, <1>6, <2>1, <2>2, <2>3 DEF StartInv, Shape, MigratedInOrder
<1> QED BY <1>5, <1>6 DEF RunMigration

\* Loading touches none of this.
LEMMA LoadAllKeeps ==
    ASSUME StartInv, NEW p \in Proc, LoadAll(p) PROVE StartInv'
<1> USE StartupAssumption, NewestVersion
<1>1. StartupTypeOK'
  BY DEF StartInv, LoadAll, Step, Fail, Failures, StartupTypeOK
<1>2. Shape'
  BY DEF StartInv, LoadAll, Shape
<1>3. MigratedInOrder'
  BY DEF StartInv, LoadAll, MigratedInOrder
<1>4. Inserted'
  BY DEF StartInv, LoadAll, Step, Fail, StartupTypeOK, Inserted
<1>5. Locked'
  BY DEF StartInv, LoadAll, Step, Fail, StartupTypeOK, Locked
<1> QED BY <1>1, <1>2, <1>3, <1>4, <1>5 DEF StartInv

\* A kill releases the lock.
LEMMA KillKeeps ==
    ASSUME StartInv, NEW p \in Proc, Kill(p) PROVE StartInv'
<1> USE StartupAssumption, NewestVersion
<1>1. UNCHANGED <<setup, database, applied>>
  BY DEF Kill
<1>2. pc' = [pc EXCEPT ![p] = "off"] /\ failure' = [failure EXCEPT ![p] = "none"]
  BY DEF Kill
<1>3. kills' \in 0..MaxKills
  BY DEF StartInv, StartupTypeOK, Kill
<1>4. lock' \in Proc \cup {Nobody} /\ bolt' \in Proc \cup {Nobody}
  BY DEF StartInv, StartupTypeOK, Kill, Released
<1>5. StartupTypeOK'
  BY <1>1, <1>2, <1>3, <1>4 DEF StartInv, StartupTypeOK, Failures
<1>6. Inserted'
  BY <1>1, <1>2 DEF StartInv, StartupTypeOK, Inserted
<1>7. Locked'
  BY <1>1, <1>2 DEF StartInv, StartupTypeOK, Locked, Kill, Released
<1> QED BY <1>1, <1>5, <1>6, <1>7 DEF StartInv, Shape, MigratedInOrder

\* Users fill tables.
LEMMA PopulateKeeps ==
    ASSUME StartInv, NEW p \in Proc, Populate(p) PROVE StartInv'
<1> USE StartupAssumption, NewestVersion
<1>1. StartupTypeOK'
  BY DEF StartInv, Populate, Shape, StartupTypeOK
<1>2. Shape'
  BY DEF StartInv, Populate, Shape
<1>3. MigratedInOrder'
  BY DEF StartInv, Populate, Shape, MigratedInOrder
<1>4. Inserted'
  BY DEF StartInv, Populate, Shape, StartupTypeOK, Inserted
<1>5. Locked'
  BY DEF StartInv, Populate, Shape, StartupTypeOK, Locked
<1> QED BY <1>1, <1>2, <1>3, <1>4, <1>5 DEF StartInv

\* An old init.sql moved a column.
LEMMA FromInitSqlKeeps ==
    ASSUME StartInv, NEW p \in Proc, FromInitSql(p) PROVE StartInv'
<1> USE StartupAssumption, NewestVersion
<1>1. StartupTypeOK'
  BY DEF StartInv, FromInitSql, Shape, StartupTypeOK
<1>2. Shape'
  BY DEF StartInv, FromInitSql, Shape
<1>3. MigratedInOrder'
  BY DEF StartInv, FromInitSql, Shape, MigratedInOrder
<1>4. Inserted'
  BY DEF StartInv, FromInitSql, Shape, StartupTypeOK, Inserted
<1>5. Locked'
  BY DEF StartInv, FromInitSql, Shape, StartupTypeOK, Locked
<1> QED BY <1>1, <1>2, <1>3, <1>4, <1>5 DEF StartInv

\* Every step of the start keeps it.
LEMMA StartInvNext == StartInv /\ [StartupNext]_startupVars => StartInv'
<1> SUFFICES ASSUME StartInv, [StartupNext]_startupVars PROVE StartInv'
  OBVIOUS
<1>1. ASSUME NEW p \in Proc, Progress(p) PROVE StartInv'
  BY <1>1, LaunchKeeps, CheckMainKeeps, CreateMainKeeps, InsertVersionKeeps, LockVersionKeeps,
     RunMigrationKeeps, LoadAllKeeps DEF Progress
<1>2. CASE StartupNext
  BY <1>1, <1>2, KillKeeps, PopulateKeeps, FromInitSqlKeeps DEF StartupNext
<1>3. CASE UNCHANGED startupVars
  BY <1>3 DEF startupVars, StartInv, StartupTypeOK, Shape, MigratedInOrder, Inserted, Locked
<1> QED BY <1>2, <1>3

-----------------------------------------------------------------------------
(* Migrations.                                                             *)

\* However many processes of whatever builds start, overlap and are killed, the
\* migrations committed are those of the list, each once and in order, the
\* version row counts them, and one process at most is in the transaction of a
\* migration: the for update lock of runMigrations (db/migrations.go:1514).
THEOREM MigratedOnce == ServerSpec => []EveryMigrationOnce
<1>1. ServerInit => StartInv
  BY StartInvInit DEF ServerInit
<1>2. StartInv /\ [ServerNext]_serverVars => StartInv'
  BY StartInvNext DEF ServerNext, serverVars
<1>3. StartInv => EveryMigrationOnce
  BY DEF StartInv, Locked, EveryMigrationOnce
<1> QED BY <1>1, <1>2, <1>3, PTL DEF ServerSpec

-----------------------------------------------------------------------------
(* Why a start fails.                                                      *)

\* What the failures of starts rest on: the table main is there once a process
\* is past its check, the version row too unless the process that is to insert
\* it has not yet or was killed, some build brought the database to its version,
\* and db.db is open in a process that serves.
Reasons ==
    /\ \A p \in Proc : pc[p] \in {"migrate", "locked", "load", "serve"} => database.exists
    /\ database.exists /\ database.version = NoRow =>
          kills > 0 \/ \E q \in Proc : pc[q] = "insert"
    /\ database.version # NoRow =>
          database.version = 0 \/ \E q \in Proc : database.version <= setup.build[q]
    /\ \A q \in Proc : bolt = q => pc[q] = "serve" /\ q \notin setup.imager

\* Nothing has started.
LEMMA ReasonsInit == StartupInit => Reasons
BY StartupAssumption DEF StartupInit, Empty, Reasons

\* Every step of the start keeps them.
LEMMA ReasonsNext ==
    ASSUME StartInv, StartInv', Reasons, [StartupNext]_startupVars PROVE Reasons'
<1> USE StartupAssumption
<1>0. StartupTypeOK /\ Shape
  BY DEF StartInv
<1>1. ASSUME NEW p \in Proc, Launch(p) PROVE Reasons'
  BY <1>0, <1>1 DEF Launch, Step, Reasons, StartupTypeOK
<1>2. ASSUME NEW p \in Proc, CheckMain(p) PROVE Reasons'
  BY <1>0, <1>2 DEF CheckMain, Step, Reasons, StartupTypeOK
<1>3. ASSUME NEW p \in Proc, CreateMain(p) PROVE Reasons'
  <2>1. CASE database.exists
    BY <1>0, <1>3, <2>1 DEF CreateMain, Fail, Reasons, StartupTypeOK
  <2>2. CASE ~database.exists
    <3>1. database'.version = database.version /\ database'.exists
      BY <1>0, <1>3, <2>2 DEF CreateMain, Shape
    <3>2. pc' = [pc EXCEPT ![p] = "insert"] /\ pc[p] = "create"
      BY <1>3, <2>2 DEF CreateMain, Step
    <3>3. database.version = NoRow
      BY <2>2 DEF StartInv, Inserted
    <3> QED BY <1>0, <1>3, <3>1, <3>2, <3>3 DEF CreateMain, Reasons, StartupTypeOK
  <2> QED BY <2>1, <2>2
<1>4. ASSUME NEW p \in Proc, InsertVersion(p) PROVE Reasons'
  <2>1. database'.version = 0 /\ database'.exists = database.exists /\ database.exists
    BY <1>0, <1>4 DEF InsertVersion, Step, Shape, StartInv, Inserted
  <2> QED BY <1>0, <1>4, <2>1 DEF InsertVersion, Step, Reasons, StartupTypeOK
<1>5. ASSUME NEW p \in Proc, LockVersion(p) PROVE Reasons'
  <2>1. /\ UNCHANGED <<setup, database, bolt, kills>> /\ pc[p] = "migrate"
        /\ \E to \in {"off", "load", "locked"} : pc' = [pc EXCEPT ![p] = to]
    BY <1>5 DEF LockVersion, Fail, Step
  <2> QED BY <1>0, <2>1 DEF Reasons, StartupTypeOK
<1>6. ASSUME NEW p \in Proc, RunMigration(p) PROVE Reasons'
  <2>1. UNCHANGED <<setup, bolt, kills>> /\ pc[p] = "locked"
    BY <1>6 DEF RunMigration
  <2>2. CASE Fail(p, "statement refused") /\ UNCHANGED <<database, applied>>
    BY <1>0, <2>1, <2>2 DEF Fail, Reasons, StartupTypeOK
  <2>3. ASSUME NEW db, Step(p, "locked", "migrate"),
               database' = [database EXCEPT !.version = database.version + 1, !.schema = db]
        PROVE Reasons'
    <3>1. database'.version = database.version + 1 /\ database'.exists = database.exists
      BY <1>0, <2>3 DEF Shape
    <3>2. /\ database.version # NoRow /\ database.version < setup.build[p]
          /\ database.version \in Nat /\ setup.build[p] \in Nat
      BY <1>0, <2>1 DEF StartInv, Locked, StartupTypeOK, Shape
    <3>3. database'.version # NoRow /\ database'.version <= setup.build[p]
      BY <3>1, <3>2
    <3> QED BY <1>0, <2>1, <2>3, <3>1, <3>3 DEF Reasons, Step, StartupTypeOK
  <2> QED BY <1>6, <2>2, <2>3 DEF RunMigration
<1>7. ASSUME NEW p \in Proc, LoadAll(p) PROVE Reasons'
  BY <1>0, <1>7 DEF LoadAll, Step, Fail, Reasons, StartupTypeOK
<1>8. ASSUME NEW p \in Proc, Kill(p) PROVE Reasons'
  <2>1. kills' > 0
    BY <1>0, <1>8 DEF Kill, StartupTypeOK
  <2> QED BY <1>0, <1>8, <2>1 DEF Kill, Released, Reasons, StartupTypeOK
<1>9. ASSUME NEW p \in Proc, Populate(p) \/ FromInitSql(p) PROVE Reasons'
  <2>1. database'.version = database.version /\ database'.exists = database.exists
    BY <1>0, <1>9 DEF Populate, FromInitSql, Shape
  <2> QED BY <1>9, <2>1 DEF Populate, FromInitSql, Reasons
<1>10. CASE UNCHANGED startupVars
  BY <1>10 DEF startupVars, Reasons
<1> QED BY <1>1, <1>2, <1>3, <1>4, <1>5, <1>6, <1>7, <1>8, <1>9, <1>10
        DEF StartupNext, Progress

\* A failure of this step has its reason.
FailureStep ==
    \A p \in Proc : failure'[p] # failure[p] =>
        CASE failure'[p] = "relation exists" -> database.exists
          [] failure'[p] = "no rows" ->
               applied = <<>> /\ (kills > 0 \/ \E q \in Proc \ {p} : pc[q] = "insert")
          [] failure'[p] = "database ahead" ->
               \E q \in Proc \ {p} : setup.build[q] > setup.build[p]
          [] failure'[p] = "bolt timeout" ->
               \E q \in Proc \ {p} : pc[q] = "serve" /\ q \notin setup.imager
          [] OTHER -> failure'[p] = "none"

\* A database newer than a build is of a build newer than that.
LEMMA Ahead ==
    ASSUME NEW v \in Nat, NEW b \in Nat, v > b
    PROVE v # 0 /\ \A n \in Nat : v <= n => n > b /\ n # b
OBVIOUS

\* A step that makes a start fail is one of four, and a refused statement.
LEMMA FailuresExplained ==
    ASSUME StartInv, Reasons, NoStatementRefused', [StartupNext]_startupVars
    PROVE FailureStep
<1> USE StartupAssumption
<1>0. StartupTypeOK /\ Shape /\ Inserted
  BY DEF StartInv
<1> SUFFICES ASSUME NEW r \in Proc, failure'[r] # failure[r]
             PROVE \/ failure'[r] = "relation exists" /\ database.exists
                   \/ /\ failure'[r] = "no rows"
                      /\ applied = <<>> /\ (kills > 0 \/ \E q \in Proc \ {r} : pc[q] = "insert")
                   \/ /\ failure'[r] = "database ahead"
                      /\ \E q \in Proc \ {r} : setup.build[q] > setup.build[r]
                   \/ /\ failure'[r] = "bolt timeout"
                      /\ \E q \in Proc \ {r} : pc[q] = "serve" /\ q \notin setup.imager
                   \/ failure'[r] = "none"
  BY DEF FailureStep
<1>1. ASSUME NEW p \in Proc, CreateMain(p)
      PROVE failure'[r] = "relation exists" /\ database.exists
  BY <1>0, <1>1 DEF CreateMain, Fail, StartupTypeOK
<1>2. ASSUME NEW p \in Proc, LockVersion(p)
      PROVE \/ /\ failure'[r] = "no rows"
               /\ applied = <<>> /\ (kills > 0 \/ \E q \in Proc \ {r} : pc[q] = "insert")
            \/ /\ failure'[r] = "database ahead"
               /\ \E q \in Proc \ {r} : setup.build[q] > setup.build[r]
  <2>1. pc[p] = "migrate" /\ database.exists
    BY <1>2 DEF LockVersion, Reasons
  <2>2. setup.build[p] \in 1..Len(Migrations) /\ Len(Migrations) \in Nat
    BY <1>0, NewestVersion DEF Shape
  <2>3. CASE database.version = NoRow
    <3>1. failure' = [failure EXCEPT ![p] = "no rows"]
      BY <1>2, <2>2, <2>3 DEF LockVersion, Fail
    <3>2. r = p /\ failure'[r] = "no rows"
      BY <1>0, <3>1 DEF StartupTypeOK
    <3> QED BY <1>0, <2>1, <2>3, <3>2 DEF Reasons, Inserted
  <2>4. CASE database.version # NoRow
    <3>1. database.version \in Nat
      BY <1>0, <2>4 DEF StartupTypeOK
    <3>2. /\ database.version > setup.build[p]
          /\ failure' = [failure EXCEPT ![p] = "database ahead"]
      BY <1>2, <2>2, <2>4, <3>1 DEF LockVersion, Fail
    <3>3. r = p /\ failure'[r] = "database ahead"
      BY <1>0, <3>2 DEF StartupTypeOK
    <3>4. \A q \in Proc : setup.build[q] \in Nat
      BY <1>0 DEF Shape
    <3>5. /\ database.version # 0
          /\ \A n \in Nat : database.version <= n => n > setup.build[p] /\ n # setup.build[p]
      BY <3>1, <3>2, <3>4, Ahead
    <3>6. PICK q \in Proc : database.version <= setup.build[q]
      BY <2>4, <3>5 DEF Reasons
    <3>7. setup.build[q] > setup.build[p] /\ setup.build[q] # setup.build[p]
      BY <3>4, <3>5, <3>6
    <3> QED BY <3>3, <3>7
  <2> QED BY <2>3, <2>4
<1>3. ASSUME NEW p \in Proc, RunMigration(p) PROVE FALSE
  <2>1. CASE Fail(p, "statement refused")
    BY <1>0, <2>1 DEF Fail, StartupTypeOK, NoStatementRefused
  <2>2. CASE UNCHANGED failure
    BY <2>2
  <2> QED BY <1>3, <2>1, <2>2 DEF RunMigration
<1>4. ASSUME NEW p \in Proc, LoadAll(p)
      PROVE /\ failure'[r] = "bolt timeout"
            /\ \E q \in Proc \ {r} : pc[q] = "serve" /\ q \notin setup.imager
  <2>1. pc[p] = "load" /\ bolt # Nobody /\ failure' = [failure EXCEPT ![p] = "bolt timeout"]
    BY <1>4 DEF LoadAll, Fail
  <2>2. r = p /\ failure'[r] = "bolt timeout"
    BY <1>0, <2>1 DEF StartupTypeOK
  <2>3. bolt \in Proc /\ pc[bolt] = "serve" /\ bolt \notin setup.imager
    BY <1>0, <2>1 DEF StartupTypeOK, Reasons
  <2> QED BY <2>1, <2>2, <2>3
<1>5. ASSUME NEW p \in Proc, Kill(p) PROVE failure'[r] = "none"
  BY <1>0, <1>5 DEF Kill, StartupTypeOK
<1>6. ASSUME NEW p \in Proc,
             Launch(p) \/ CheckMain(p) \/ InsertVersion(p) \/ Populate(p) \/ FromInitSql(p)
      PROVE FALSE
  BY <1>6 DEF Launch, CheckMain, InsertVersion, Populate, FromInitSql
<1>7. ~UNCHANGED startupVars
  BY DEF startupVars
<1> QED BY <1>1, <1>2, <1>3, <1>4, <1>5, <1>6, <1>7 DEF StartupNext, Progress

\* If Postgres refuses no statement of a migration, a start fails only because of
\* another process, and each failure tells which: one that created main at the
\* same time, one that has yet to insert the version row or was killed before it
\* did, a newer build, or one that has db.db open (db/init.go, db/migrations.go).
THEOREM FailuresHaveReasons == ServerSpec /\ []NoStatementRefused => FailureHasReason
<1>1. ServerInit => StartInv /\ Reasons
  BY StartInvInit, ReasonsInit DEF ServerInit
<1>2. StartInv /\ [ServerNext]_serverVars => StartInv'
  BY StartInvNext DEF ServerNext, serverVars
<1>3. ServerNext \/ UNCHANGED serverVars => [StartupNext]_startupVars
  BY DEF ServerNext, serverVars
<1>4. StartInv /\ StartInv' /\ Reasons /\ [ServerNext]_serverVars => Reasons'
  BY <1>3, ReasonsNext
<1>5. StartInv /\ Reasons /\ NoStatementRefused' /\ [ServerNext]_serverVars
        => [FailureStep]_startupVars
  BY <1>3, FailuresExplained
<1> QED BY <1>1, <1>2, <1>4, <1>5, PTL DEF ServerSpec, FailureHasReason, FailureStep

-----------------------------------------------------------------------------
(* The copies of rows: the inductive invariant.                            *)

\* The configuration of a board as a copy of it has it
Conf == [revision : Nat, banners : Nat \cup {None}]

\* What the goroutines hold, and what is on its way to them
Held ==
    /\ CachesTypeOK
    /\ boardCache \in Conf \cup {None}
    /\ boardUpdate \in {Idle} \cup [at : {"read"}, revision : Nat]
                              \cup [at : {"ready"}, conf : Conf]
    /\ bannerPatch \in {Idle} \cup [at : {"stored"}] \cup [at : {"copied"}, conf : Conf]
    /\ overwritten \in BOOLEAN
    /\ writes \in Nat /\ disconnects \in Nat
    /\ pending \in [Channel -> Seq(Nat \cup {None})]
    /\ pending["new_post_in_thread"] \in Seq(Nat)
    /\ insert \in [Poster -> {Idle} \cup [at : {"bumped"}]
                             \cup [at : {"counted"}, count : Nat]]

\* A channel with nothing missed and nothing left: its copy was read after the
\* last write, for the listener is opened later and only loses what it misses.
UpToDate(c) == phase[c] # "cold" /\ c \notin missed /\ pending[c] = <<>>

\* Nothing is on its way before a copy is loaded, and the boards are last.
Loading ==
    /\ \A c \in Channel : phase[c] \in {"cold", "loaded"} => pending[c] = <<>>
    /\ phase["new_post_in_thread"] = "cold" <=> phase["thread_deleted"] = "cold"
    /\ phase["board_updated"] = "cold" =>
          boardCache = None /\ boardUpdate = Idle /\ bannerPatch.at # "copied"
    /\ phase["board_updated"] # "cold" => \A c \in Channel : phase[c] # "cold"

Followed ==
    /\ UpToDate("config_updates") => confCache = config
    /\ UpToDate("banners_updated") => bannerStore = banners

\* A board that was read after its last change is what is, or will be, the copy,
\* and that has the banners of the store unless a patch is still to come.
Boards ==
    /\ UpToDate("board_updated") =>
          /\ boardUpdate.at = "read" => boardUpdate.revision = board
          /\ boardUpdate.at = "ready" => boardUpdate.conf.revision = board
          /\ boardUpdate = Idle /\ ~overwritten =>
                IF board = None THEN boardCache = None
                ELSE boardCache # None /\ boardCache.revision = board
    /\ boardCache # None /\ bannerPatch = Idle /\ ~overwritten =>
          boardCache.banners = bannerStore

\* Counts are sent in the order of the commits, for each is made under the lock
\* of the thread's row: the last is that of the thread.
Counts ==
    LET sent == pending["new_post_in_thread"] IN
    /\ \A p \in Poster : insert[p] # Idle <=> threadLock = p
    /\ threadLock # None => thread # None
    /\ \A p \in Poster : insert[p].at = "counted" => insert[p].count = thread + 1
    /\ thread # None =>
          /\ pending["thread_deleted"] = <<>>
          /\ countCache # None => countCache <= thread
          /\ \A i \in 1..Len(sent) : sent[i] <= thread
          /\ phase["new_post_in_thread"] # "cold" /\ "new_post_in_thread" \notin missed =>
                thread = IF sent = <<>> THEN countCache ELSE sent[Len(sent)]

\* What every step of the copies keeps
CopyInv == Held /\ Loading /\ Followed /\ Boards /\ Counts

\* The channels
LEMMA Channels ==
    /\ "config_updates" \in Channel /\ "board_updated" \in Channel
    /\ "banners_updated" \in Channel /\ "thread_deleted" \in Channel
    /\ "new_post_in_thread" \in Channel
BY DEF Channel

\* A notification leaves its channel behind, and the others as they are.
LEMMA Notified ==
    ASSUME Held, Loading, NEW c \in Channel, NEW payload \in Nat \cup {None}, Notify(c, payload),
           phase' = phase
    PROVE /\ pending' \in [Channel -> Seq(Nat \cup {None})] /\ missed' \subseteq Channel
          /\ \A d \in Channel \ {c} :
                pending'[d] = pending[d] /\ (d \in missed' <=> d \in missed)
          /\ \A d \in Channel \ {c} : UpToDate(d)' <=> UpToDate(d)
          /\ ~UpToDate(c)'
          /\ \A d \in Channel : phase[d] \in {"cold", "loaded"} => pending'[d] = <<>>
          /\ phase[c] # "listening" => pending'[c] = pending[c]
          /\ phase[c] = "listening" =>
                pending'[c] = Append(pending[c], payload) /\ (c \in missed' <=> c \in missed)
          /\ phase[c] \in {"loaded", "ended"} => c \in missed'
<1>1. pending[c] \in Seq(Nat \cup {None})
  BY DEF Held
<1>2. Append(pending[c], payload) \in Seq(Nat \cup {None}) /\ Append(pending[c], payload) # <<>>
  BY <1>1, AppendProperties, EmptySeq
<1>3. phase[c] \in {"cold", "loaded", "listening", "ended"}
  BY DEF Held, CachesTypeOK
<1>4. /\ pending' \in [Channel -> Seq(Nat \cup {None})]
      /\ \A d \in Channel \ {c} : pending'[d] = pending[d]
      /\ pending'[c] = IF phase[c] = "listening" THEN Append(pending[c], payload) ELSE pending[c]
  BY <1>2 DEF Notify, Held
<1>5. /\ missed' \subseteq Channel /\ \A d \in Channel \ {c} : d \in missed' <=> d \in missed
      /\ phase[c] \in {"loaded", "ended"} => c \in missed'
      /\ phase[c] = "listening" => (c \in missed' <=> c \in missed)
  BY DEF Notify, Held, CachesTypeOK
<1>6. ~UpToDate(c)'
  BY <1>2, <1>3, <1>4, <1>5 DEF UpToDate
<1>7. \A d \in Channel \ {c} : UpToDate(d)' <=> UpToDate(d)
  BY <1>4, <1>5 DEF UpToDate
<1>8. \A d \in Channel : phase[d] \in {"cold", "loaded"} => pending'[d] = <<>>
  BY <1>4 DEF Loading
<1> QED BY <1>4, <1>5, <1>6, <1>7, <1>8

\* A listener takes the first of its channel's notifications.
LEMMA Taken ==
    ASSUME Held, Loading, NEW c \in Channel, Received(c), UNCHANGED <<phase, missed>>
    PROVE /\ pending' \in [Channel -> Seq(Nat \cup {None})]
          /\ pending[c] # <<>> /\ pending'[c] = Tail(pending[c])
          /\ phase[c] \in {"listening", "ended"}
          /\ \A d \in Channel \ {c} : pending'[d] = pending[d] /\ (UpToDate(d)' <=> UpToDate(d))
          /\ UpToDate(c)' => c \notin missed
          /\ \A d \in Channel : phase[d] \in {"cold", "loaded"} => pending'[d] = <<>>
<1>1. pending[c] \in Seq(Nat \cup {None}) /\ pending[c] # <<>>
  BY DEF Held, Received
<1>2. Tail(pending[c]) \in Seq(Nat \cup {None})
  BY <1>1, HeadTailProperties
<1>3. /\ pending' \in [Channel -> Seq(Nat \cup {None})] /\ pending'[c] = Tail(pending[c])
      /\ \A d \in Channel \ {c} : pending'[d] = pending[d]
  BY <1>2 DEF Held, Received
<1>4. phase[c] \in {"listening", "ended"}
  BY <1>1 DEF Held, CachesTypeOK, Loading
<1>5. \A d \in Channel : phase[d] \in {"cold", "loaded"} => pending'[d] = <<>>
  BY <1>3, <1>4 DEF Loading
<1> QED BY <1>1, <1>3, <1>4, <1>5 DEF UpToDate

\* The counts do not depend on the other copies.
LEMMA CountsSame ==
    ASSUME Counts, UNCHANGED <<thread, insert, threadLock, countCache>>,
           pending'["thread_deleted"] = pending["thread_deleted"],
           pending'["new_post_in_thread"] = pending["new_post_in_thread"],
           phase'["new_post_in_thread"] = "cold" <=> phase["new_post_in_thread"] = "cold",
           "new_post_in_thread" \in missed' <=> "new_post_in_thread" \in missed
    PROVE Counts'
BY DEF Counts

\* The configuration is loaded.
LEMMA LoadConfigsKeeps ==
    ASSUME CopyInv, LoadConfigs PROVE CopyInv'
<1> USE CachesAssumption, Channels
<1>0. Held /\ Loading /\ Followed /\ Boards /\ Counts
  BY DEF CopyInv
<1>1. /\ phase["config_updates"] = "cold" /\ confCache' = config
      /\ phase' = [c \in Channel |-> IF c \in {"config_updates"} THEN "loaded" ELSE phase[c]]
      /\ UNCHANGED <<rowVars, threadVars, bannerStore, boardCache, countCache, pending, missed,
                     goroutineVars, writes, disconnects>>
  BY DEF LoadConfigs, Loaded, rowVars, threadVars, copyVars, goroutineVars
<1>3. Held'
  BY <1>0, <1>1 DEF Held, CachesTypeOK, rowVars, threadVars, copyVars, goroutineVars
<1>4. Loading'
  BY <1>0, <1>1 DEF Loading, goroutineVars
<1>5. Followed'
  BY <1>0, <1>1 DEF Followed, UpToDate, rowVars
<1>6. Boards'
  BY <1>0, <1>1 DEF Boards, UpToDate, Loading, rowVars, goroutineVars
<1>7. Counts'
  BY <1>0, <1>1, CountsSame DEF threadVars
<1> QED BY <1>3, <1>4, <1>5, <1>6, <1>7 DEF CopyInv

\* The banners are loaded, before the boards.
LEMMA LoadBannersKeeps ==
    ASSUME CopyInv, LoadBanners PROVE CopyInv'
<1> USE CachesAssumption, Channels
<1>0. Held /\ Loading /\ Followed /\ Boards /\ Counts
  BY DEF CopyInv
<1>1. /\ phase["banners_updated"] = "cold" /\ bannerStore' = banners
      /\ phase' = [c \in Channel |-> IF c \in {"banners_updated"} THEN "loaded" ELSE phase[c]]
      /\ UNCHANGED <<rowVars, threadVars, confCache, boardCache, countCache, pending, missed,
                     goroutineVars, writes, disconnects>>
  BY DEF LoadBanners, Loaded, rowVars, threadVars, copyVars, goroutineVars
<1>3. Held'
  BY <1>0, <1>1 DEF Held, CachesTypeOK, rowVars, threadVars, copyVars, goroutineVars
<1>4. Loading'
  BY <1>0, <1>1 DEF Loading, goroutineVars
<1>5. Followed'
  BY <1>0, <1>1 DEF Followed, UpToDate, rowVars
<1>6. Boards'
  BY <1>0, <1>1 DEF Boards, UpToDate, Loading, rowVars, goroutineVars
<1>7. Counts'
  BY <1>0, <1>1, CountsSame DEF threadVars
<1> QED BY <1>3, <1>4, <1>5, <1>6, <1>7 DEF CopyInv

\* The counts are loaded.
LEMMA LoadThreadPostCountsKeeps ==
    ASSUME CopyInv, LoadThreadPostCounts PROVE CopyInv'
<1> USE CachesAssumption, Channels
<1>0. Held /\ Loading /\ Followed /\ Boards /\ Counts
  BY DEF CopyInv
<1>1. /\ phase["thread_deleted"] = "cold" /\ countCache' = thread
      /\ phase' = [c \in Channel |-> IF c \in {"thread_deleted", "new_post_in_thread"}
                                   THEN "loaded" ELSE phase[c]]
      /\ UNCHANGED <<rowVars, threadVars, confCache, bannerStore, boardCache, pending, missed,
                     goroutineVars, writes, disconnects>>
  BY DEF LoadThreadPostCounts, Loaded, rowVars, threadVars, copyVars, goroutineVars
<1>3. Held'
  BY <1>0, <1>1 DEF Held, CachesTypeOK, rowVars, threadVars, copyVars, goroutineVars
<1>4. Loading'
  BY <1>0, <1>1 DEF Loading, goroutineVars
<1>5. Followed'
  BY <1>0, <1>1 DEF Followed, UpToDate, rowVars
<1>6. Boards'
  BY <1>0, <1>1 DEF Boards, UpToDate, Loading, rowVars, goroutineVars
<1>7. Counts'
  <2>1. pending["new_post_in_thread"] = <<>>
    BY <1>0, <1>1 DEF Loading
  <2> QED BY <1>0, <1>1, <2>1 DEF Counts, threadVars, Held, CachesTypeOK
<1> QED BY <1>3, <1>4, <1>5, <1>6, <1>7 DEF CopyInv

\* The boards are loaded when all the others listen.
LEMMA LoadBoardConfigsKeeps ==
    ASSUME CopyInv, LoadBoardConfigs PROVE CopyInv'
<1> USE CachesAssumption, Channels
<1>0. Held /\ Loading /\ Followed /\ Boards /\ Counts
  BY DEF CopyInv
<1>1. /\ phase["board_updated"] = "cold"
      /\ \A c \in Channel \ {"board_updated"} : phase[c] \notin {"cold", "loaded"}
      /\ boardCache' = IF board = None THEN None
                       ELSE [revision |-> board, banners |-> bannerStore]
      /\ phase' = [c \in Channel |-> IF c \in {"board_updated"} THEN "loaded" ELSE phase[c]]
      /\ UNCHANGED <<rowVars, threadVars, confCache, bannerStore, countCache, pending, missed,
                     goroutineVars, writes, disconnects>>
  BY DEF LoadBoardConfigs, Loaded, rowVars, threadVars, copyVars, goroutineVars
<1>3. Held'
  BY <1>0, <1>1 DEF Held, CachesTypeOK, Conf, rowVars, threadVars, copyVars, goroutineVars
<1>4. Loading'
  BY <1>0, <1>1 DEF Loading, goroutineVars
<1>5. Followed'
  BY <1>0, <1>1 DEF Followed, UpToDate, rowVars
<1>6. Boards'
  <2>1. boardUpdate = Idle /\ Idle.at = "idle"
    BY <1>0, <1>1 DEF Loading, Idle
  <2> QED BY <1>0, <1>1, <2>1 DEF Boards, Held, CachesTypeOK, UpToDate, rowVars, goroutineVars
<1>7. Counts'
  BY <1>0, <1>1, CountsSame DEF threadVars
<1> QED BY <1>3, <1>4, <1>5, <1>6, <1>7 DEF CopyInv

\* A listener is opened.
LEMMA ListenKeeps ==
    ASSUME CopyInv, NEW c \in Channel, Listen(c) PROVE CopyInv'
<1> USE CachesAssumption, Channels
<1>0. Held /\ Loading /\ Followed /\ Boards /\ Counts
  BY DEF CopyInv
<1>1. /\ phase[c] = "loaded" /\ phase' = [phase EXCEPT ![c] = "listening"]
      /\ UNCHANGED <<rowVars, threadVars, copyVars, pending, missed, goroutineVars, writes,
                     disconnects>>
  BY DEF Listen, rowVars, threadVars, copyVars, goroutineVars
<1>3. Held'
  BY <1>0, <1>1 DEF Held, CachesTypeOK, rowVars, threadVars, copyVars, goroutineVars
<1>4. Loading'
  BY <1>0, <1>1 DEF Loading, Held, CachesTypeOK, copyVars, goroutineVars
<1>5. Followed'
  BY <1>0, <1>1 DEF Followed, UpToDate, Held, CachesTypeOK, rowVars, copyVars
<1>6. Boards'
  BY <1>0, <1>1 DEF Boards, UpToDate, Held, CachesTypeOK, rowVars, copyVars, goroutineVars
<1>7. Counts'
  BY <1>0, <1>1, CountsSame DEF threadVars, copyVars, Held, CachesTypeOK
<1> QED BY <1>3, <1>4, <1>5, <1>6, <1>7 DEF CopyInv

\* A listener ends.
LEMMA DisconnectKeeps ==
    ASSUME CopyInv, NEW c \in Channel, Disconnect(c) PROVE CopyInv'
<1> USE CachesAssumption, Channels
<1>0. Held /\ Loading /\ Followed /\ Boards /\ Counts
  BY DEF CopyInv
<1>1. /\ phase[c] = "listening" /\ phase' = [phase EXCEPT ![c] = "ended"]
      /\ disconnects' = disconnects + 1
      /\ UNCHANGED <<rowVars, threadVars, copyVars, pending, missed, goroutineVars, writes>>
  BY DEF Disconnect, rowVars, threadVars, copyVars, goroutineVars
<1>3. Held'
  BY <1>0, <1>1 DEF Held, CachesTypeOK, rowVars, threadVars, copyVars, goroutineVars
<1>4. Loading'
  BY <1>0, <1>1 DEF Loading, Held, CachesTypeOK, copyVars, goroutineVars
<1>5. Followed'
  BY <1>0, <1>1 DEF Followed, UpToDate, Held, CachesTypeOK, rowVars, copyVars
<1>6. Boards'
  BY <1>0, <1>1 DEF Boards, UpToDate, Held, CachesTypeOK, rowVars, copyVars, goroutineVars
<1>7. Counts'
  BY <1>0, <1>1, CountsSame DEF threadVars, copyVars, Held, CachesTypeOK
<1> QED BY <1>3, <1>4, <1>5, <1>6, <1>7 DEF CopyInv

\* The configuration is changed.
LEMMA WriteConfigsKeeps ==
    ASSUME CopyInv, WriteConfigs PROVE CopyInv'
<1> USE CachesAssumption, Channels
<1>0. Held /\ Loading /\ Followed /\ Boards /\ Counts
  BY DEF CopyInv
<1>1. /\ config' = config + 1 /\ Notify("config_updates", None) /\ writes' = writes + 1
      /\ UNCHANGED <<board, banners, threadVars, copyVars, phase, goroutineVars, disconnects>>
  BY DEF WriteConfigs, Write, rowVars, threadVars, copyVars, goroutineVars
<1>2. /\ pending' \in [Channel -> Seq(Nat \cup {None})] /\ missed' \subseteq Channel
      /\ \A d \in Channel \ {"config_updates"} :
            pending'[d] = pending[d] /\ (d \in missed' <=> d \in missed)
      /\ \A d \in Channel \ {"config_updates"} : UpToDate(d)' <=> UpToDate(d)
      /\ ~UpToDate("config_updates")'
      /\ \A d \in Channel : phase[d] \in {"cold", "loaded"} => pending'[d] = <<>>
  BY <1>0, <1>1, Notified
<1>3. Held'
  <2>1. config' \in Nat /\ writes' \in Nat
    BY <1>0, <1>1 DEF Held, CachesTypeOK
  <2>2. pending'["new_post_in_thread"] \in Seq(Nat)
    BY <1>0, <1>2 DEF Held
  <2>3. CachesTypeOK'
    BY <1>0, <1>1, <1>2, <2>1 DEF Held, CachesTypeOK, rowVars, threadVars, copyVars
  <2> QED BY <1>0, <1>1, <1>2, <2>1, <2>2, <2>3 DEF Held, copyVars, threadVars, goroutineVars
<1>4. Loading'
  BY <1>0, <1>1, <1>2 DEF Loading, copyVars, goroutineVars
<1>5. Followed'
  BY <1>0, <1>1, <1>2 DEF Followed, rowVars, copyVars
<1>6. Boards'
  BY <1>0, <1>1, <1>2 DEF Boards, rowVars, copyVars, goroutineVars
<1>7. Counts'
  BY <1>0, <1>1, <1>2, CountsSame DEF threadVars, copyVars
<1> QED BY <1>3, <1>4, <1>5, <1>6, <1>7 DEF CopyInv

\* A board is changed, deleted or made.
LEMMA WriteBoardKeeps ==
    ASSUME CopyInv, WriteBoard PROVE CopyInv'
<1> USE CachesAssumption, Channels
<1>0. Held /\ Loading /\ Followed /\ Boards /\ Counts
  BY DEF CopyInv
<1>1. /\ board' \in {None, writes + 1} /\ Notify("board_updated", None) /\ writes' = writes + 1
      /\ UNCHANGED <<config, banners, threadVars, copyVars, phase, goroutineVars, disconnects>>
  BY DEF WriteBoard, Write, rowVars, threadVars, copyVars, goroutineVars
<1>2. /\ pending' \in [Channel -> Seq(Nat \cup {None})] /\ missed' \subseteq Channel
      /\ \A d \in Channel \ {"board_updated"} :
            pending'[d] = pending[d] /\ (d \in missed' <=> d \in missed)
      /\ \A d \in Channel \ {"board_updated"} : UpToDate(d)' <=> UpToDate(d)
      /\ ~UpToDate("board_updated")'
      /\ \A d \in Channel : phase[d] \in {"cold", "loaded"} => pending'[d] = <<>>
  BY <1>0, <1>1, Notified
<1>3. Held'
  <2>1. board' \in Nat \cup {None} /\ writes' \in Nat
    BY <1>0, <1>1 DEF Held, CachesTypeOK
  <2>2. pending'["new_post_in_thread"] \in Seq(Nat)
    BY <1>0, <1>2 DEF Held
  <2>3. CachesTypeOK'
    BY <1>0, <1>1, <1>2, <2>1 DEF Held, CachesTypeOK, rowVars, threadVars, copyVars
  <2> QED BY <1>0, <1>1, <1>2, <2>1, <2>2, <2>3 DEF Held, copyVars, threadVars, goroutineVars
<1>4. Loading'
  BY <1>0, <1>1, <1>2 DEF Loading, copyVars, goroutineVars
<1>5. Followed'
  BY <1>0, <1>1, <1>2 DEF Followed, rowVars, copyVars
<1>6. Boards'
  BY <1>0, <1>1, <1>2 DEF Boards, rowVars, copyVars, goroutineVars
<1>7. Counts'
  BY <1>0, <1>1, <1>2, CountsSame DEF threadVars, copyVars
<1> QED BY <1>3, <1>4, <1>5, <1>6, <1>7 DEF CopyInv

\* The banners of a board are replaced.
LEMMA SetBannersKeeps ==
    ASSUME CopyInv, SetBanners PROVE CopyInv'
<1> USE CachesAssumption, Channels
<1>0. Held /\ Loading /\ Followed /\ Boards /\ Counts
  BY DEF CopyInv
<1>1. /\ banners' = banners + 1 /\ Notify("banners_updated", None) /\ writes' = writes + 1
      /\ UNCHANGED <<config, board, threadVars, copyVars, phase, goroutineVars, disconnects>>
  BY DEF SetBanners, Write, rowVars, threadVars, copyVars, goroutineVars
<1>2. /\ pending' \in [Channel -> Seq(Nat \cup {None})] /\ missed' \subseteq Channel
      /\ \A d \in Channel \ {"banners_updated"} :
            pending'[d] = pending[d] /\ (d \in missed' <=> d \in missed)
      /\ \A d \in Channel \ {"banners_updated"} : UpToDate(d)' <=> UpToDate(d)
      /\ ~UpToDate("banners_updated")'
      /\ \A d \in Channel : phase[d] \in {"cold", "loaded"} => pending'[d] = <<>>
  BY <1>0, <1>1, Notified
<1>3. Held'
  <2>1. banners' \in Nat /\ writes' \in Nat
    BY <1>0, <1>1 DEF Held, CachesTypeOK
  <2>2. pending'["new_post_in_thread"] \in Seq(Nat)
    BY <1>0, <1>2 DEF Held
  <2>3. CachesTypeOK'
    BY <1>0, <1>1, <1>2, <2>1 DEF Held, CachesTypeOK, rowVars, threadVars, copyVars
  <2> QED BY <1>0, <1>1, <1>2, <2>1, <2>2, <2>3 DEF Held, copyVars, threadVars, goroutineVars
<1>4. Loading'
  BY <1>0, <1>1, <1>2 DEF Loading, copyVars, goroutineVars
<1>5. Followed'
  BY <1>0, <1>1, <1>2 DEF Followed, rowVars, copyVars
<1>6. Boards'
  BY <1>0, <1>1, <1>2 DEF Boards, rowVars, copyVars, goroutineVars
<1>7. Counts'
  BY <1>0, <1>1, <1>2, CountsSame DEF threadVars, copyVars
<1> QED BY <1>3, <1>4, <1>5, <1>6, <1>7 DEF CopyInv

\* A thread is deleted, which no transaction holds.
LEMMA DeleteThreadKeeps ==
    ASSUME CopyInv, DeleteThread PROVE CopyInv'
<1> USE CachesAssumption, Channels
<1>0. Held /\ Loading /\ Followed /\ Boards /\ Counts
  BY DEF CopyInv
<1>1. /\ thread # None /\ threadLock = None /\ thread' = None /\ writes' = writes + 1
      /\ Notify("thread_deleted", None)
      /\ UNCHANGED <<rowVars, insert, threadLock, copyVars, phase, goroutineVars, disconnects>>
  BY DEF DeleteThread, Write, rowVars, threadVars, copyVars, goroutineVars
<1>2. /\ pending' \in [Channel -> Seq(Nat \cup {None})] /\ missed' \subseteq Channel
      /\ \A d \in Channel \ {"thread_deleted"} :
            pending'[d] = pending[d] /\ (d \in missed' <=> d \in missed)
      /\ \A d \in Channel \ {"thread_deleted"} : UpToDate(d)' <=> UpToDate(d)
      /\ ~UpToDate("thread_deleted")'
      /\ \A d \in Channel : phase[d] \in {"cold", "loaded"} => pending'[d] = <<>>
  BY <1>0, <1>1, Notified
<1>3. Held'
  BY <1>0, <1>1, <1>2 DEF Held, CachesTypeOK, rowVars, threadVars, copyVars, goroutineVars
<1>4. Loading'
  BY <1>0, <1>1, <1>2 DEF Loading, copyVars, goroutineVars
<1>5. Followed'
  BY <1>0, <1>1, <1>2 DEF Followed, rowVars, copyVars
<1>6. Boards'
  BY <1>0, <1>1, <1>2 DEF Boards, rowVars, copyVars, goroutineVars
<1>7. Counts'
  BY <1>0, <1>1 DEF Counts, Idle
<1> QED BY <1>3, <1>4, <1>5, <1>6, <1>7 DEF CopyInv

\* A post is about to be counted, under the lock of the row.
LEMMA BumpThreadKeeps ==
    ASSUME CopyInv, NEW p \in Poster, BumpThread(p) PROVE CopyInv'
<1> USE CachesAssumption, Channels
<1>0. Held /\ Loading /\ Followed /\ Boards /\ Counts
  BY DEF CopyInv
<1>1. /\ insert[p].at = "idle" /\ thread # None /\ threadLock = None /\ writes' = writes + 1
      /\ threadLock' = p /\ insert' = [insert EXCEPT ![p] = [at |-> "bumped"]]
      /\ UNCHANGED <<rowVars, thread, copyVars, phase, pending, missed, goroutineVars,
                     disconnects>>
  BY DEF BumpThread, Write, rowVars, threadVars, copyVars, goroutineVars
<1>3. Held'
  BY <1>0, <1>1 DEF Held, CachesTypeOK, Idle, rowVars, threadVars, copyVars, goroutineVars
<1>4. Loading'
  BY <1>0, <1>1 DEF Loading, copyVars, goroutineVars
<1>5. Followed'
  BY <1>0, <1>1 DEF Followed, UpToDate, rowVars, copyVars
<1>6. Boards'
  BY <1>0, <1>1 DEF Boards, UpToDate, rowVars, copyVars, goroutineVars
<1>7. Counts'
  BY <1>0, <1>1 DEF Counts, Held, CachesTypeOK, Idle, copyVars
<1> QED BY <1>3, <1>4, <1>5, <1>6, <1>7 DEF CopyInv

\* The posts are counted, and the new one with them.
LEMMA CountPostsKeeps ==
    ASSUME CopyInv, NEW p \in Poster, CountPosts(p) PROVE CopyInv'
<1> USE CachesAssumption, Channels
<1>0. Held /\ Loading /\ Followed /\ Boards /\ Counts
  BY DEF CopyInv
<1>1. /\ insert[p].at = "bumped"
      /\ insert' = [insert EXCEPT ![p] = [at |-> "counted", count |-> thread + 1]]
      /\ UNCHANGED <<rowVars, thread, threadLock, copyVars, phase, pending, missed,
                     goroutineVars, writes, disconnects>>
  BY DEF CountPosts, rowVars, threadVars, copyVars, goroutineVars
<1>2. threadLock = p /\ thread \in Nat
  BY <1>0, <1>1 DEF Counts, Held, CachesTypeOK, Idle
<1>3. Held'
  BY <1>0, <1>1, <1>2 DEF Held, CachesTypeOK, Idle, rowVars, threadVars, copyVars, goroutineVars
<1>4. Loading'
  BY <1>0, <1>1 DEF Loading, copyVars, goroutineVars
<1>5. Followed'
  BY <1>0, <1>1 DEF Followed, UpToDate, rowVars, copyVars
<1>6. Boards'
  BY <1>0, <1>1 DEF Boards, UpToDate, rowVars, copyVars, goroutineVars
<1>7. Counts'
  BY <1>0, <1>1, <1>2 DEF Counts, Held, CachesTypeOK, Idle, copyVars
<1> QED BY <1>3, <1>4, <1>5, <1>6, <1>7 DEF CopyInv

\* The post is committed, and its count sent.
LEMMA CommitPostKeeps ==
    ASSUME CopyInv, NEW p \in Poster, CommitPost(p) PROVE CopyInv'
<1> USE CachesAssumption, Channels
<1>0. Held /\ Loading /\ Followed /\ Boards /\ Counts
  BY DEF CopyInv
<1>1. /\ insert[p].at = "counted" /\ thread' = thread + 1 /\ threadLock' = None
      /\ insert' = [insert EXCEPT ![p] = Idle]
      /\ Notify("new_post_in_thread", insert[p].count)
      /\ UNCHANGED <<rowVars, copyVars, phase, goroutineVars, writes, disconnects>>
  BY DEF CommitPost, rowVars, threadVars, copyVars, goroutineVars
<1>1a. threadLock = p /\ thread \in Nat /\ insert[p].count = thread + 1
  BY <1>0, <1>1 DEF Counts, Held, CachesTypeOK, Idle
<1>1b. Notify("new_post_in_thread", thread + 1)
  BY <1>1, <1>1a
<1>2. /\ pending' \in [Channel -> Seq(Nat \cup {None})] /\ missed' \subseteq Channel
      /\ \A d \in Channel \ {"new_post_in_thread"} :
            pending'[d] = pending[d] /\ (d \in missed' <=> d \in missed)
      /\ \A d \in Channel \ {"new_post_in_thread"} : UpToDate(d)' <=> UpToDate(d)
      /\ ~UpToDate("new_post_in_thread")'
      /\ \A d \in Channel : phase[d] \in {"cold", "loaded"} => pending'[d] = <<>>
  BY <1>0, <1>1, <1>1a, <1>1b, Notified
<1>3. Held'
  <2>1. pending'["new_post_in_thread"] \in Seq(Nat)
    <3>1. /\ phase["new_post_in_thread"] # "listening" =>
                pending'["new_post_in_thread"] = pending["new_post_in_thread"]
          /\ phase["new_post_in_thread"] = "listening" =>
                pending'["new_post_in_thread"] =
                    Append(pending["new_post_in_thread"], thread + 1)
      BY <1>0, <1>1, <1>1a, <1>1b, Notified
    <3>2. Append(pending["new_post_in_thread"], thread + 1) \in Seq(Nat)
      BY <1>0, <1>1a, AppendProperties DEF Held
    <3> QED BY <1>0, <3>1, <3>2 DEF Held
  <2> QED BY <1>0, <1>1, <1>2, <1>1a, <2>1
          DEF Held, CachesTypeOK, rowVars, copyVars, goroutineVars
<1>4. Loading'
  BY <1>0, <1>1, <1>2 DEF Loading, copyVars, goroutineVars
<1>5. Followed'
  BY <1>0, <1>1, <1>2 DEF Followed, rowVars, copyVars
<1>6. Boards'
  BY <1>0, <1>1, <1>2 DEF Boards, rowVars, copyVars, goroutineVars
<1>7. Counts'
  <2> DEFINE sent == pending["new_post_in_thread"]
  <2>0. sent \in Seq(Nat) /\ Idle.at = "idle"
    BY <1>0 DEF Held, Idle
  <2>1. \A q \in Poster : insert'[q] # Idle <=> threadLock' = q
    BY <1>0, <1>1, <1>1a DEF Counts, Held
  <2>2. threadLock' = None /\ \A q \in Poster : insert'[q].at # "counted"
    BY <1>0, <1>1, <1>1a, <2>0, <2>1
  <2>3. pending'["thread_deleted"] = <<>> /\ (countCache # None => countCache <= thread + 1)
    BY <1>0, <1>1, <1>2, <1>1a DEF Counts, Held, CachesTypeOK
  <2>4. /\ phase["new_post_in_thread"] # "listening" => pending'["new_post_in_thread"] = sent
        /\ phase["new_post_in_thread"] = "listening" =>
              pending'["new_post_in_thread"] = Append(sent, thread + 1)
        /\ phase["new_post_in_thread"] \in {"loaded", "ended"} =>
              "new_post_in_thread" \in missed'
    BY <1>0, <1>1, <1>1a, <1>1b, Notified
  <2>5. \A i \in 1..Len(sent) : sent[i] <= thread /\ sent[i] \in Nat
    BY <1>0, <1>1a, <2>0, ElementOfSeq DEF Counts
  <2>6. CASE phase["new_post_in_thread"] = "listening"
    <3>1. Len(Append(sent, thread + 1)) = Len(sent) + 1 /\ Append(sent, thread + 1) # <<>>
          /\ \A i \in 1..Len(sent) : Append(sent, thread + 1)[i] = sent[i]
          /\ Append(sent, thread + 1)[Len(sent) + 1] = thread + 1
      BY <1>1a, <2>0, AppendProperties, EmptySeq
    <3>2. Len(sent) \in Nat
      BY <2>0, LenProperties
    <3>3. \A i \in 1..Len(sent) + 1 : Append(sent, thread + 1)[i] <= thread + 1
      BY <1>1a, <2>5, <3>1, <3>2
    <3> QED BY <1>1, <1>1a, <2>1, <2>2, <2>3, <2>4, <2>6, <3>1, <3>3 DEF Counts, copyVars
  <2>7. CASE phase["new_post_in_thread"] # "listening"
    <3>1. \A i \in 1..Len(sent) : sent[i] <= thread + 1
      BY <1>1a, <2>5
    <3>2. phase["new_post_in_thread"] = "cold" \/ "new_post_in_thread" \in missed'
      BY <1>0, <2>4, <2>7 DEF Held, CachesTypeOK
    <3> QED BY <1>1, <1>1a, <2>1, <2>2, <2>3, <2>4, <2>7, <3>1, <3>2 DEF Counts, copyVars
  <2> QED BY <2>6, <2>7
<1> QED BY <1>3, <1>4, <1>5, <1>6, <1>7 DEF CopyInv

\* The configuration is read again.
LEMMA UpdateConfigsKeeps ==
    ASSUME CopyInv, UpdateConfigs PROVE CopyInv'
<1> USE CachesAssumption, Channels
<1>0. Held /\ Loading /\ Followed /\ Boards /\ Counts
  BY DEF CopyInv
<1>1. /\ Received("config_updates") /\ confCache' = config
      /\ UNCHANGED <<rowVars, threadVars, bannerStore, boardCache, countCache, phase, missed,
                     goroutineVars, writes, disconnects>>
  BY DEF UpdateConfigs, rowVars, threadVars, copyVars, goroutineVars
<1>2. /\ pending' \in [Channel -> Seq(Nat \cup {None})]
      /\ pending["config_updates"] # <<>>
      /\ pending'["config_updates"] = Tail(pending["config_updates"])
      /\ phase["config_updates"] \in {"listening", "ended"}
      /\ \A d \in Channel \ {"config_updates"} :
            pending'[d] = pending[d] /\ (UpToDate(d)' <=> UpToDate(d))
      /\ UpToDate("config_updates")' => "config_updates" \notin missed
      /\ \A d \in Channel : phase[d] \in {"cold", "loaded"} => pending'[d] = <<>>
  BY <1>0, <1>1, Taken
<1>3. Held'
  BY <1>0, <1>1, <1>2 DEF Held, CachesTypeOK, rowVars, threadVars, goroutineVars
<1>4. Loading'
  BY <1>0, <1>1, <1>2 DEF Loading, goroutineVars
<1>5. Followed'
  BY <1>0, <1>1, <1>2 DEF Followed, rowVars
<1>6. Boards'
  BY <1>0, <1>1, <1>2 DEF Boards, rowVars, goroutineVars
<1>7. Counts'
  BY <1>0, <1>1, <1>2, CountsSame DEF threadVars
<1> QED BY <1>3, <1>4, <1>5, <1>6, <1>7 DEF CopyInv

\* The row of the board is read, and no other is being read.
LEMMA ReadBoardKeeps ==
    ASSUME CopyInv, ReadBoard PROVE CopyInv'
<1> USE CachesAssumption, Channels
<1>0. Held /\ Loading /\ Followed /\ Boards /\ Counts
  BY DEF CopyInv
<1>1. /\ boardUpdate = Idle /\ Received("board_updated")
      /\ \/ /\ board = None /\ boardCache' = None /\ overwritten' = FALSE
            /\ boardUpdate' = boardUpdate
         \/ /\ board # None /\ boardUpdate' = [at |-> "read", revision |-> board]
            /\ boardCache' = boardCache /\ overwritten' = overwritten
      /\ UNCHANGED <<rowVars, threadVars, confCache, bannerStore, countCache, phase, missed,
                     bannerPatch, writes, disconnects>>
  BY DEF ReadBoard, rowVars, threadVars, copyVars, goroutineVars
<1>2. /\ pending' \in [Channel -> Seq(Nat \cup {None})]
      /\ pending["board_updated"] # <<>>
      /\ pending'["board_updated"] = Tail(pending["board_updated"])
      /\ phase["board_updated"] \in {"listening", "ended"}
      /\ \A d \in Channel \ {"board_updated"} :
            pending'[d] = pending[d] /\ (UpToDate(d)' <=> UpToDate(d))
      /\ UpToDate("board_updated")' => "board_updated" \notin missed
      /\ \A d \in Channel : phase[d] \in {"cold", "loaded"} => pending'[d] = <<>>
  BY <1>0, <1>1, Taken
<1>3. Held'
  <2>1. boardCache' \in Conf \cup {None} /\ overwritten' \in BOOLEAN
    BY <1>0, <1>1 DEF Held
  <2>2. boardUpdate' \in {Idle} \cup [at : {"read"}, revision : Nat]
                              \cup [at : {"ready"}, conf : Conf]
    BY <1>0, <1>1 DEF Held, CachesTypeOK
  <2>3. CachesTypeOK'
    BY <1>0, <1>1, <1>2, <2>1 DEF Held, CachesTypeOK, Conf, rowVars, threadVars
  <2>4. pending'["new_post_in_thread"] \in Seq(Nat)
    BY <1>0, <1>2 DEF Held
  <2> QED BY <1>0, <1>1, <1>2, <2>1, <2>2, <2>3, <2>4 DEF Held, threadVars
<1>4. Loading'
  BY <1>0, <1>1, <1>2 DEF Loading, goroutineVars
<1>5. Followed'
  BY <1>0, <1>1, <1>2 DEF Followed, rowVars
<1>6. Boards'
  <2>1. Idle.at = "idle"
    BY DEF Idle
  <2>2. CASE board = None /\ boardCache' = None /\ boardUpdate' = boardUpdate
    BY <1>0, <1>1, <2>1, <2>2 DEF Boards, rowVars
  <2>3. CASE board # None /\ boardUpdate' = [at |-> "read", revision |-> board]
             /\ boardCache' = boardCache /\ overwritten' = overwritten
    BY <1>0, <1>1, <2>1, <2>3 DEF Boards, rowVars
  <2> QED BY <1>1, <2>2, <2>3
<1>7. Counts'
  BY <1>0, <1>1, <1>2, CountsSame DEF threadVars
<1> QED BY <1>3, <1>4, <1>5, <1>6, <1>7 DEF CopyInv

\* The banners for it are read from the store.
LEMMA ReadTypesKeeps ==
    ASSUME CopyInv, ReadTypes PROVE CopyInv'
<1> USE CachesAssumption, Channels
<1>0. Held /\ Loading /\ Followed /\ Boards /\ Counts
  BY DEF CopyInv
<1>1. /\ boardUpdate.at = "read"
      /\ boardUpdate' = [at |-> "ready", conf |-> [revision |-> boardUpdate.revision,
                                                   banners |-> bannerStore]]
      /\ UNCHANGED <<rowVars, threadVars, copyVars, phase, pending, missed, bannerPatch,
                     overwritten, writes, disconnects>>
  BY DEF ReadTypes, rowVars, threadVars, copyVars, goroutineVars
<1>3. Held'
  BY <1>0, <1>1 DEF Held, CachesTypeOK, Conf, Idle, rowVars, threadVars, copyVars
<1>4. Loading'
  BY <1>0, <1>1 DEF Loading, copyVars, Held, Idle
<1>5. Followed'
  BY <1>0, <1>1 DEF Followed, UpToDate, rowVars, copyVars
<1>6. Boards'
  BY <1>0, <1>1 DEF Boards, UpToDate, Idle, rowVars, copyVars
<1>7. Counts'
  BY <1>0, <1>1, CountsSame DEF threadVars, copyVars
<1> QED BY <1>3, <1>4, <1>5, <1>6, <1>7 DEF CopyInv

\* The new configuration of the board is set.
LEMMA SetBoardConfigsKeeps ==
    ASSUME CopyInv, SetBoardConfigs PROVE CopyInv'
<1> USE CachesAssumption, Channels
<1>0. Held /\ Loading /\ Followed /\ Boards /\ Counts
  BY DEF CopyInv
<1>1. /\ boardUpdate.at = "ready" /\ boardCache' = boardUpdate.conf /\ boardUpdate' = Idle
      /\ overwritten' = (boardUpdate.conf.banners # bannerStore)
      /\ UNCHANGED <<rowVars, threadVars, confCache, bannerStore, countCache, phase, pending,
                     missed, bannerPatch, writes, disconnects>>
  BY DEF SetBoardConfigs, rowVars, threadVars, copyVars, goroutineVars
<1>3. Held'
  BY <1>0, <1>1 DEF Held, CachesTypeOK, Conf, Idle, rowVars, threadVars
<1>4. Loading'
  BY <1>0, <1>1 DEF Loading, Held, Idle
<1>5. Followed'
  BY <1>0, <1>1 DEF Followed, UpToDate, rowVars
<1>6. Boards'
  <2>1. boardUpdate.conf \in Conf /\ boardUpdate' = Idle /\ Idle.at = "idle"
    BY <1>0, <1>1 DEF Held, Idle
  <2>2. boardUpdate.conf # None
    BY <2>1 DEF Conf
  <2>3. UpToDate("board_updated")' => UpToDate("board_updated") /\ board \in Nat
    BY <1>0, <1>1, <2>1 DEF UpToDate, Boards, Conf
  <2> QED BY <1>0, <1>1, <2>1, <2>2, <2>3 DEF Boards, rowVars
<1>7. Counts'
  BY <1>0, <1>1, CountsSame DEF threadVars
<1> QED BY <1>3, <1>4, <1>5, <1>6, <1>7 DEF CopyInv

\* The banners are read again.
LEMMA UpdateBannersKeeps ==
    ASSUME CopyInv, UpdateBanners PROVE CopyInv'
<1> USE CachesAssumption, Channels
<1>0. Held /\ Loading /\ Followed /\ Boards /\ Counts
  BY DEF CopyInv
<1>1. /\ bannerPatch = Idle /\ Received("banners_updated") /\ bannerStore' = banners
      /\ bannerPatch' = [at |-> "stored"]
      /\ UNCHANGED <<rowVars, threadVars, confCache, boardCache, countCache, phase, missed,
                     boardUpdate, overwritten, writes, disconnects>>
  BY DEF UpdateBanners, rowVars, threadVars, copyVars, goroutineVars
<1>2. /\ pending' \in [Channel -> Seq(Nat \cup {None})]
      /\ pending["banners_updated"] # <<>>
      /\ pending'["banners_updated"] = Tail(pending["banners_updated"])
      /\ phase["banners_updated"] \in {"listening", "ended"}
      /\ \A d \in Channel \ {"banners_updated"} :
            pending'[d] = pending[d] /\ (UpToDate(d)' <=> UpToDate(d))
      /\ UpToDate("banners_updated")' => "banners_updated" \notin missed
      /\ \A d \in Channel : phase[d] \in {"cold", "loaded"} => pending'[d] = <<>>
  BY <1>0, <1>1, Taken
<1>3. Held'
  BY <1>0, <1>1, <1>2 DEF Held, CachesTypeOK, rowVars, threadVars
<1>4. Loading'
  BY <1>0, <1>1, <1>2 DEF Loading
<1>5. Followed'
  BY <1>0, <1>1, <1>2 DEF Followed, rowVars
<1>6. Boards'
  BY <1>0, <1>1, <1>2 DEF Boards, rowVars, Idle
<1>7. Counts'
  BY <1>0, <1>1, <1>2, CountsSame DEF threadVars
<1> QED BY <1>3, <1>4, <1>5, <1>6, <1>7 DEF CopyInv

\* The copy of the board is copied, if there is one.
LEMMA CopyBoardKeeps ==
    ASSUME CopyInv, CopyBoard PROVE CopyInv'
<1> USE CachesAssumption, Channels
<1>0. Held /\ Loading /\ Followed /\ Boards /\ Counts
  BY DEF CopyInv
<1>1. /\ bannerPatch.at = "stored"
      /\ bannerPatch' = IF boardCache = None THEN Idle
                       ELSE [at |-> "copied", conf |-> boardCache]
      /\ UNCHANGED <<rowVars, threadVars, copyVars, phase, pending, missed, boardUpdate,
                     overwritten, writes, disconnects>>
  BY DEF CopyBoard, rowVars, threadVars, copyVars, goroutineVars
<1>3. Held'
  BY <1>0, <1>1 DEF Held, CachesTypeOK, Conf, Idle, rowVars, threadVars, copyVars
<1>4. Loading'
  BY <1>0, <1>1 DEF Loading, copyVars, Held, Idle
<1>5. Followed'
  BY <1>0, <1>1 DEF Followed, UpToDate, rowVars, copyVars
<1>6. Boards'
  BY <1>0, <1>1 DEF Boards, UpToDate, Idle, rowVars, copyVars
<1>7. Counts'
  BY <1>0, <1>1, CountsSame DEF threadVars, copyVars
<1> QED BY <1>3, <1>4, <1>5, <1>6, <1>7 DEF CopyInv

\* It is put back with the new banners.
LEMMA PatchBoardKeeps ==
    ASSUME CopyInv, PatchBoard PROVE CopyInv'
<1> USE CachesAssumption, Channels
<1>0. Held /\ Loading /\ Followed /\ Boards /\ Counts
  BY DEF CopyInv
<1>1. /\ bannerPatch.at = "copied"
      /\ boardCache' = [bannerPatch.conf EXCEPT !.banners = bannerStore]
      /\ bannerPatch' = Idle
      /\ overwritten' = (overwritten \/ bannerPatch.conf # boardCache)
      /\ UNCHANGED <<rowVars, threadVars, confCache, bannerStore, countCache, phase, pending,
                     missed, boardUpdate, writes, disconnects>>
  BY DEF PatchBoard, rowVars, threadVars, copyVars, goroutineVars
<1>2. /\ bannerPatch.conf \in Conf
      /\ boardCache' \in Conf /\ boardCache' # None
      /\ boardCache'.revision = bannerPatch.conf.revision /\ boardCache'.banners = bannerStore
  <2>1. bannerPatch.conf \in Conf /\ bannerStore \in Nat \cup {None}
    BY <1>0, <1>1 DEF Held, CachesTypeOK, Idle
  <2>2. boardCache' \in Conf /\ boardCache'.revision = bannerPatch.conf.revision
        /\ boardCache'.banners = bannerStore
    BY <1>1, <2>1 DEF Conf
  <2> QED BY <2>1, <2>2 DEF Conf
<1>3. Held'
  <2>1. CachesTypeOK'
    BY <1>0, <1>1, <1>2 DEF Held, CachesTypeOK, Conf, rowVars, threadVars
  <2>2. overwritten' \in BOOLEAN
    BY <1>0, <1>1 DEF Held
  <2> QED BY <1>0, <1>1, <1>2, <2>1, <2>2 DEF Held, threadVars
<1>4. Loading'
  BY <1>0, <1>1 DEF Loading, Held, Idle
<1>5. Followed'
  BY <1>0, <1>1 DEF Followed, UpToDate, rowVars
<1>6. Boards'
  <2>1. UpToDate("board_updated")' => UpToDate("board_updated")
    BY <1>1 DEF UpToDate
  <2>2. ~overwritten' => ~overwritten /\ bannerPatch.conf = boardCache
    BY <1>1
  <2>3. bannerPatch.conf # None
    BY <1>2 DEF Conf
  <2> QED BY <1>0, <1>1, <1>2, <2>1, <2>2, <2>3 DEF Boards, rowVars
<1>7. Counts'
  BY <1>0, <1>1, CountsSame DEF threadVars
<1> QED BY <1>3, <1>4, <1>5, <1>6, <1>7 DEF CopyInv

\* The count of a deleted thread is deleted.
LEMMA DeleteCountKeeps ==
    ASSUME CopyInv, DeleteCount PROVE CopyInv'
<1> USE CachesAssumption, Channels
<1>0. Held /\ Loading /\ Followed /\ Boards /\ Counts
  BY DEF CopyInv
<1>1. /\ Received("thread_deleted") /\ countCache' = None
      /\ UNCHANGED <<rowVars, threadVars, confCache, bannerStore, boardCache, phase, missed,
                     goroutineVars, writes, disconnects>>
  BY DEF DeleteCount, rowVars, threadVars, copyVars, goroutineVars
<1>2. /\ pending' \in [Channel -> Seq(Nat \cup {None})]
      /\ pending["thread_deleted"] # <<>>
      /\ pending'["thread_deleted"] = Tail(pending["thread_deleted"])
      /\ phase["thread_deleted"] \in {"listening", "ended"}
      /\ \A d \in Channel \ {"thread_deleted"} :
            pending'[d] = pending[d] /\ (UpToDate(d)' <=> UpToDate(d))
      /\ UpToDate("thread_deleted")' => "thread_deleted" \notin missed
      /\ \A d \in Channel : phase[d] \in {"cold", "loaded"} => pending'[d] = <<>>
  BY <1>0, <1>1, Taken
<1>3. Held'
  BY <1>0, <1>1, <1>2 DEF Held, CachesTypeOK, rowVars, threadVars, goroutineVars
<1>4. Loading'
  BY <1>0, <1>1, <1>2 DEF Loading, goroutineVars
<1>5. Followed'
  BY <1>0, <1>1, <1>2 DEF Followed, rowVars
<1>6. Boards'
  BY <1>0, <1>1, <1>2 DEF Boards, rowVars, goroutineVars
<1>7. Counts'
  BY <1>0, <1>1, <1>2 DEF Counts, threadVars
<1> QED BY <1>3, <1>4, <1>5, <1>6, <1>7 DEF CopyInv

\* A count is received.
LEMMA SetCountKeeps ==
    ASSUME CopyInv, SetCount PROVE CopyInv'
<1> USE CachesAssumption, Channels
<1>0. Held /\ Loading /\ Followed /\ Boards /\ Counts
  BY DEF CopyInv
<1>1. /\ Received("new_post_in_thread") /\ countCache' = Head(pending["new_post_in_thread"])
      /\ UNCHANGED <<rowVars, threadVars, confCache, bannerStore, boardCache, phase, missed,
                     goroutineVars, writes, disconnects>>
  BY DEF SetCount, rowVars, threadVars, copyVars, goroutineVars
<1>2. /\ pending' \in [Channel -> Seq(Nat \cup {None})]
      /\ pending["new_post_in_thread"] # <<>>
      /\ pending'["new_post_in_thread"] = Tail(pending["new_post_in_thread"])
      /\ phase["new_post_in_thread"] \in {"listening", "ended"}
      /\ \A d \in Channel \ {"new_post_in_thread"} :
            pending'[d] = pending[d] /\ (UpToDate(d)' <=> UpToDate(d))
      /\ UpToDate("new_post_in_thread")' => "new_post_in_thread" \notin missed
      /\ \A d \in Channel : phase[d] \in {"cold", "loaded"} => pending'[d] = <<>>
  BY <1>0, <1>1, Taken
<1>3. Held'
  <2>1. countCache' \in Nat /\ pending'["new_post_in_thread"] \in Seq(Nat)
    BY <1>0, <1>1, <1>2, HeadTailProperties DEF Held
  <2> QED BY <1>0, <1>1, <1>2, <2>1 DEF Held, CachesTypeOK, rowVars, threadVars, goroutineVars
<1>4. Loading'
  BY <1>0, <1>1, <1>2 DEF Loading, goroutineVars
<1>5. Followed'
  BY <1>0, <1>1, <1>2 DEF Followed, rowVars
<1>6. Boards'
  BY <1>0, <1>1, <1>2 DEF Boards, rowVars, goroutineVars
<1>7. Counts'
  <2> DEFINE sent == pending["new_post_in_thread"]
  <2>1. sent \in Seq(Nat) /\ sent # <<>>
    BY <1>0, <1>2 DEF Held
  <2>2. /\ Len(Tail(sent)) = Len(sent) - 1
        /\ \A i \in 1..Len(Tail(sent)) : Tail(sent)[i] = sent[i + 1]
    BY <2>1, HeadTailProperties
  <2>3. Head(sent) = sent[1] /\ Len(sent) \in Nat \ {0}
    BY <2>1, HeadTailProperties, LenProperties, EmptySeq
  <2>4. Tail(sent) = <<>> <=> Len(sent) = 1
    <3>1. Tail(sent) \in Seq(Nat)
      BY <2>1, HeadTailProperties
    <3>2. Tail(sent) = <<>> <=> Len(Tail(sent)) = 0
      BY <3>1, EmptySeq
    <3>3. Len(Tail(sent)) = 0 <=> Len(sent) = 1
      BY <2>2, <2>3
    <3> QED BY <3>2, <3>3
  <2>5. \A i \in 1..Len(Tail(sent)) : i + 1 \in 1..Len(sent)
    BY <2>2, <2>3
  <2>6. thread # None => /\ sent[1] <= thread
                         /\ \A i \in 1..Len(Tail(sent)) : Tail(sent)[i] <= thread
    BY <1>0, <2>2, <2>3, <2>5 DEF Counts
  <2>7. Tail(sent) # <<>> => Tail(sent)[Len(Tail(sent))] = sent[Len(sent)]
    BY <2>2, <2>3, <2>4
  <2> HIDE DEF sent
  <2> QED BY <1>0, <1>1, <1>2, <2>1, <2>3, <2>4, <2>6, <2>7 DEF Counts, threadVars, sent
<1> QED BY <1>3, <1>4, <1>5, <1>6, <1>7 DEF CopyInv

\* Nothing is copied yet.
LEMMA CopyInvInit == CachesInit => CopyInv
<1> SUFFICES ASSUME CachesInit PROVE CopyInv
  OBVIOUS
<1> USE CachesAssumption, Channels, EmptySeq
<1>1. Held
  BY DEF CachesInit, Held, CachesTypeOK, Idle
<1>2. Loading
  BY DEF CachesInit, Loading, Idle
<1>3. Followed /\ Boards
  BY DEF CachesInit, Followed, Boards, UpToDate
<1>4. Counts
  BY DEF CachesInit, Counts, Idle
<1> QED BY <1>1, <1>2, <1>3, <1>4 DEF CopyInv

\* Every step of the copies keeps it.
LEMMA CopyInvNext == CopyInv /\ [CachesNext]_cacheVars => CopyInv'
<1> SUFFICES ASSUME CopyInv, [CachesNext]_cacheVars PROVE CopyInv'
  OBVIOUS
<1>1. CASE CachesLoad
  BY <1>1, LoadConfigsKeeps, LoadBannersKeeps, LoadThreadPostCountsKeeps, LoadBoardConfigsKeeps,
     ListenKeeps DEF CachesLoad
<1>2. CASE Handle
  BY <1>2, UpdateConfigsKeeps, ReadBoardKeeps, ReadTypesKeeps, SetBoardConfigsKeeps,
     UpdateBannersKeeps, CopyBoardKeeps, PatchBoardKeeps, DeleteCountKeeps, SetCountKeeps
     DEF Handle
<1>3. CASE WriteConfigs \/ WriteBoard \/ SetBanners \/ DeleteThread
  BY <1>3, WriteConfigsKeeps, WriteBoardKeeps, SetBannersKeeps, DeleteThreadKeeps
<1>4. ASSUME NEW p \in Poster, BumpThread(p) \/ CountPosts(p) \/ CommitPost(p) PROVE CopyInv'
  BY <1>4, BumpThreadKeeps, CountPostsKeeps, CommitPostKeeps
<1>5. ASSUME NEW c \in Channel, Disconnect(c) PROVE CopyInv'
  BY <1>5, DisconnectKeeps
<1>6. CASE UNCHANGED cacheVars
  <2>1. UNCHANGED <<config, board, banners, thread, insert, threadLock, confCache, bannerStore,
                    boardCache, countCache, phase, pending, missed, boardUpdate, bannerPatch,
                    overwritten, writes, disconnects>>
    BY <1>6 DEF cacheVars, rowVars, threadVars, copyVars, goroutineVars
  <2>2. Held'
    BY <2>1 DEF CopyInv, Held, CachesTypeOK
  <2>3. Loading' /\ Followed' /\ Boards'
    BY <2>1 DEF CopyInv, Loading, Followed, Boards, UpToDate
  <2>4. Counts'
    BY <2>1, CountsSame DEF CopyInv
  <2> QED BY <2>2, <2>3, <2>4 DEF CopyInv
<1> QED BY <1>1, <1>2, <1>3, <1>4, <1>5, <1>6 DEF CachesNext

\* At rest the copies agree with their rows.
LEMMA CopyInvFollows == CopyInv => CopiesFollow
<1> SUFFICES ASSUME CopyInv PROVE CopiesFollow
  OBVIOUS
<1> USE CachesAssumption, Channels
<1>1. \A c \in Channel : Settled(c) => UpToDate(c)
  BY DEF Settled, UpToDate
<1>2. CopiesAgree
  BY <1>1 DEF CopyInv, Followed, CopiesAgree
<1>3. BoardAgrees
  <2> SUFFICES ASSUME Settled("board_updated"), Settled("banners_updated"),
                      boardUpdate = Idle, bannerPatch = Idle, ~overwritten
               PROVE boardCache = IF board = None THEN None
                                  ELSE [revision |-> board, banners |-> banners]
    BY DEF BoardAgrees
  <2>1. CASE board = None
    BY <1>1, <2>1 DEF CopyInv, Boards
  <2>2. CASE board # None
    <3>1. boardCache # None /\ boardCache.revision = board /\ boardCache.banners = bannerStore
      BY <1>1, <2>2 DEF CopyInv, Boards
    <3>2. bannerStore = banners
      BY <1>1 DEF CopyInv, Followed
    <3>3. boardCache \in Conf
      BY <3>1 DEF CopyInv, Held
    <3> QED BY <2>2, <3>1, <3>2, <3>3 DEF Conf
  <2> QED BY <2>1, <2>2
<1>4. CountAgrees
  <2> SUFFICES ASSUME thread # None
               PROVE /\ Settled("new_post_in_thread") => countCache = thread
                     /\ countCache # None => countCache <= thread
    BY DEF CountAgrees
  <2> QED BY <1>1 DEF CopyInv, Counts, UpToDate
<1> QED BY <1>2, <1>3, <1>4 DEF CopyInv, Held, CopiesFollow

\* However the loading, the writes of the rows, the notifications and the
\* goroutines of the listeners interleave, and whatever connections are lost, a
\* copy agrees with its row when its listener has missed nothing and has nothing
\* left to handle (db/config.go, db/threads.go).
THEOREM CopiesFollowRows == ServerSpec => []CopiesFollow
<1>1. ServerInit => CopyInv
  BY CopyInvInit DEF ServerInit
<1>2. CopyInv /\ [ServerNext]_serverVars => CopyInv'
  BY CopyInvNext DEF ServerNext, serverVars
<1>3. CopyInv => CopiesFollow
  BY CopyInvFollows
<1> QED BY <1>1, <1>2, <1>3, PTL DEF ServerSpec

=============================================================================

------------------------------- MODULE Server -------------------------------
(***************************************************************************)
(* A server's life on its database: the start of Startup, then, once the   *)
(* database is current, the copies of rows of Caches, which the loaders of *)
(* loadDB fill and the listeners renew.                                    *)
(***************************************************************************)
EXTENDS Startup, Caches

serverVars == <<startupVars, cacheVars>>

\* No copy has been loaded yet
Cold == \A c \in Channel : phase[c] = "cold"

\* Bound: the copies are followed in the starts where every process has come to
\* serve the current database and none was killed
CachesRun == /\ \A p \in Proc : pc[p] = "serve"
             /\ Current
             /\ kills = 0

ServerInit == StartupInit /\ CachesInit

ServerNext == \/ Cold /\ StartupNext /\ UNCHANGED cacheVars
              \/ CachesRun /\ CachesNext /\ UNCHANGED startupVars

\* The starts are fair; nothing is said of when copies are renewed
ServerSpec == ServerInit /\ [][ServerNext]_serverVars /\ StartupFairness

(***************************************************************************)
(* Properties.                                                             *)
(***************************************************************************)
\* Whatever starts, overlaps and is killed, the migrations committed are those
\* of the list, each once and in order, the version row counts them (the for
\* update lock of runMigrations), and one process at most holds that row
EveryMigrationOnce ==
    /\ StartupTypeOK
    /\ MigratedInOrder
    /\ \A p \in Proc : pc[p] = "locked" <=> lock = p

\* A database that is served was brought there by statements that Postgres never
\* refused, and has all that the code of the build relies on
ServedDatabase == NoStatementRefused /\ ServedSchema /\ ServedRows

\* The copies agree with their rows whenever nothing is on its way to them
CopiesFollow == CachesTypeOK /\ CopiesAgree /\ BoardAgrees /\ CountAgrees
=============================================================================

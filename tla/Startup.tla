------------------------------- MODULE Startup -------------------------------
(***************************************************************************)
(* What cmd/licenseserver does before it serves: repository.Migrate and    *)
(* admin.EnsureBootstrapAdmin.  Several instances, of the same or of       *)
(* different releases, start against one database at any time and may stop *)
(* at any step; a stopped one is started again (docker-compose.yml,        *)
(* "restart: unless-stopped").                                             *)
(*                                                                         *)
(* Both operations look first and act afterwards, and neither takes a lock *)
(* in between.  What keeps two instances apart is the database: the        *)
(* scripts' DDL, which waits for an uncommitted one and fails on what is   *)
(* already there, and the unique key of admin_users.username.              *)
(***************************************************************************)
EXTENDS Integers, FiniteSets

CONSTANTS
    Instances,        \* server processes that share the database
    LastMigration,    \* migrations are 1..LastMigration, in filename order
    Files,            \* Files[i]: i's directory holds migrations 1..Files[i]
    BootstrapAdmin,   \* BootstrapAdmin[i]: username in i's BOOTSTRAP_ADMIN
    Unset,            \* BOOTSTRAP_ADMIN is not set
    MaxCrashes        \* bound: stops other than an instance's own log.Fatalf

Migrations == 1..LastMigration

ASSUME StartupAssumption ==
    /\ LastMigration \in Nat
    /\ Files \in [Instances -> 1..LastMigration]
    /\ MaxCrashes \in Nat

VARIABLES
    tracked,    \* the table schema_migrations exists
    versions,   \* its rows
    applied,    \* applied[k]: how often the statements of k were committed
    admins,     \* instances whose bootstrap account is in admin_users
    pc,         \* pc[i]: what instance i does next
    next,       \* next[i]: position of i in its sorted list of files
    crashes     \* stops so far

database == <<tracked, versions, applied, admins>>
vars == <<tracked, versions, applied, admins, pc, next, crashes>>

Steps == {"down", "track", "create", "check", "apply", "record",
          "count", "insert", "serving"}

TypeOK ==
    /\ tracked \in BOOLEAN
    /\ versions \subseteq Migrations
    /\ applied \in [Migrations -> Nat]
    /\ admins \subseteq Instances
    /\ pc \in [Instances -> Steps]
    /\ next \in [Instances -> 1..LastMigration + 1]
    /\ crashes \in 0..MaxCrashes

Init ==
    /\ tracked = FALSE
    /\ versions = {}
    /\ applied = [k \in Migrations |-> 0]
    /\ admins = {}
    /\ pc = [i \in Instances |-> "down"]
    /\ next = [i \in Instances |-> 1]
    /\ crashes = 0

-----------------------------------------------------------------------------
GoTo(i, step) == pc' = [pc EXCEPT ![i] = step]

(* log.Fatalf: the transaction that is open, if any, rolls back.           *)
Fatal(i) ==
    /\ GoTo(i, "down")
    /\ UNCHANGED <<database, next, crashes>>

(* The process starts and connects (repository.Open).                      *)
Boot(i) ==
    /\ pc[i] = "down"
    /\ GoTo(i, "track")
    /\ next' = [next EXCEPT ![i] = 1]
    /\ UNCHANGED <<database, crashes>>

-----------------------------------------------------------------------------
(* repository.Migrate                                                      *)

(* CREATE TABLE IF NOT EXISTS schema_migrations looks for the table, ...   *)
LookForTable(i) ==
    /\ pc[i] = "track"
    /\ GoTo(i, IF tracked THEN "check" ELSE "create")
    /\ UNCHANGED <<database, next, crashes>>

(* ... and creates it, ...                                                 *)
CreateTable(i) ==
    /\ pc[i] = "create"
    /\ ~tracked
    /\ tracked' = TRUE
    /\ GoTo(i, "check")
    /\ UNCHANGED <<versions, applied, admins, next, crashes>>

(* ... or fails on the catalog's unique index when it has appeared since.  *)
CreateTableFails(i) ==
    /\ pc[i] = "create"
    /\ tracked
    /\ Fatal(i)

FilesLeftButLast(i) == next[i] < Files[i]

FilesLeft(i) == next[i] <= Files[i]

AlreadyAppliedNever(k) == FALSE

AlreadyApplied(k) == k \in versions

(* SELECT COUNT FROM schema_migrations, once per file                      *)
SkipMigration(i) ==
    /\ pc[i] = "check"
    /\ FilesLeft(i)
    /\ AlreadyApplied(next[i])
    /\ next' = [next EXCEPT ![i] = @ + 1]
    /\ UNCHANGED <<database, pc, crashes>>

BeginMigration(i) ==
    /\ pc[i] = "check"
    /\ FilesLeft(i)
    /\ ~AlreadyApplied(next[i])
    /\ GoTo(i, "apply")
    /\ UNCHANGED <<database, next, crashes>>

(* A script starts with CREATE TABLE or ALTER TABLE ADD COLUMN: it waits   *)
(* while another transaction has executed it and not ended, ...            *)
ScriptFree(k) == \A j \in Instances : pc[j] = "record" => next[j] # k

(* ... and fails when its tables and columns are there.                    *)
SchemaClashNever(k) == FALSE

SchemaClash(k) == applied[k] > 0

ApplyScriptRecordedOutside(i) ==
    /\ pc[i] = "apply"
    /\ ScriptFree(next[i])
    /\ ~SchemaClash(next[i])
    /\ versions' = versions \cup {next[i]}
    /\ GoTo(i, "record")
    /\ UNCHANGED <<tracked, applied, admins, next, crashes>>

(* tx.Exec(script).  What it did is visible when the transaction commits.  *)
ApplyScript(i) ==
    /\ pc[i] = "apply"
    /\ ScriptFree(next[i])
    /\ ~SchemaClash(next[i])
    /\ GoTo(i, "record")
    /\ UNCHANGED <<database, next, crashes>>

ApplyFails(i) ==
    /\ pc[i] = "apply"
    /\ ScriptFree(next[i])
    /\ SchemaClash(next[i])
    /\ Fatal(i)

(* INSERT INTO schema_migrations in the same transaction, and tx.Commit    *)
RecordVersion(i) ==
    /\ pc[i] = "record"
    /\ versions' = versions \cup {next[i]}
    /\ applied' = [applied EXCEPT ![next[i]] = @ + 1]
    /\ next' = [next EXCEPT ![i] = @ + 1]
    /\ GoTo(i, "check")
    /\ UNCHANGED <<tracked, admins, crashes>>

(* Migrate returns: main goes on to the bootstrap account, or serves.      *)
MigrateDone(i) ==
    /\ pc[i] = "check"
    /\ ~FilesLeft(i)
    /\ GoTo(i, IF BootstrapAdmin[i] = Unset THEN "serving" ELSE "count")
    /\ UNCHANGED <<database, next, crashes>>

-----------------------------------------------------------------------------
(* admin.EnsureBootstrapAdmin                                              *)

(* SELECT COUNT FROM admin_users                                           *)
CountAdmins(i) ==
    /\ pc[i] = "count"
    /\ GoTo(i, IF admins = {} THEN "insert" ELSE "serving")
    /\ UNCHANGED <<database, next, crashes>>

UsernameTakenUnchecked(i) == FALSE

UsernameTaken(i) == \E j \in admins : BootstrapAdmin[j] = BootstrapAdmin[i]

(* INSERT INTO admin_users, after the password was hashed                  *)
InsertAdmin(i) ==
    /\ pc[i] = "insert"
    /\ ~UsernameTaken(i)
    /\ admins' = admins \cup {i}
    /\ GoTo(i, "serving")
    /\ UNCHANGED <<tracked, versions, applied, next, crashes>>

InsertFails(i) ==
    /\ pc[i] = "insert"
    /\ UsernameTaken(i)
    /\ Fatal(i)

-----------------------------------------------------------------------------
(* The process is stopped or loses its connection, before or after the     *)
(* statement it was sending took effect.                                   *)
Crash(i) ==
    /\ pc[i] # "down"
    /\ crashes < MaxCrashes
    /\ crashes' = crashes + 1
    /\ GoTo(i, "down")
    /\ UNCHANGED <<database, next>>

Migrate(i) ==
    \/ LookForTable(i) \/ CreateTable(i) \/ CreateTableFails(i)
    \/ SkipMigration(i) \/ BeginMigration(i)
    \/ ApplyScript(i) \/ ApplyFails(i) \/ RecordVersion(i) \/ MigrateDone(i)

EnsureBootstrapAdmin(i) ==
    CountAdmins(i) \/ InsertAdmin(i) \/ InsertFails(i)

main(i) == Boot(i) \/ Migrate(i) \/ EnsureBootstrapAdmin(i)

Next == \E i \in Instances : main(i) \/ Crash(i)

Spec == Init /\ [][Next]_vars

(* Docker restarts what has stopped and a running process goes on.         *)
FairSpec == Spec /\ \A i \in Instances : WF_vars(main(i))

-----------------------------------------------------------------------------
(* What an instance is to the outside, and what start-up promises of it    *)

Phase(step) ==
    IF step \in {"down", "serving"} THEN step ELSE "starting"

History ==
    INSTANCE SchemaHistory WITH
        schema <- {k \in Migrations : applied[k] > 0},
        accounts <- {BootstrapAdmin[i] : i \in admins},
        at <- [i \in Instances |-> Phase(pc[i])]

-----------------------------------------------------------------------------
(* Properties                                                              *)

(***************************************************************************)
(* A script takes effect at most once, however many instances execute it   *)
(* and wherever they stop (db.go, Migrate).                                *)
(***************************************************************************)
AppliedOnce == \A k \in Migrations : applied[k] <= 1

(***************************************************************************)
(* schema_migrations tells exactly which scripts took effect: no stop      *)
(* leaves a script applied and not recorded, which no later start could    *)
(* get past, or recorded and not applied (db.go, one transaction).         *)
(***************************************************************************)
VersionsTellSchema == versions = {k \in Migrations : applied[k] > 0}

(***************************************************************************)
(* An instance that serves requests has the whole schema of its release    *)
(* and, when it was given a bootstrap account, somebody can log in         *)
(* (main.go: Migrate, EnsureBootstrapAdmin, ListenAndServe).               *)
(***************************************************************************)
ServingIsReady ==
    \A i \in Instances : pc[i] = "serving" =>
        /\ \A k \in 1..Files[i] : applied[k] > 0
        /\ BootstrapAdmin[i] # Unset => admins # {}

(***************************************************************************)
(* However instances of several releases race, fail and start again, the   *)
(* schema grows by whole migrations in the order of their files, none of   *)
(* them twice, and whoever serves was ready when it began to (db.go,       *)
(* Migrate; main.go).                                                      *)
(***************************************************************************)
HistoryRefined == History!Spec

(***************************************************************************)
(* EnsureBootstrapAdmin "creates the given admin account if (and only if)  *)
(* admin_users is currently empty" (admin.go:50).  It holds when all       *)
(* instances are given the same username; between instances that are not,  *)
(* the count and the insert are too far apart.                             *)
(***************************************************************************)
BootstrapOnlyIntoEmpty == [][admins' # admins => admins = {}]_vars

(***************************************************************************)
(* Every instance comes to serve and stays up once the outside stops       *)
(* killing it: losing a race at start-up ends the process, but the next    *)
(* start finds the work done.                                              *)
(***************************************************************************)
EveryInstanceServes == \A i \in Instances : <>[](pc[i] = "serving")

-----------------------------------------------------------------------------
(* The inductive invariant                                                 *)

Migrating == {"check", "apply", "record"}

Migrated == {"count", "insert", "serving"}

(* The files before i's position are recorded, from the first check on.    *)
PositionInv ==
    \A i \in Instances :
        /\ pc[i] \in {"track", "create"} => next[i] = 1
        /\ pc[i] \in Migrating \cup Migrated => 1..(next[i] - 1) \subseteq versions
        /\ pc[i] \in {"apply", "record"} => next[i] \in 1..Files[i]
        /\ pc[i] \in Migrated => next[i] > Files[i]

(* A script executed and not committed has not been applied, and one       *)
(* transaction at a time has executed it.                                  *)
ScriptInv ==
    \A i \in Instances : pc[i] = "record" =>
        /\ applied[next[i]] = 0
        /\ \A j \in Instances : pc[j] = "record" /\ next[j] = next[i] => j = i

AccountInv ==
    \A i \in Instances :
        pc[i] = "serving" /\ BootstrapAdmin[i] # Unset => admins # {}

IInv ==
    /\ TypeOK
    /\ AppliedOnce
    /\ VersionsTellSchema
    /\ PositionInv
    /\ ScriptInv
    /\ AccountInv
==============================================================================

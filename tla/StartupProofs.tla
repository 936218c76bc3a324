---------------------------- MODULE StartupProofs ----------------------------
(***************************************************************************)
(* Theorems about Startup for any instances, releases and stops: the       *)
(* inductive invariant IInv, the safety properties it gives, and that      *)
(* Startup implements SchemaHistory.                                       *)
(***************************************************************************)
EXTENDS Startup, TLAPS

USE DEF GoTo, database

(***************************************************************************)
(* Before anything has run, IInv holds.                                    *)
(***************************************************************************)
LEMMA InitInv == Init => IInv
<1> SUFFICES ASSUME Init PROVE IInv
    OBVIOUS
<1>1. TypeOK
    <2>1. next \in [Instances -> 1..LastMigration + 1]
        BY StartupAssumption DEF Init
    <2>2. crashes \in 0..MaxCrashes
        BY StartupAssumption DEF Init
    <2> QED
        BY <2>1, <2>2 DEF Init, TypeOK, Steps
<1>2. AppliedOnce /\ VersionsTellSchema
    BY DEF Init, AppliedOnce, VersionsTellSchema
<1>3. PositionInv /\ ScriptInv /\ AccountInv
    BY DEF Init, PositionInv, Migrating, Migrated, ScriptInv, AccountInv
<1> QED
    BY <1>1, <1>2, <1>3 DEF IInv

(***************************************************************************)
(* A step that leaves the tables alone and moves instance i to another     *)
(* statement keeps IInv, when i is where the new statement requires it.    *)
(* Every step but CREATE TABLE, a commit and an inserted account is one.   *)
(***************************************************************************)
LEMMA MoveKeepsInv ==
    ASSUME IInv,
           NEW i \in Instances,
           NEW s \in Steps,
           NEW p \in 1..LastMigration + 1,
           pc' = [pc EXCEPT ![i] = s],
           next' = [next EXCEPT ![i] = p],
           crashes' \in 0..MaxCrashes,
           UNCHANGED database,
           s \in {"track", "create"} => p = 1,
           s \in Migrating \cup Migrated => 1..(p - 1) \subseteq versions,
           s \in {"apply", "record"} => p \in 1..Files[i],
           s \in Migrated => p > Files[i],
           s = "record" => applied[p] = 0 /\ ScriptFree(p),
           s = "serving" /\ BootstrapAdmin[i] # Unset => admins # {}
    PROVE  IInv'
<1>1. TypeOK'
    BY DEF IInv, TypeOK
<1>2. AppliedOnce' /\ VersionsTellSchema'
    BY DEF IInv, AppliedOnce, VersionsTellSchema
<1>3. PositionInv'
    BY DEF IInv, TypeOK, PositionInv
<1>4. ScriptInv'
    BY DEF IInv, TypeOK, ScriptInv, ScriptFree
<1>5. AccountInv'
    BY DEF IInv, TypeOK, AccountInv
<1> QED
    BY <1>1, <1>2, <1>3, <1>4, <1>5 DEF IInv

(***************************************************************************)
(* log.Fatalf and a stop keep IInv: a process that is down promises        *)
(* nothing, and its open transaction has changed nothing.                  *)
(***************************************************************************)
LEMMA DownKeepsInv ==
    ASSUME IInv,
           NEW i \in Instances,
           GoTo(i, "down"),
           UNCHANGED <<database, next>>,
           crashes' \in 0..MaxCrashes
    PROVE  IInv'
<1>1. next' = [next EXCEPT ![i] = next[i]] /\ next[i] \in 1..LastMigration + 1
    BY DEF IInv, TypeOK
<1> QED
    BY <1>1, MoveKeepsInv DEF Steps, Migrating, Migrated

(***************************************************************************)
(* A commit of Migrate keeps IInv: what was executed had not been applied, *)
(* nobody else has executed it, and its version is recorded with it.       *)
(***************************************************************************)
LEMMA RecordKeepsInv ==
    ASSUME IInv, NEW i \in Instances, RecordVersion(i)
    PROVE  IInv'
<1> DEFINE k == next[i]
<1>0. LastMigration \in Nat /\ Files[i] \in 1..LastMigration
    BY StartupAssumption
<1>1. k \in Migrations /\ k \in 1..Files[i] /\ applied[k] = 0
    <2>1. k \in 1..Files[i] /\ applied[k] = 0
        BY DEF IInv, PositionInv, ScriptInv, RecordVersion
    <2> QED
        BY <2>1, <1>0 DEF Migrations
<1>2. \A j \in Instances : j # i /\ pc[j] = "record" => next[j] # k
    BY DEF IInv, ScriptInv, RecordVersion
<1>3. 1..(k - 1) \subseteq versions
    BY DEF IInv, PositionInv, RecordVersion, Migrating
<1>4. TypeOK'
    <2>1. /\ versions' \subseteq Migrations
          /\ applied' \in [Migrations -> Nat]
        BY <1>1 DEF IInv, TypeOK, RecordVersion
    <2>2. next' \in [Instances -> 1..LastMigration + 1]
        BY <1>0, <1>1 DEF IInv, TypeOK, RecordVersion, Migrations
    <2> QED
        BY <2>1, <2>2 DEF IInv, TypeOK, RecordVersion, Steps
<1>5. AppliedOnce'
    BY <1>1 DEF IInv, TypeOK, AppliedOnce, RecordVersion
<1>6. VersionsTellSchema'
    BY <1>1 DEF IInv, TypeOK, VersionsTellSchema, RecordVersion
<1>7. PositionInv'
    <2> SUFFICES ASSUME NEW j \in Instances
                 PROVE  /\ pc'[j] \in {"track", "create"} => next'[j] = 1
                        /\ pc'[j] \in Migrating \cup Migrated
                               => 1..(next'[j] - 1) \subseteq versions'
                        /\ pc'[j] \in {"apply", "record"}
                               => next'[j] \in 1..Files[j]
                        /\ pc'[j] \in Migrated => next'[j] > Files[j]
        BY DEF PositionInv
    <2>1. CASE j = i
        <3>1. pc'[j] = "check" /\ next'[j] = k + 1
            BY <2>1 DEF IInv, TypeOK, RecordVersion
        <3>2. 1..k \subseteq versions'
            BY <1>1, <1>3 DEF RecordVersion, Migrations
        <3> QED
            BY <3>1, <3>2, <1>1 DEF Migrated, Migrations
    <2>2. CASE j # i
        BY <2>2 DEF IInv, TypeOK, PositionInv, RecordVersion
    <2> QED
        BY <2>1, <2>2
<1>8. ScriptInv'
    BY <1>1, <1>2 DEF IInv, TypeOK, ScriptInv, RecordVersion
<1>9. AccountInv'
    BY DEF IInv, TypeOK, AccountInv, RecordVersion
<1> QED
    BY <1>4, <1>5, <1>6, <1>7, <1>8, <1>9 DEF IInv

(***************************************************************************)
(* Every step keeps IInv.                                                  *)
(***************************************************************************)
LEMMA NextKeepsInv == IInv /\ [Next]_vars => IInv'
<1> SUFFICES ASSUME IInv, [Next]_vars PROVE IInv'
    OBVIOUS
<1>1. CASE UNCHANGED vars
    BY <1>1
    DEF vars, IInv, TypeOK, AppliedOnce, VersionsTellSchema, PositionInv,
        ScriptInv, AccountInv
<1>2. ASSUME NEW i \in Instances, main(i) \/ Crash(i)
      PROVE  IInv'
    <2>0. /\ next[i] \in 1..LastMigration + 1
          /\ Files[i] \in 1..LastMigration
          /\ LastMigration \in Nat
          /\ MaxCrashes \in Nat
          /\ crashes \in 0..MaxCrashes
          /\ next' = next => next' = [next EXCEPT ![i] = next[i]]
        BY StartupAssumption DEF IInv, TypeOK
    <2>1. CASE Boot(i)
        <3>1. 1 \in 1..LastMigration + 1
            BY <2>0
        <3> QED
            BY <2>0, <2>1, <3>1, MoveKeepsInv
            DEF Boot, Steps, Migrating, Migrated
    <2>2. CASE LookForTable(i)
        <3> DEFINE s == IF tracked THEN "check" ELSE "create"
        <3>1. next[i] = 1 /\ s \in Steps
            BY <2>2 DEF IInv, PositionInv, LookForTable, Steps
        <3>2. 1..(next[i] - 1) \subseteq versions
            BY <3>1
        <3>3. /\ pc' = [pc EXCEPT ![i] = s]
              /\ s \in {"check", "create"}
              /\ UNCHANGED <<database, next, crashes>>
            BY <2>2 DEF LookForTable
        <3> HIDE DEF s
        <3>4. /\ s \notin {"apply", "record"}
              /\ s \notin Migrated
              /\ s # "serving"
            BY <3>3 DEF Migrated
        <3> QED
            BY <2>0, <3>1, <3>2, <3>3, <3>4, MoveKeepsInv
    <2>3. CASE CreateTable(i)
        <3>1. next[i] = 1
            BY <2>3 DEF IInv, PositionInv, CreateTable
        <3>2. TypeOK'
            BY <2>3 DEF IInv, TypeOK, CreateTable, Steps
        <3>3. AppliedOnce' /\ VersionsTellSchema'
            BY <2>3 DEF IInv, AppliedOnce, VersionsTellSchema, CreateTable
        <3>4. PositionInv'
            BY <2>3, <3>1 DEF IInv, TypeOK, PositionInv, CreateTable,
                              Migrating, Migrated
        <3>5. ScriptInv' /\ AccountInv'
            BY <2>3 DEF IInv, TypeOK, ScriptInv, AccountInv, CreateTable
        <3> QED
            BY <3>2, <3>3, <3>4, <3>5 DEF IInv
    <2>4. CASE CreateTableFails(i) \/ ApplyFails(i) \/ InsertFails(i)
        BY <2>0, <2>4, DownKeepsInv
        DEF CreateTableFails, ApplyFails, InsertFails, Fatal
    <2>5. CASE SkipMigration(i)
        <3>1. next[i] + 1 \in 1..LastMigration + 1
            BY <2>0, <2>5 DEF SkipMigration, FilesLeft
        <3>2. 1..(next[i] - 1) \subseteq versions
            BY <2>5 DEF IInv, PositionInv, SkipMigration, Migrating
        <3>3. 1..((next[i] + 1) - 1) \subseteq versions
            BY <2>0, <2>5, <3>2 DEF SkipMigration, AlreadyApplied
        <3>4. pc' = [pc EXCEPT ![i] = "check"]
            BY <2>5 DEF IInv, TypeOK, SkipMigration
        <3> QED
            BY <2>0, <2>5, <3>1, <3>3, <3>4, MoveKeepsInv
            DEF SkipMigration, Steps, Migrated
    <2>6. CASE BeginMigration(i)
        <3>1. 1..(next[i] - 1) \subseteq versions
            BY <2>6 DEF IInv, PositionInv, BeginMigration, Migrating
        <3>2. next[i] \in 1..Files[i]
            BY <2>0, <2>6 DEF BeginMigration, FilesLeft
        <3> QED
            BY <2>0, <2>6, <3>1, <3>2, MoveKeepsInv
            DEF BeginMigration, Steps, Migrated
    <2>7. CASE ApplyScript(i)
        <3>1. /\ 1..(next[i] - 1) \subseteq versions
              /\ next[i] \in 1..Files[i]
            BY <2>7 DEF IInv, PositionInv, ApplyScript, Migrating
        <3>2. next[i] \in Migrations
            BY <2>0, <3>1 DEF Migrations
        <3>3. applied[next[i]] = 0
            BY <2>7, <3>2 DEF IInv, TypeOK, ApplyScript, SchemaClash
        <3> QED
            BY <2>0, <2>7, <3>1, <3>3, MoveKeepsInv
            DEF ApplyScript, Steps, Migrated
    <2>8. CASE RecordVersion(i)
        BY <2>8, RecordKeepsInv
    <2>9. CASE MigrateDone(i)
        <3> DEFINE s == IF BootstrapAdmin[i] = Unset THEN "serving" ELSE "count"
        <3>1. 1..(next[i] - 1) \subseteq versions
            BY <2>9 DEF IInv, PositionInv, MigrateDone, Migrating
        <3>2. next[i] > Files[i]
            BY <2>0, <2>9 DEF MigrateDone, FilesLeft
        <3>3. /\ pc' = [pc EXCEPT ![i] = s]
              /\ s \in {"serving", "count"}
              /\ s \in Steps
              /\ s = "serving" => BootstrapAdmin[i] = Unset
            BY <2>9 DEF MigrateDone, Steps
        <3> HIDE DEF s
        <3> QED
            BY <2>0, <2>9, <3>1, <3>2, <3>3, MoveKeepsInv DEF MigrateDone
    <2>10. CASE CountAdmins(i)
        <3> DEFINE s == IF admins = {} THEN "insert" ELSE "serving"
        <3>1. 1..(next[i] - 1) \subseteq versions /\ next[i] > Files[i]
            BY <2>10 DEF IInv, PositionInv, CountAdmins, Migrated
        <3>2. /\ pc' = [pc EXCEPT ![i] = s]
              /\ s \in {"insert", "serving"}
              /\ s \in Steps
              /\ s = "serving" => admins # {}
            BY <2>10 DEF CountAdmins, Steps
        <3> HIDE DEF s
        <3> QED
            BY <2>0, <2>10, <3>1, <3>2, MoveKeepsInv DEF CountAdmins
    <2>11. CASE InsertAdmin(i)
        <3>1. TypeOK'
            BY <2>11 DEF IInv, TypeOK, InsertAdmin, Steps
        <3>2. AppliedOnce' /\ VersionsTellSchema'
            BY <2>11 DEF IInv, AppliedOnce, VersionsTellSchema, InsertAdmin
        <3>3. PositionInv'
            BY <2>11 DEF IInv, TypeOK, PositionInv, InsertAdmin,
                         Migrating, Migrated
        <3>4. ScriptInv'
            BY <2>11 DEF IInv, TypeOK, ScriptInv, InsertAdmin
        <3>5. AccountInv'
            BY <2>11 DEF AccountInv, InsertAdmin
        <3> QED
            BY <3>1, <3>2, <3>3, <3>4, <3>5 DEF IInv
    <2>12. CASE Crash(i)
        <3>1. crashes' \in 0..MaxCrashes
            BY <2>0, <2>12 DEF Crash
        <3> QED
            BY <3>1, <2>12, DownKeepsInv DEF Crash
    <2> QED
        BY <1>2, <2>1, <2>2, <2>3, <2>4, <2>5, <2>6, <2>7, <2>8, <2>9,
           <2>10, <2>11, <2>12
        DEF main, Migrate, EnsureBootstrapAdmin
<1> QED
    BY <1>1, <1>2 DEF Next

(***************************************************************************)
(* IInv holds in every reachable state.                                    *)
(***************************************************************************)
THEOREM Invariance == Spec => []IInv
BY InitInv, NextKeepsInv, PTL DEF Spec

(***************************************************************************)
(* No script takes effect twice (db.go, Migrate).                          *)
(***************************************************************************)
THEOREM NoScriptTwice == Spec => []AppliedOnce
<1>1. IInv => AppliedOnce
    BY DEF IInv
<1> QED
    BY <1>1, Invariance, PTL

(***************************************************************************)
(* What schema_migrations says is what took effect (db.go, Migrate).       *)
(***************************************************************************)
THEOREM RecordIsTrue == Spec => []VersionsTellSchema
<1>1. IInv => VersionsTellSchema
    BY DEF IInv
<1> QED
    BY <1>1, Invariance, PTL

(***************************************************************************)
(* An instance serves only on the whole schema of its release and with an  *)
(* account to log in with (main.go).                                       *)
(***************************************************************************)
THEOREM ReadyBeforeServing == Spec => []ServingIsReady
<1>1. IInv => ServingIsReady
    <2> SUFFICES ASSUME IInv, NEW i \in Instances, pc[i] = "serving"
                 PROVE  /\ \A k \in 1..Files[i] : applied[k] > 0
                        /\ BootstrapAdmin[i] # Unset => admins # {}
        BY DEF ServingIsReady
    <2>1. /\ 1..(next[i] - 1) \subseteq versions
          /\ next[i] > Files[i]
          /\ next[i] \in Int
        BY DEF IInv, TypeOK, PositionInv, Migrated
    <2>2. Files[i] \in Int
        BY StartupAssumption
    <2>3. \A k \in 1..Files[i] : k \in versions
        BY <2>1, <2>2
    <2>4. \A k \in versions : applied[k] > 0
        BY DEF IInv, VersionsTellSchema
    <2> QED
        BY <2>3, <2>4 DEF IInv, AccountInv
<1> QED
    BY <1>1, Invariance, PTL

(***************************************************************************)
(* When all instances are given one username, an account is only created   *)
(* when there is none (admin.go, EnsureBootstrapAdmin): the unique key     *)
(* stops what the count let through.                                       *)
(***************************************************************************)
THEOREM OneUsernameOneAccount ==
    ASSUME \A i, j \in Instances : BootstrapAdmin[i] = BootstrapAdmin[j]
    PROVE  Spec => BootstrapOnlyIntoEmpty
<1>1. IInv /\ [Next]_vars => [admins' # admins => admins = {}]_vars
    <2> SUFFICES ASSUME IInv, NEW i \in Instances, main(i) \/ Crash(i),
                        admins' # admins
                 PROVE  admins = {}
        BY DEF Next, vars
    <2>1. InsertAdmin(i)
        BY DEF main, Crash, Boot, Migrate, EnsureBootstrapAdmin, LookForTable,
               CreateTable, CreateTableFails, SkipMigration, BeginMigration,
               ApplyScript, ApplyFails, RecordVersion, MigrateDone,
               CountAdmins, InsertFails, Fatal
    <2> QED
        BY <2>1 DEF InsertAdmin, UsernameTaken, IInv, TypeOK
<1> QED
    BY <1>1, Invariance, PTL DEF Spec, BootstrapOnlyIntoEmpty
-----------------------------------------------------------------------------
(***************************************************************************)
(* Startup implements SchemaHistory: a migration takes effect when its     *)
(* transaction commits, and by then IInv has those before it applied.      *)
(***************************************************************************)

(* EnsureBootstrapAdmin runs only in an instance that was given an account.*)
AccountGiven ==
    \A i \in Instances : pc[i] \in {"count", "insert"} => BootstrapAdmin[i] # Unset

LEMMA GivenAccounts == Spec => []AccountGiven
<1>1. Init => AccountGiven
    BY DEF Init, AccountGiven
<1>2. IInv /\ AccountGiven /\ [Next]_vars => AccountGiven'
    <2> SUFFICES ASSUME IInv, AccountGiven, [Next]_vars PROVE AccountGiven'
        OBVIOUS
    <2>1. ASSUME NEW i \in Instances, NEW s, pc' = [pc EXCEPT ![i] = s],
                 s \in {"count", "insert"} => BootstrapAdmin[i] # Unset
          PROVE  AccountGiven'
        BY <2>1 DEF AccountGiven, IInv, TypeOK
    <2>2. CASE UNCHANGED pc
        BY <2>2 DEF AccountGiven
    <2>3. ASSUME NEW i \in Instances, main(i) \/ Crash(i) PROVE AccountGiven'
        <3>1. CASE CountAdmins(i)
            BY <2>1, <3>1 DEF CountAdmins, AccountGiven
        <3>2. CASE MigrateDone(i)
            BY <2>1, <3>2 DEF MigrateDone
        <3> QED
            BY <2>1, <2>2, <2>3, <3>1, <3>2
            DEF main, Crash, Boot, Migrate, EnsureBootstrapAdmin, LookForTable,
                CreateTable, CreateTableFails, SkipMigration, BeginMigration,
                ApplyScript, ApplyFails, RecordVersion, InsertAdmin, InsertFails, Fatal
    <2> QED
        BY <2>2, <2>3 DEF Next, vars
<1> QED
    BY <1>1, <1>2, Invariance, PTL DEF Spec

(***************************************************************************)
(* A step that commits neither a script nor an account changes at most     *)
(* whether i is down, starting or serving.                                 *)
(***************************************************************************)
LEMMA MovesPhase ==
    ASSUME IInv, NEW i \in Instances, NEW s \in Steps,
           pc' = [pc EXCEPT ![i] = s], UNCHANGED <<applied, admins>>,
           \/ Phase(s) = Phase(pc[i])
           \/ pc[i] = "down" /\ Phase(s) = "starting"
           \/ s = "down"
    PROVE  [History!Next]_(History!vars)
<1>1. CASE Phase(s) = Phase(pc[i])
    BY <1>1 DEF History!vars, IInv, TypeOK
<1>2. CASE pc[i] = "down" /\ Phase(s) = "starting"
    <2>1. History!Start(i)
        BY <1>2 DEF History!Start, Phase, IInv, TypeOK
    <2> QED
        BY <2>1 DEF History!Next
<1>3. CASE s = "down" /\ pc[i] # "down"
    <2>1. History!Stop(i)
        BY <1>3 DEF History!Stop, Phase, IInv, TypeOK
    <2> QED
        BY <2>1 DEF History!Next
<1> QED
    BY <1>1, <1>2, <1>3

(***************************************************************************)
(* The commit of a script is the next migration taking effect.             *)
(***************************************************************************)
LEMMA CommitUpgrades ==
    ASSUME IInv, NEW i \in Instances, RecordVersion(i)
    PROVE  History!Upgrade(i)
<1> DEFINE k == next[i]
<1>1. /\ k \in 1..Files[i] /\ applied[k] = 0
      /\ 1..(k - 1) \subseteq versions
    BY DEF RecordVersion, IInv, PositionInv, ScriptInv, Migrating
<1>2. k \in Migrations /\ applied \in [Migrations -> Nat]
    BY <1>1, StartupAssumption DEF Migrations, IInv, TypeOK
<1>3. applied' = [applied EXCEPT ![k] = 1]
    BY <1>1, <1>2 DEF RecordVersion
<1>4. versions = {m \in Migrations : applied[m] > 0}
    BY DEF IInv, VersionsTellSchema
<1>5. {m \in Migrations : applied'[m] > 0} = versions \cup {k}
    BY <1>2, <1>3, <1>4
<1>6. k \notin versions
    BY <1>1, <1>2, <1>4
<1>7. pc[i] = "record" /\ pc' = [pc EXCEPT ![i] = "check"] /\ UNCHANGED admins
    BY DEF RecordVersion
<1> HIDE DEF k
<1> QED
    BY <1>1, <1>4, <1>5, <1>6, <1>7 DEF History!Upgrade, Phase, IInv, TypeOK

LEMMA PositionsAreNumbers ==
    IInv => \A i \in Instances : next[i] \in Int /\ Files[i] \in Int
<1> SUFFICES ASSUME IInv, NEW i \in Instances PROVE next[i] \in Int /\ Files[i] \in Int
    OBVIOUS
<1>1. next[i] \in Int
    BY DEF IInv, TypeOK
<1>2. Files[i] \in Int
    BY StartupAssumption
<1> QED
    BY <1>1, <1>2

(***************************************************************************)
(* Where an instance begins to serve, it is past its last file.            *)
(***************************************************************************)
LEMMA ServesWhenReady ==
    ASSUME IInv, NEW i \in Instances,
           pc[i] \in {"check", "count", "insert"}, next[i] > Files[i],
           pc' = [pc EXCEPT ![i] = "serving"], UNCHANGED applied, History!Welcome(i)
    PROVE  History!Serve(i)
<1>1. next[i] \in Int /\ Files[i] \in Int
    BY PositionsAreNumbers
<1>2. 1..(next[i] - 1) \subseteq versions
    BY DEF IInv, PositionInv, Migrating, Migrated
<1>3. 1..Files[i] \subseteq versions
    BY <1>1, <1>2
<1>4. versions = {k \in Migrations : applied[k] > 0}
    BY DEF IInv, VersionsTellSchema
<1> QED
    BY <1>3, <1>4 DEF History!Serve, Phase, IInv, TypeOK

LEMMA MainKeepsHistory ==
    ASSUME IInv, AccountGiven, NEW i \in Instances, main(i)
    PROVE  [History!Next]_(History!vars)
<1> USE DEF Steps
<1>1. CASE Boot(i)
    BY <1>1, MovesPhase DEF Boot, Phase
<1>2. CASE SkipMigration(i)
    BY <1>2 DEF SkipMigration, History!vars
<1>3. CASE RecordVersion(i)
    BY <1>3, CommitUpgrades DEF History!Next
<1>4. CASE MigrateDone(i)
    <2>1. CASE BootstrapAdmin[i] = Unset
        <3>1. /\ next[i] > Files[i] /\ pc[i] = "check"
              /\ pc' = [pc EXCEPT ![i] = "serving"] /\ UNCHANGED <<applied, admins>>
            BY <1>4, <2>1, PositionsAreNumbers DEF MigrateDone, FilesLeft
        <3>2. History!Welcome(i)
            BY <2>1, <3>1 DEF History!Welcome
        <3> QED
            BY <3>1, <3>2, ServesWhenReady DEF History!Next
    <2>2. CASE BootstrapAdmin[i] # Unset
        BY <1>4, <2>2, MovesPhase DEF MigrateDone, Phase
    <2> QED
        BY <2>1, <2>2
<1>5. CASE CountAdmins(i)
    <2>1. CASE admins = {}
        BY <1>5, <2>1, MovesPhase DEF CountAdmins, Phase
    <2>2. CASE admins # {}
        <3>1. /\ next[i] > Files[i] /\ pc[i] = "count"
              /\ pc' = [pc EXCEPT ![i] = "serving"] /\ UNCHANGED <<applied, admins>>
            BY <1>5, <2>2 DEF CountAdmins, IInv, PositionInv, Migrated
        <3>2. History!Welcome(i)
            BY <2>2, <3>1 DEF History!Welcome
        <3> QED
            BY <3>1, <3>2, ServesWhenReady DEF History!Next
    <2> QED
        BY <2>1, <2>2
<1>6. CASE InsertAdmin(i)
    <2>1. /\ next[i] > Files[i] /\ pc[i] = "insert"
          /\ pc' = [pc EXCEPT ![i] = "serving"] /\ UNCHANGED applied
          /\ admins' = admins \cup {i}
        BY <1>6 DEF InsertAdmin, IInv, PositionInv, Migrated
    <2>2. BootstrapAdmin[i] \notin {BootstrapAdmin[j] : j \in admins} \cup {Unset}
        BY <1>6, <2>1 DEF InsertAdmin, UsernameTaken, AccountGiven
    <2>3. History!Welcome(i)
        BY <2>1, <2>2 DEF History!Welcome
    <2> QED
        BY <2>1, <2>3, ServesWhenReady DEF History!Next
<1>7. CASE LookForTable(i)
    BY <1>7, MovesPhase DEF LookForTable, Phase
<1>8. CASE CreateTable(i)
    BY <1>8, MovesPhase DEF CreateTable, Phase
<1>9. CASE BeginMigration(i) \/ ApplyScript(i)
    BY <1>9, MovesPhase DEF BeginMigration, ApplyScript, Phase
<1>10. CASE CreateTableFails(i) \/ ApplyFails(i) \/ InsertFails(i)
    BY <1>10, MovesPhase DEF CreateTableFails, ApplyFails, InsertFails, Fatal
<1> QED
    BY <1>1, <1>2, <1>3, <1>4, <1>5, <1>6, <1>7, <1>8, <1>9, <1>10
    DEF main, Migrate, EnsureBootstrapAdmin

(***************************************************************************)
(* The database has one history, whichever instances make it, and who      *)
(* serves was ready to (db.go, Migrate; main.go).                          *)
(***************************************************************************)
THEOREM ImplementsSchemaHistory == Spec => HistoryRefined
<1>1. Init => History!Init
    BY DEF Init, History!Init, Phase
<1>2. IInv /\ AccountGiven /\ [Next]_vars => [History!Next]_(History!vars)
    <2> SUFFICES ASSUME IInv, AccountGiven, [Next]_vars
                 PROVE  [History!Next]_(History!vars)
        OBVIOUS
    <2>1. CASE UNCHANGED vars
        BY <2>1 DEF vars, History!vars
    <2>2. ASSUME NEW i \in Instances, Crash(i) PROVE [History!Next]_(History!vars)
        BY <2>2, MovesPhase DEF Crash, Steps
    <2> QED
        BY <2>1, <2>2, MainKeepsHistory DEF Next
<1> QED
    BY <1>1, <1>2, Invariance, GivenAccounts, PTL DEF Spec, HistoryRefined, History!Spec
=============================================================================

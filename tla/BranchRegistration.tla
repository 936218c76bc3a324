-------------------------- MODULE BranchRegistration --------------------------
(***************************************************************************)
(* The branches of a license: /branches/check, /register and /release      *)
(* (internal/service/branch) interleaved with the back-office operations   *)
(* on the same rows (internal/service/admin): SetMaxBranches,              *)
(* ForceDeactivateBranch, SetProductStatus, DeleteLicense, and the         *)
(* purchase that creates a license.                                        *)
(*                                                                         *)
(* Requests, row locks and row ids are as in LicenseActivation.  Unlike    *)
(* Activate, Register compares the count made under the license's lock     *)
(* with a quota read before it, and unlike max_activations that quota can  *)
(* be lowered.  The history variable peak keeps the highest quota a        *)
(* license has had.                                                        *)
(***************************************************************************)
EXTENDS Integers, FiniteSets

CONSTANTS
    Products, Accounts,       \* an account is an (email, product_code) pair
    ProductOf(_),             \* product of an account
    Licenses, AccountOf(_),   \* license_customer_id's and whom each is for
    Branches,                 \* branch codes
    Requests, Admins,         \* concurrent requests; admin_user_id's
    Null,                     \* SQL NULL, and "no request" for a lock
    DefaultQuota,             \* DEFAULT of license_customers.max_branches
    MaxQuota                  \* bound of the quotas an admin sets

ASSUME BranchConstantsAssumption ==
    /\ \A a \in Accounts : ProductOf(a) \in Products
    /\ \A l \in Licenses : AccountOf(l) \in Accounts
    /\ IsFiniteSet(Branches)
    /\ Null \notin Requests \cup Admins
    /\ MaxQuota \in Nat
    /\ DefaultQuota \in 0..MaxQuota

VARIABLES
    productActive,  \* products.status_aktif
    lc,             \* license_customers
    br,             \* branches
    lcLock,         \* transaction that holds the license_customers row
    brLock,         \* transaction that holds the branches row
    pc, job,        \* where each request stands, and its local variables
    peak            \* history: the highest quota the license has had

tables == <<productActive, lc, br, peak>>
locks == <<lcLock, brLock>>
vars == <<productActive, lc, br, lcLock, brLock, pc, job, peak>>

-----------------------------------------------------------------------------
(* Rows and the local variables of the requests.                           *)

BranchRows == Licenses \X Branches
Quota == 0..MaxQuota
RowStatus == {"NONE", "ACTIVE", "DEACTIVATED"}   \* NONE: there is no row

LicenseRow == [state : {"unborn", "live", "deleted"}, max : Quota]
BranchRow == [status : RowStatus, by : Admins \cup {Null}]
NoBranch == [status |-> "NONE", by |-> Null]

RegisterJob == [lic : Licenses, code : Branches, max : Quota, found : RowStatus,
                count : 0..Cardinality(Branches)]
ReleaseJob == [lic : Licenses, code : Branches]
CountJob == [lic : Licenses]
DeleteJob == [lic : Licenses, todo : SUBSET Branches, gone : SUBSET Branches]

Codes == {"OK", "NOT_REGISTERED", "QUOTA_EXCEEDED", "INVALID_LICENSE",
          "NOT_FOUND", "VALIDATION", "INTERNAL"}
AnswerJob == [code : Codes]
NoJob == [code |-> "OK"]

InsideRegister == {"reg_row", "reg_reuse", "reg_count", "reg_write"}
RegisterPcs == InsideRegister \cup {"reg_lock"}
DeletePcs == {"del_rows", "del_parent"}
Pcs == RegisterPcs \cup DeletePcs \cup {"idle", "rel_update", "count", "answer"}

JobsAt(p) ==
    CASE p \in RegisterPcs -> RegisterJob
      [] p = "rel_update" -> ReleaseJob
      [] p = "count" -> CountJob
      [] p \in DeletePcs -> DeleteJob
      [] OTHER -> AnswerJob

Init ==
    /\ productActive = [p \in Products |-> TRUE]
    /\ lc = [l \in Licenses |-> [state |-> "unborn", max |-> 0]]
    /\ br = [i \in BranchRows |-> NoBranch]
    /\ lcLock = [l \in Licenses |-> Null]
    /\ brLock = [i \in BranchRows |-> Null]
    /\ pc = [r \in Requests |-> "idle"]
    /\ job = [r \in Requests |-> NoJob]
    /\ peak = [l \in Licenses |-> 0]

Live(l) == lc[l].state = "live"
LicensesOf(a) == {l \in Licenses : AccountOf(l) = a}
Registered(a, l) == l \in LicensesOf(a) /\ Live(l)
HasRow(i) == br[i].status # "NONE"
HoldersIn(rows, l) == {b \in Branches : rows[<<l, b>>].status = "ACTIVE"}
Holders(l) == HoldersIn(br, l)

(* A license.lic names the account, not the row, and outlives the row.     *)
HasLicenseLic(a) == \E l \in LicensesOf(a) : lc[l].state # "unborn"

-----------------------------------------------------------------------------
(* How a request starts, waits, answers and lets go of its locks.          *)

Start(r, p, j) ==
    /\ pc' = [pc EXCEPT ![r] = p]
    /\ job' = [job EXCEPT ![r] = j]

Answer(r, code) == Start(r, "answer", [code |-> code])

(* The answer after a commit, which may be reported as failed although it  *)
(* took effect.                                                            *)
AnswerCommitted(r) == \E code \in {"OK", "INTERNAL"} : Answer(r, code)

LicenseRowFree(l) == lcLock[l] = Null

BranchRowFree(i) == brLock[i] = Null

(* The end of a transaction, by Commit or by the deferred Rollback.        *)
ReleaseLocks(r) ==
    /\ lcLock' = [l \in Licenses |-> IF lcLock[l] = r THEN Null ELSE lcLock[l]]
    /\ brLock' = [i \in BranchRows |-> IF brLock[i] = r THEN Null ELSE brLock[i]]

Respond(r) ==
    /\ pc[r] = "answer"
    /\ Start(r, "idle", NoJob)
    /\ UNCHANGED <<tables, locks>>

(* A license.lic that does not verify, an empty field, a negative quota.   *)
Reject(r, code) ==
    /\ pc[r] = "idle"
    /\ Answer(r, code)
    /\ UNCHANGED <<tables, locks>>

-----------------------------------------------------------------------------
(* lookupCustomer, the first query of Check, Register and Release          *)

Lookup(r, a, l) ==
    /\ pc[r] = "idle"
    /\ HasLicenseLic(a)
    /\ productActive[ProductOf(a)]
    /\ Registered(a, l)

LookupFails(r, a) ==
    /\ pc[r] = "idle"
    /\ HasLicenseLic(a)
    /\ \/ ~productActive[ProductOf(a)]
       \/ \A l \in Licenses : ~Registered(a, l)
    /\ Answer(r, "NOT_REGISTERED")
    /\ UNCHANGED <<tables, locks>>

(* branch.Service.Check: the quota, then the count.                        *)
Check(r, a) ==
    /\ \E l \in Licenses : Lookup(r, a, l) /\ Start(r, "count", [lic |-> l])
    /\ UNCHANGED <<tables, locks>>

(* countActiveBranches, outside any transaction; its result is only        *)
(* reported, but it can fail after what it reports on was committed.       *)
CountActive(r) ==
    /\ pc[r] = "count"
    /\ Answer(r, "OK")
    /\ UNCHANGED <<tables, locks>>

-----------------------------------------------------------------------------
(* branch.Service.Register                                                 *)

HasFreeSlotOffByOne(taken, max) == taken <= max
HasFreeSlot(taken, max) == taken < max

IsReuseNever(status) == FALSE
IsReuse(status) == status = "ACTIVE"

(* INSERT of a new row and UPDATE of a reclaimed one leave the same columns. *)
GrantedRow(row) == [status |-> "ACTIVE", by |-> Null]

(* The quota is read here, outside the transaction, and used to its end.   *)
RegisterLookup(r, a, b) ==
    /\ \E l \in Licenses :
        /\ Lookup(r, a, l)
        /\ Start(r, "reg_lock", [lic |-> l, code |-> b, max |-> lc[l].max,
                                 found |-> "NONE", count |-> 0])
    /\ UNCHANGED <<tables, locks>>

(* SELECT max_branches ... FOR UPDATE, run for its lock alone: when the    *)
(* license was deleted since, it locks nothing and reports no error.       *)
RegisterLock(r) ==
    LET l == job[r].lic IN
    /\ pc[r] = "reg_lock"
    /\ LicenseRowFree(l)
    /\ lcLock' = [lcLock EXCEPT ![l] = IF Live(l) THEN r ELSE Null]
    /\ Start(r, "reg_row", job[r])
    /\ UNCHANGED <<tables, brLock>>

(* SELECT branch_id, status ... FOR UPDATE                                 *)
RegisterFindRow(r) ==
    LET j == job[r]
        i == <<j.lic, j.code>>
    IN
    /\ pc[r] = "reg_row"
    /\ BranchRowFree(i)
    /\ brLock' = [brLock EXCEPT ![i] = IF HasRow(i) THEN r ELSE Null]
    /\ Start(r, IF IsReuse(br[i].status) THEN "reg_reuse" ELSE "reg_count",
             [j EXCEPT !.found = br[i].status])
    /\ UNCHANGED <<tables, lcLock>>

(* Case 2: the label and update_at only; commit.                           *)
RegisterReuse(r) ==
    /\ pc[r] = "reg_reuse"
    /\ ReleaseLocks(r)
    /\ Start(r, "count", [lic |-> job[r].lic])
    /\ UNCHANGED tables

(* Cases 1 and 3: SELECT COUNT ..., and the quota.                         *)
RegisterCount(r) ==
    LET taken == Cardinality(Holders(job[r].lic)) IN
    /\ pc[r] = "reg_count"
    /\ HasFreeSlot(taken, job[r].max)
    /\ Start(r, "reg_write", [job[r] EXCEPT !.count = taken])
    /\ UNCHANGED <<tables, locks>>

RegisterRefuse(r) ==
    /\ pc[r] = "reg_count"
    /\ ~HasFreeSlot(Cardinality(Holders(job[r].lic)), job[r].max)
    /\ ReleaseLocks(r)
    /\ Answer(r, "QUOTA_EXCEEDED")
    /\ UNCHANGED tables

(* The foreign key of branches.                                            *)
ParentExists(l) == Live(l)

(* INSERT or UPDATE, commit.                                               *)
RegisterWrite(r) ==
    /\ pc[r] = "reg_write"
    /\ ParentExists(job[r].lic)
    /\ br' = [br EXCEPT ![<<job[r].lic, job[r].code>>] = GrantedRow(@)]
    /\ ReleaseLocks(r)
    /\ AnswerCommitted(r)
    /\ UNCHANGED <<productActive, lc, peak>>

(* The license was deleted before the lock: the INSERT fails.              *)
RegisterOrphan(r) ==
    /\ pc[r] = "reg_write"
    /\ ~ParentExists(job[r].lic)
    /\ ReleaseLocks(r)
    /\ Answer(r, "INTERNAL")
    /\ UNCHANGED tables

-----------------------------------------------------------------------------
(* branch.Service.Release and admin.Service.ForceDeactivateBranch: one     *)
(* conditional UPDATE, which waits for the row's lock only if the row it   *)
(* sees is ACTIVE.                                                         *)

FreeSlot(i, by) ==
    /\ br[i].status = "ACTIVE"
    /\ BranchRowFree(i)
    /\ br' = [br EXCEPT ![i].status = "DEACTIVATED", ![i].by = by]
    /\ UNCHANGED <<productActive, lc, locks, peak>>

NothingToFree(r, i) ==
    /\ br[i].status # "ACTIVE"
    /\ Answer(r, "NOT_FOUND")
    /\ UNCHANGED <<tables, locks>>

ReleaseLookup(r, a, b) ==
    /\ \E l \in Licenses :
        Lookup(r, a, l) /\ Start(r, "rel_update", [lic |-> l, code |-> b])
    /\ UNCHANGED <<tables, locks>>

ReleaseUpdate(r) ==
    LET i == <<job[r].lic, job[r].code>> IN
    /\ pc[r] = "rel_update"
    /\ \/ /\ FreeSlot(i, br[i].by)
          /\ Start(r, "count", [lic |-> job[r].lic]) \/ Answer(r, "INTERNAL")
       \/ NothingToFree(r, i)

ForceDeactivateBranch(r, i, adm) ==
    /\ pc[r] = "idle"
    /\ \/ FreeSlot(i, adm) /\ AnswerCommitted(r)
       \/ NothingToFree(r, i)

-----------------------------------------------------------------------------
(* The other back-office operations on the license row                     *)

HigherOf(m, n) == IF m > n THEN m ELSE n

(* The commit of the RecordPurchase that creates the license (its check of *)
(* the product is long past).  There is one license at a time for an       *)
(* account.                                                                *)
CreateLicense(r, l) ==
    /\ pc[r] = "idle"
    /\ lc[l].state = "unborn"
    /\ \A k \in LicensesOf(AccountOf(l)) : ~Live(k)
    /\ lc' = [lc EXCEPT ![l] = [state |-> "live", max |-> DefaultQuota]]
    /\ peak' = [peak EXCEPT ![l] = DefaultQuota]
    /\ AnswerCommitted(r)
    /\ UNCHANGED <<productActive, br, locks>>

SetMaxBranches(r, l, n) ==
    /\ pc[r] = "idle"
    /\ LicenseRowFree(l)
    /\ Live(l)
    /\ lc' = [lc EXCEPT ![l].max = n]
    /\ peak' = [peak EXCEPT ![l] = HigherOf(@, n)]
    /\ AnswerCommitted(r)
    /\ UNCHANGED <<productActive, br, locks>>

SetMaxMissing(r, l) ==
    /\ pc[r] = "idle"
    /\ lc[l].state = "deleted"
    /\ Answer(r, "NOT_FOUND")
    /\ UNCHANGED <<tables, locks>>

SetProductStatus(r, p, aktif) ==
    /\ pc[r] = "idle"
    /\ productActive' = [productActive EXCEPT ![p] = aktif]
    /\ AnswerCommitted(r)
    /\ UNCHANGED <<lc, br, locks, peak>>

-----------------------------------------------------------------------------
(* admin.Service.DeleteLicense: DELETE FROM branches, then the parent.     *)
(* (Its other child tables are in LicenseActivation.)                      *)

(* What DELETE FROM branches will see.                                     *)
DeleteStart(r, l) ==
    /\ pc[r] = "idle"
    /\ lc[l].state # "unborn"
    /\ Start(r, "del_rows",
             [lic |-> l, todo |-> {b \in Branches : HasRow(<<l, b>>)}, gone |-> {}])
    /\ UNCHANGED <<tables, locks>>

(* Each row is locked in turn; one deleted meanwhile is passed over.       *)
DeleteRow(r) ==
    /\ pc[r] = "del_rows"
    /\ \E b \in job[r].todo :
        LET i == <<job[r].lic, b>> IN
        /\ BranchRowFree(i)
        /\ brLock' = [brLock EXCEPT ![i] = IF HasRow(i) THEN r ELSE Null]
        /\ job' = [job EXCEPT ![r].todo = @ \ {b}, ![r].gone = @ \cup {b}]
    /\ UNCHANGED <<tables, lcLock, pc>>

DeleteSwept(r) ==
    /\ pc[r] = "del_rows"
    /\ job[r].todo = {}
    /\ Start(r, "del_parent", job[r])
    /\ UNCHANGED <<tables, locks>>

ReferencedByBranchesUnchecked(r) == FALSE

(* A branch committed after the sweep still references the license.        *)
ReferencedByBranches(r) ==
    \E b \in Branches \ job[r].gone : HasRow(<<job[r].lic, b>>)

DeleteCommit(r) ==
    LET l == job[r].lic IN
    /\ pc[r] = "del_parent"
    /\ LicenseRowFree(l)
    /\ Live(l)
    /\ ~ReferencedByBranches(r)
    /\ lc' = [lc EXCEPT ![l] = [state |-> "deleted", max |-> 0]]
    /\ peak' = [peak EXCEPT ![l] = 0]
    /\ br' = [i \in BranchRows |->
                 IF i[1] = l /\ i[2] \in job[r].gone THEN NoBranch ELSE br[i]]
    /\ ReleaseLocks(r)
    /\ AnswerCommitted(r)
    /\ UNCHANGED productActive

(* The foreign key refuses, or the license is already gone: roll back.     *)
DeleteRefused(r) ==
    /\ pc[r] = "del_parent"
    /\ LicenseRowFree(job[r].lic)
    /\ \/ Live(job[r].lic) /\ ReferencedByBranches(r) /\ Answer(r, "INTERNAL")
       \/ ~Live(job[r].lic) /\ Answer(r, "NOT_FOUND")
    /\ ReleaseLocks(r)
    /\ UNCHANGED tables

-----------------------------------------------------------------------------
(* Failures, as in LicenseActivation.  A commit of RegisterReuse that      *)
(* fails after it took effect is a count that fails.                       *)

InFlight(r) == pc[r] \notin {"idle", "answer"}

Fail(r) ==
    /\ pc[r] # "answer"
    /\ ReleaseLocks(r)
    /\ Answer(r, "INTERNAL")
    /\ UNCHANGED tables

(* r cannot take its next step before s ends its transaction.              *)
WaitsFor(r, s) ==
    \/ pc[r] \in {"reg_lock", "del_parent"} /\ lcLock[job[r].lic] = s
    \/ /\ pc[r] \in {"reg_row", "rel_update"}
       /\ brLock[<<job[r].lic, job[r].code>>] = s
       /\ pc[r] = "rel_update" => br[<<job[r].lic, job[r].code>>].status = "ACTIVE"
    \/ /\ pc[r] = "del_rows"
       /\ job[r].todo # {}
       /\ \A b \in job[r].todo : ~BranchRowFree(<<job[r].lic, b>>)
       /\ \E b \in job[r].todo : brLock[<<job[r].lic, b>>] = s

WaitCycle(C) == C # {} /\ \A r \in C : \E s \in C : WaitsFor(r, s)

DeadlockedUndetected(r) == FALSE

Deadlocked(r) ==
    \E C \in SUBSET Requests :
        r \in C /\ WaitCycle(C) /\ \A D \in SUBSET C \ {C} : ~WaitCycle(D)

DeadlockVictim(r) == Deadlocked(r) /\ Fail(r)

-----------------------------------------------------------------------------
(* Everything a request in flight does next by itself.                     *)
Advance(r) ==
    \/ RegisterLock(r) \/ RegisterFindRow(r) \/ RegisterReuse(r)
    \/ RegisterCount(r) \/ RegisterRefuse(r) \/ RegisterWrite(r)
    \/ RegisterOrphan(r) \/ CountActive(r) \/ ReleaseUpdate(r)
    \/ DeleteRow(r) \/ DeleteSwept(r) \/ DeleteCommit(r) \/ DeleteRefused(r)

(* Everything an idle request may be asked to do.                          *)
Begin(r) ==
    \/ \E a \in Accounts :
        \/ LookupFails(r, a)
        \/ Check(r, a)
        \/ \E b \in Branches : RegisterLookup(r, a, b) \/ ReleaseLookup(r, a, b)
    \/ \E i \in BranchRows, adm \in Admins : ForceDeactivateBranch(r, i, adm)
    \/ \E l \in Licenses :
        \/ CreateLicense(r, l)
        \/ \E n \in Quota : SetMaxBranches(r, l, n)
        \/ SetMaxMissing(r, l)
        \/ DeleteStart(r, l)
    \/ \E p \in Products, aktif \in BOOLEAN : SetProductStatus(r, p, aktif)
    \/ \E code \in {"INVALID_LICENSE", "VALIDATION"} : Reject(r, code)

Next == \E r \in Requests : Begin(r) \/ Advance(r) \/ Fail(r) \/ Respond(r)

Spec == Init /\ [][Next]_vars

(* PostgreSQL queues the waiters of a row lock, so a request that could    *)
(* take its lock again and again gets it; its deadlock detector runs.      *)
Fairness ==
    \A r \in Requests :
        /\ SF_vars(Advance(r))
        /\ WF_vars(DeadlockVictim(r))

FairSpec == Spec /\ Fairness

-----------------------------------------------------------------------------
(* What holds in every state.                                              *)

(* Every variable has its type; a request's local variables are those of   *)
(* the step it is about to take.                                           *)
TypeOK ==
    /\ productActive \in [Products -> BOOLEAN]
    /\ lc \in [Licenses -> LicenseRow]
    /\ br \in [BranchRows -> BranchRow]
    /\ lcLock \in [Licenses -> Requests \cup {Null}]
    /\ brLock \in [BranchRows -> Requests \cup {Null}]
    /\ pc \in [Requests -> Pcs]
    /\ DOMAIN job = Requests
    /\ \A r \in Requests : job[r] \in JobsAt(pc[r])
    /\ peak \in [Licenses -> Quota]

Slots == INSTANCE SeatQuota WITH
             Machines <- Branches,
             MaxCapacity <- MaxQuota,
             capacity <- peak,
             holders <- [l \in Licenses |-> Holders(l)]

(* Branch slots are used as SeatQuota allows, when the capacity is the     *)
(* highest quota the license has had: registrations, releases, quota       *)
(* changes and deletions in any interleaving do nothing else to them.      *)
SlotsRefined == Slots!Spec

(* How far a request has come, for one who sees neither its transaction    *)
(* nor its locks.                                                          *)
StageOf(p, j) ==
    CASE p = "idle" -> [at |-> "idle"]
      [] p \in RegisterPcs ->
            [at |-> "found", lic |-> j.lic, code |-> j.code, max |-> j.max]
      [] p = "rel_update" -> [at |-> "freeing", lic |-> j.lic, code |-> j.code]
      [] p = "count" -> [at |-> "counting"]
      [] p \in DeletePcs -> [at |-> "closing", lic |-> j.lic]
      [] p = "answer" -> [at |-> "told", code |-> j.code]

Stages == [r \in Requests |-> StageOf(pc[r], job[r])]

Atomic == INSTANCE AtomicBranches WITH req <- Stages

(* Every request acts, after its lookup, as if it ran alone: transactions, *)
(* locks and rollbacks implement the atomic operations of AtomicBranches,  *)
(* with their answers.  A slot is granted or refused by the branches and   *)
(* the row of one moment, and DeleteLicense takes all branches or none.  A *)
(* refusal is given only when nothing happened and OK only when all of it  *)
(* did; after INTERNAL it is one or the other.                             *)
ActsAtomically == Atomic!Spec

(* However stale the quota a registration compares with, the ACTIVE        *)
(* branches of a license never outnumber the highest quota an admin gave   *)
(* it.                                                                     *)
ActiveWithinPeak == Slots!NeverOversold

(* "this plain count is race-free" (Register): from the count to the       *)
(* insert no other branch of the license is registered, and the row found  *)
(* keeps its status.                                                       *)
CountStaysTrue ==
    \A r \in Requests :
        pc[r] = "reg_write" /\ Live(job[r].lic) =>
            /\ Cardinality(Holders(job[r].lic)) <= job[r].count
            /\ job[r].found = br[<<job[r].lic, job[r].code>>].status

(* No branches row refers to a license that is not there, although the     *)
(* lock statement of Register does not notice that the license is gone.    *)
NoOrphanBranch ==
    \A l \in Licenses, b \in Branches : HasRow(<<l, b>>) => Live(l)

(* An ACTIVE branch names no admin who released it, so that a later        *)
(* release by the customer is not put down to the admin of an earlier one. *)
ActiveBranchHasNoReleaser ==
    \A i \in BranchRows : br[i].status = "ACTIVE" => br[i].by = Null

(* Requests wait for each other in a cycle only with a DeleteLicense in    *)
(* it: Register locks the license and then the branch, DeleteLicense the   *)
(* other way round.                                                        *)
WaitCycleNeedsDelete ==
    \A C \in SUBSET Requests :
        WaitCycle(C) => \E r \in C : pc[r] \in DeletePcs

(* Registering a branch that is ACTIVE is "safe to call on every app       *)
(* start" (README): it is never refused for the quota, also when the quota *)
(* was lowered below the branches in use.                                  *)
ActiveBranchIsNotRefused ==
    [][\A r \in Requests :
         RegisterRefuse(r) => job[r].code \notin Holders(job[r].lic)]_vars

(* Every request is answered, however they contend for rows and even when  *)
(* they deadlock.                                                          *)
EveryRequestAnswered ==
    \A r \in Requests : InFlight(r) ~> pc[r] = "answer"

-----------------------------------------------------------------------------
(* What the repository says of this code and the code does not do.         *)

(* "Register mirrors license.Service.Activate's exact three-case state     *)
(* machine ...: no existing row needs a free slot" (package branch): as a  *)
(* seat is granted only below max_activations, a branch is registered only *)
(* below the max_branches on record.                                       *)
GrantNeedsFreeSlot ==
    [][\A r \in Requests :
         RegisterWrite(r) =>
             Cardinality(Holders(job[r].lic)) < lc[job[r].lic].max]_vars

-----------------------------------------------------------------------------
(* The inductive invariant: why the above hold.                            *)

(* The license row is locked exactly inside Register's transaction, unless *)
(* there was no row left to lock.                                          *)
LicenseLockInv ==
    \A l \in Licenses, r \in Requests :
        lcLock[l] = r <=> pc[r] \in InsideRegister /\ job[r].lic = l /\ Live(l)

(* Who may hold a branches row, ...                                        *)
MayHoldRow(r, i) ==
    \/ /\ pc[r] \in InsideRegister \ {"reg_row"}
       /\ i = <<job[r].lic, job[r].code>>
       /\ job[r].found # "NONE"
    \/ /\ pc[r] \in DeletePcs
       /\ i[1] = job[r].lic
       /\ i[2] \in job[r].gone

(* ... and that a holder's row exists.                                     *)
RowLockInv ==
    \A i \in BranchRows, r \in Requests :
        brLock[i] = r => MayHoldRow(r, i) /\ HasRow(i)

(* Inside Register: the row found is held, keeps its status, and decides   *)
(* the case taken.                                                         *)
FoundRowInv ==
    \A r \in Requests :
        pc[r] \in InsideRegister \ {"reg_row"} =>
            /\ job[r].found = br[<<job[r].lic, job[r].code>>].status
            /\ job[r].found # "NONE" =>
                  brLock[<<job[r].lic, job[r].code>>] = r
            /\ (job[r].found = "ACTIVE") <=> (pc[r] = "reg_reuse")

(* A request works on a license that was created.                          *)
BegunInv ==
    \A r \in Requests :
        pc[r] \in RegisterPcs \cup DeletePcs => lc[job[r].lic].state # "unborn"

(* While the license is live, rows seen are still there and rows swept are *)
(* held.                                                                   *)
DeleteInv ==
    \A r \in Requests :
        pc[r] \in DeletePcs /\ Live(job[r].lic) =>
            /\ \A b \in job[r].todo : HasRow(<<job[r].lic, b>>)
            /\ \A b \in job[r].gone : brLock[<<job[r].lic, b>>] = r

(* The quota a registration goes by was in force, and a count it acts on   *)
(* was below it.                                                           *)
QuotaReadInv ==
    \A r \in Requests :
        /\ pc[r] \in RegisterPcs /\ Live(job[r].lic) =>
              job[r].max <= peak[job[r].lic]
        /\ pc[r] = "reg_write" => job[r].count < job[r].max

(* A license that is not live has no slots.                                *)
PeakInv ==
    \A l \in Licenses : IF Live(l) THEN lc[l].max <= peak[l] ELSE peak[l] = 0

IInv ==
    /\ TypeOK
    /\ LicenseLockInv
    /\ RowLockInv
    /\ FoundRowInv
    /\ BegunInv
    /\ DeleteInv
    /\ QuotaReadInv
    /\ PeakInv
    /\ CountStaysTrue
    /\ NoOrphanBranch
    /\ ActiveWithinPeak
    /\ ActiveBranchHasNoReleaser
==============================================================================

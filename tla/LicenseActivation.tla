-------------------------- MODULE LicenseActivation --------------------------
(***************************************************************************)
(* The seats of a license: /activate and /deactivate                       *)
(* (internal/service/license) interleaved with the back-office operations  *)
(* that write the same rows (internal/service/admin): RecordPurchase,      *)
(* ExtendSubscription, ForceDeactivate, SetProductStatus, DeleteLicense.   *)
(*                                                                         *)
(* A request is a process.  Between two of its steps any other request     *)
(* may run, wherever the code makes a separate round trip to PostgreSQL.   *)
(* A transaction that ends with the statement that could make it wait is   *)
(* one step.  The database runs at READ COMMITTED: a statement sees what   *)
(* was committed when it starts, and a row lock (FOR UPDATE, UPDATE,       *)
(* DELETE) is held to the end of the transaction.                          *)
(*                                                                         *)
(* A row id is never used again (idgen), so a license_customer_id is a     *)
(* member of Licenses that is unborn, live or deleted, and an              *)
(* activation_id, whose row lives as long as its license, is the pair of   *)
(* license and machine.                                                    *)
(***************************************************************************)
EXTENDS Integers, FiniteSets

CONSTANTS
    Products, Accounts,       \* an account is an (email, product_code) pair
    ProductOf(_),             \* product of an account
    Licenses, AccountOf(_),   \* license_customer_id's and whom each is for
    Machines,                 \* machine fingerprints
    Requests, Admins,         \* concurrent requests; admin_user_id's
    Null,                     \* SQL NULL, and "no request" for a lock
    MaxInt4,                  \* largest PostgreSQL INTEGER
    Month, Grace, Term,       \* a month, SubscriptionGracePeriod, DefaultLicenseTerm
    SeatChoices,              \* seats a purchase may ask for
    MonthChoices,             \* months a purchase or extension may ask for
    MaxNow, MaxDue            \* bounds of the clock and of due dates

ASSUME ConstantsAssumption ==
    /\ \A a \in Accounts : ProductOf(a) \in Products
    /\ \A l \in Licenses : AccountOf(l) \in Accounts
    /\ IsFiniteSet(Machines)
    /\ Null \notin Nat \cup Requests \cup Admins
    /\ MaxInt4 \in Nat
    /\ {Month, Grace, Term, MaxNow, MaxDue} \subseteq Nat
    /\ SeatChoices \subseteq 1..MaxInt4
    /\ MonthChoices \subseteq Nat

VARIABLES
    productActive,  \* products.status_aktif
    lc,             \* license_customers, and how many child rows it has
    act,            \* activations
    lcLock,         \* transaction that holds the license_customers row
    actLock,        \* transaction that holds the activations row
    pc, job,        \* where each request stands, and its local variables
    issued,         \* activation ids for which a license.lic was signed
    now             \* the clock

tables == <<productActive, lc, act>>
locks == <<lcLock, actLock>>
request == <<pc, job>>
vars == <<productActive, lc, act, lcLock, actLock, pc, job, issued, now>>

-----------------------------------------------------------------------------
(* Rows and the local variables of the requests.                           *)

Activations == Licenses \X Machines
Date == Nat
DateOrNull == Nat \cup {Null}
RowStatus == {"NONE", "ACTIVE", "DEACTIVATED"}   \* NONE: there is no row

LicenseRow ==
    [state : {"unborn", "live", "deleted"}, max : 0..MaxInt4,
     due : DateOrNull, purchases : Nat, extensions : Nat]

ActivationRow == [status : RowStatus, exp : Date, by : Admins \cup {Null}]

NoLicense(state) ==
    [state |-> state, max |-> 0, due |-> Null, purchases |-> 0, extensions |-> 0]

NoActivation == [status |-> "NONE", exp |-> 0, by |-> Null]

ActivateJob ==
    [lic : Licenses, mach : Machines, due : DateOrNull,
     max : 0..MaxInt4, found : RowStatus, exp : Date]

SignJob == [lic : Licenses, mach : Machines]

PurchaseJob == [acc : Accounts, seats : SeatChoices, months : MonthChoices]

DeleteJob ==
    [lic : Licenses, todo : SUBSET Machines, gone : SUBSET Machines,
     purchases : Nat, extensions : Nat]

Codes == {"OK", "NOT_REGISTERED", "QUOTA_EXCEEDED", "INVALID_LICENSE",
          "NOT_FOUND", "VALIDATION", "INTERNAL"}

AnswerJob == [code : Codes]
NoJob == [code |-> "OK"]

InsideActivate == {"act_row", "act_reuse", "act_count", "act_write"}
ActivatePcs == InsideActivate \cup {"act_lock"}
DeletePcs == {"del_begun", "del_rows", "del_parent"}

JobsAt(p) ==
    CASE p \in ActivatePcs -> ActivateJob
      [] p = "act_sign" -> SignJob
      [] p = "pur_commit" -> PurchaseJob
      [] p \in DeletePcs -> DeleteJob
      [] OTHER -> AnswerJob

Pcs == ActivatePcs \cup DeletePcs
           \cup {"idle", "act_sign", "pur_commit", "answer"}

Init ==
    /\ productActive = [p \in Products |-> TRUE]
    /\ lc = [l \in Licenses |-> NoLicense("unborn")]
    /\ act = [i \in Activations |-> NoActivation]
    /\ lcLock = [l \in Licenses |-> Null]
    /\ actLock = [i \in Activations |-> Null]
    /\ pc = [r \in Requests |-> "idle"]
    /\ job = [r \in Requests |-> NoJob]
    /\ issued = {}
    /\ now = 0

Live(l) == lc[l].state = "live"
LicensesOf(a) == {l \in Licenses : AccountOf(l) = a}
Registered(a, l) == l \in LicensesOf(a) /\ Live(l)
HasRow(i) == act[i].status # "NONE"
HoldersIn(rows, l) == {m \in Machines : rows[<<l, m>>].status = "ACTIVE"}
Holders(l) == HoldersIn(act, l)

-----------------------------------------------------------------------------
(* How a request starts, waits, answers and lets go of its locks.          *)

Start(r, p, j) ==
    /\ pc' = [pc EXCEPT ![r] = p]
    /\ job' = [job EXCEPT ![r] = j]

Answer(r, code) == Start(r, "answer", [code |-> code])

(* The answer after a commit (a statement outside a transaction commits by *)
(* itself): an error reported for a commit that took effect is an error to *)
(* the caller.                                                             *)
AnswerCommitted(r) == \E code \in {"OK", "INTERNAL"} : Answer(r, code)

LicenseRowNeverWaits(l) == TRUE
LicenseRowFree(l) == lcLock[l] = Null

ActivationRowFree(i) == actLock[i] = Null

ReleaseLocksForgotten(r) == UNCHANGED locks

(* The end of a transaction, by Commit or by the deferred Rollback.        *)
ReleaseLocks(r) ==
    /\ lcLock' = [l \in Licenses |-> IF lcLock[l] = r THEN Null ELSE lcLock[l]]
    /\ actLock' = [i \in Activations |-> IF actLock[i] = r THEN Null ELSE actLock[i]]

Respond(r) ==
    /\ pc[r] = "answer"
    /\ Start(r, "idle", NoJob)
    /\ UNCHANGED <<tables, locks, issued, now>>

(* Input refused before the database is touched: a license.lic that does   *)
(* not verify, an empty field, a number of seats or months below one.      *)
Reject(r, code) ==
    /\ pc[r] = "idle"
    /\ Answer(r, code)
    /\ UNCHANGED <<tables, locks, issued, now>>

-----------------------------------------------------------------------------
(* license.Service.Activate                                                *)

(* The expiry written in license.lic, from the due date read at lookup.    *)
ExpiryOf(due) == IF due = Null THEN now + Term ELSE due + Grace

HasFreeSeatOffByOne(taken, max) == taken <= max
HasFreeSeat(taken, max) == taken < max

IsReuseNever(status) == FALSE
IsReuse(status) == status = "ACTIVE"

RefreshedRow(row, exp) == [row EXCEPT !.exp = exp]

GrantedRowKeepsReleaser(row, exp) == [row EXCEPT !.status = "ACTIVE", !.exp = exp]

(* INSERT of a new row and UPDATE of a reclaimed one leave the same columns. *)
GrantedRow(row, exp) == [status |-> "ACTIVE", exp |-> exp, by |-> Null]

(* Outside the transaction: product status and due date are read here.     *)
ActivateLookup(r, a, m) ==
    /\ pc[r] = "idle"
    /\ productActive[ProductOf(a)]
    /\ \E l \in Licenses :
        /\ Registered(a, l)
        /\ Start(r, "act_lock", [lic |-> l, mach |-> m, due |-> lc[l].due,
                                 max |-> 0, found |-> "NONE", exp |-> 0])
    /\ UNCHANGED <<tables, locks, issued, now>>

ActivateUnregistered(r, a) ==
    /\ pc[r] = "idle"
    /\ \/ ~productActive[ProductOf(a)]
       \/ \A l \in Licenses : ~Registered(a, l)
    /\ Answer(r, "NOT_REGISTERED")
    /\ UNCHANGED <<tables, locks, issued, now>>

(* SELECT max_activations ... FOR UPDATE                                   *)
ActivateLock(r) ==
    LET l == job[r].lic IN
    /\ pc[r] = "act_lock"
    /\ LicenseRowFree(l)
    /\ Live(l)
    /\ lcLock' = [lcLock EXCEPT ![l] = r]
    /\ Start(r, "act_row", [job[r] EXCEPT !.max = lc[l].max])
    /\ UNCHANGED <<tables, actLock, issued, now>>

(* The license was deleted since the lookup.                               *)
ActivateGone(r) ==
    /\ pc[r] = "act_lock"
    /\ LicenseRowFree(job[r].lic)
    /\ ~Live(job[r].lic)
    /\ Answer(r, "INTERNAL")
    /\ UNCHANGED <<tables, locks, issued, now>>

(* SELECT activation_id, status ... FOR UPDATE, then the expiry.           *)
ActivateFindRow(r) ==
    LET j == job[r]
        i == <<j.lic, j.mach>>
    IN
    /\ pc[r] = "act_row"
    /\ ActivationRowFree(i)
    /\ actLock' = [actLock EXCEPT ![i] = IF HasRow(i) THEN r ELSE Null]
    /\ Start(r, IF IsReuse(act[i].status) THEN "act_reuse" ELSE "act_count",
             [j EXCEPT !.found = act[i].status, !.exp = ExpiryOf(j.due)])
    /\ UNCHANGED <<tables, lcLock, issued, now>>

(* Case 2: UPDATE expires_at, commit.                                      *)
ActivateReuse(r) ==
    LET i == <<job[r].lic, job[r].mach>> IN
    /\ pc[r] = "act_reuse"
    /\ act' = [act EXCEPT ![i] = RefreshedRow(@, job[r].exp)]
    /\ ReleaseLocks(r)
    /\ Start(r, "act_sign", [lic |-> job[r].lic, mach |-> job[r].mach])
    /\ UNCHANGED <<productActive, lc, issued, now>>

(* Cases 1 and 3: SELECT COUNT ..., and the quota.                         *)
ActivateCount(r) ==
    /\ pc[r] = "act_count"
    /\ HasFreeSeat(Cardinality(Holders(job[r].lic)), job[r].max)
    /\ Start(r, "act_write", job[r])
    /\ UNCHANGED <<tables, locks, issued, now>>

ActivateRefuse(r) ==
    /\ pc[r] = "act_count"
    /\ ~HasFreeSeat(Cardinality(Holders(job[r].lic)), job[r].max)
    /\ ReleaseLocks(r)
    /\ Answer(r, "QUOTA_EXCEEDED")
    /\ UNCHANGED <<tables, issued, now>>

CommitSeatWithoutInsert(i, exp) ==
    [act EXCEPT ![i] = IF @.status = "NONE" THEN @ ELSE GrantedRow(@, exp)]

CommitSeat(i, exp) == [act EXCEPT ![i] = GrantedRow(@, exp)]

(* INSERT or UPDATE, commit.                                               *)
ActivateWrite(r) ==
    /\ pc[r] = "act_write"
    /\ act' = CommitSeat(<<job[r].lic, job[r].mach>>, job[r].exp)
    /\ ReleaseLocks(r)
    /\ Start(r, "act_sign", [lic |-> job[r].lic, mach |-> job[r].mach])
    /\ UNCHANGED <<productActive, lc, issued, now>>

(* The license.lic is signed after the commit.                             *)
ActivateSign(r) ==
    /\ pc[r] = "act_sign"
    /\ issued' = issued \cup {<<job[r].lic, job[r].mach>>}
    /\ Answer(r, "OK")
    /\ UNCHANGED <<tables, locks, now>>

-----------------------------------------------------------------------------
(* license.Service.Deactivate and admin.Service.ForceDeactivate: one       *)
(* conditional UPDATE, which waits for the row's lock only if the row it   *)
(* sees is ACTIVE.                                                         *)

ReleaseSeat(r, i, by) ==
    /\ pc[r] = "idle"
    /\ act[i].status = "ACTIVE"
    /\ ActivationRowFree(i)
    /\ act' = [act EXCEPT ![i].status = "DEACTIVATED", ![i].by = by]
    /\ AnswerCommitted(r)
    /\ UNCHANGED <<productActive, lc, locks, issued, now>>

ReleaseNothing(r, i) ==
    /\ pc[r] = "idle"
    /\ act[i].status # "ACTIVE"
    /\ Answer(r, "NOT_FOUND")
    /\ UNCHANGED <<tables, locks, issued, now>>

Deactivate(r, i) ==
    /\ i \in issued
    /\ ReleaseSeat(r, i, act[i].by) \/ ReleaseNothing(r, i)

ForceDeactivate(r, i, adm) == ReleaseSeat(r, i, adm) \/ ReleaseNothing(r, i)

-----------------------------------------------------------------------------
(* admin.Service.ExtendSubscription and SetProductStatus                   *)

ExtensionBaseFromNow(due) == now
ExtensionBase(due) == IF due # Null /\ due > now THEN due ELSE now

ExtendSubscription(r, l, months) ==
    LET due == ExtensionBase(lc[l].due) + months * Month IN
    /\ pc[r] = "idle"
    /\ months > 0
    /\ LicenseRowFree(l)
    /\ Live(l)
    /\ due <= MaxDue
    /\ lc' = [lc EXCEPT ![l].due = due, ![l].extensions = @ + 1]
    /\ AnswerCommitted(r)
    /\ UNCHANGED <<productActive, act, locks, issued, now>>

ExtendMissing(r, l) ==
    /\ pc[r] = "idle"
    /\ lc[l].state = "deleted"
    /\ Answer(r, "NOT_FOUND")
    /\ UNCHANGED <<tables, locks, issued, now>>

SetProductStatus(r, p, aktif) ==
    /\ pc[r] = "idle"
    /\ productActive' = [productActive EXCEPT ![p] = aktif]
    /\ AnswerCommitted(r)
    /\ UNCHANGED <<lc, act, locks, issued, now>>

-----------------------------------------------------------------------------
(* admin.Service.RecordPurchase: the product is checked outside the        *)
(* transaction, which then adds seats to the account's license or creates  *)
(* it.  Purchases of one account are serialized by its customers row, so   *)
(* the transaction is one step, taken when the license row is free.        *)

FitsInt4(n) == n <= MaxInt4

(* Bound: a purchase starts only while a row id is left for it.            *)
RowIdLeft(a) ==
    Cardinality({l \in LicensesOf(a) : lc[l].state = "unborn"})
        > Cardinality({s \in Requests : pc[s] = "pur_commit"})

PurchaseCheck(r, a, seats, months) ==
    /\ pc[r] = "idle"
    /\ productActive[ProductOf(a)]
    /\ RowIdLeft(a)
    /\ Start(r, "pur_commit", [acc |-> a, seats |-> seats, months |-> months])
    /\ UNCHANGED <<tables, locks, issued, now>>

PurchaseNoProduct(r, a) ==
    /\ pc[r] = "idle"
    /\ ~productActive[ProductOf(a)]
    /\ Answer(r, "NOT_FOUND")
    /\ UNCHANGED <<tables, locks, issued, now>>

PurchaseAddSeats(r) ==
    /\ pc[r] = "pur_commit"
    /\ \E l \in Licenses :
        /\ Registered(job[r].acc, l)
        /\ LicenseRowFree(l)
        /\ FitsInt4(lc[l].max + job[r].seats)
        /\ lc' = [lc EXCEPT ![l].max = @ + job[r].seats,
                            ![l].purchases = @ + 1]
    /\ AnswerCommitted(r)
    /\ UNCHANGED <<productActive, act, locks, issued, now>>

(* max_activations + seats is out of range: the statement fails.           *)
PurchaseOverflow(r) ==
    /\ pc[r] = "pur_commit"
    /\ \E l \in Licenses :
        /\ Registered(job[r].acc, l)
        /\ LicenseRowFree(l)
        /\ ~FitsInt4(lc[l].max + job[r].seats)
    /\ Answer(r, "INTERNAL")
    /\ UNCHANGED <<tables, locks, issued, now>>

(* No months is a lifetime license; a subscription records its first       *)
(* extension with the row.                                                 *)
NewLicense(seats, months) ==
    [state |-> "live", max |-> seats,
     due |-> IF months = 0 THEN Null ELSE now + months * Month,
     purchases |-> 1, extensions |-> IF months = 0 THEN 0 ELSE 1]

PurchaseCreate(r) ==
    /\ pc[r] = "pur_commit"
    /\ \A l \in Licenses : ~Registered(job[r].acc, l)
    /\ \E l \in LicensesOf(job[r].acc) :
        /\ lc[l].state = "unborn"
        /\ lc' = [lc EXCEPT ![l] = NewLicense(job[r].seats, job[r].months)]
    /\ AnswerCommitted(r)
    /\ UNCHANGED <<productActive, act, locks, issued, now>>

-----------------------------------------------------------------------------
(* admin.Service.DeleteLicense: the child tables one DELETE at a time,     *)
(* then the parent.  (The branches table is not in this module.)           *)

(* DELETE FROM subscription_extensions                                     *)
DeleteStart(r, l) ==
    /\ pc[r] = "idle"
    /\ lc[l].state # "unborn"
    /\ Start(r, "del_begun", [lic |-> l, todo |-> {}, gone |-> {},
                              purchases |-> 0, extensions |-> lc[l].extensions])
    /\ UNCHANGED <<tables, locks, issued, now>>

(* The rows that DELETE FROM activations sees when it starts.              *)
DeleteScan(r) ==
    /\ pc[r] = "del_begun"
    /\ Start(r, "del_rows",
             [job[r] EXCEPT !.todo = {m \in Machines : HasRow(<<job[r].lic, m>>)}])
    /\ UNCHANGED <<tables, locks, issued, now>>

(* Each row is locked in turn; one deleted meanwhile is passed over.       *)
DeleteRow(r) ==
    /\ pc[r] = "del_rows"
    /\ \E m \in job[r].todo :
        LET i == <<job[r].lic, m>> IN
        /\ ActivationRowFree(i)
        /\ actLock' = [actLock EXCEPT ![i] = IF HasRow(i) THEN r ELSE Null]
        /\ job' = [job EXCEPT ![r].todo = @ \ {m}, ![r].gone = @ \cup {m}]
    /\ UNCHANGED <<tables, lcLock, pc, issued, now>>

(* DELETE FROM purchases                                                   *)
DeletePurchases(r) ==
    /\ pc[r] = "del_rows"
    /\ job[r].todo = {}
    /\ Start(r, "del_parent",
             [job[r] EXCEPT !.purchases = lc[job[r].lic].purchases])
    /\ UNCHANGED <<tables, locks, issued, now>>

ReferencedByChildrenNoActivations(r) ==
    LET l == job[r].lic IN
    \/ lc[l].purchases # job[r].purchases
    \/ lc[l].extensions # job[r].extensions

(* A child row committed after its table was swept still references l.     *)
ReferencedByChildren(r) ==
    LET l == job[r].lic IN
    \/ lc[l].purchases # job[r].purchases
    \/ lc[l].extensions # job[r].extensions
    \/ \E m \in Machines \ job[r].gone : HasRow(<<l, m>>)

DeleteCommit(r) ==
    LET l == job[r].lic IN
    /\ pc[r] = "del_parent"
    /\ LicenseRowFree(l)
    /\ Live(l)
    /\ ~ReferencedByChildren(r)
    /\ lc' = [lc EXCEPT ![l] = NoLicense("deleted")]
    /\ act' = [i \in Activations |->
                  IF i[1] = l /\ i[2] \in job[r].gone THEN NoActivation ELSE act[i]]
    /\ ReleaseLocks(r)
    /\ AnswerCommitted(r)
    /\ UNCHANGED <<productActive, issued, now>>

(* The foreign key refuses, or the license is already gone: roll back.     *)
DeleteRefused(r) ==
    /\ pc[r] = "del_parent"
    /\ LicenseRowFree(job[r].lic)
    /\ \/ Live(job[r].lic) /\ ReferencedByChildren(r) /\ Answer(r, "INTERNAL")
       \/ ~Live(job[r].lic) /\ Answer(r, "NOT_FOUND")
    /\ ReleaseLocks(r)
    /\ UNCHANGED <<tables, issued, now>>

-----------------------------------------------------------------------------
(* Failures.  Any step of a request can fail, its first one too (a         *)
(* statement, the connection, the process, the signer), and what is not    *)
(* committed is rolled back.  A commit that fails after it took effect is  *)
(* in AnswerCommitted; for Activate's it is a failure to sign.  PostgreSQL *)
(* aborts one member of a cycle of waits.                                  *)

InFlight(r) == pc[r] \notin {"idle", "answer"}

Fail(r) ==
    /\ pc[r] # "answer"
    /\ ReleaseLocks(r)
    /\ Answer(r, "INTERNAL")
    /\ UNCHANGED <<tables, issued, now>>

(* r cannot take its next step before s ends its transaction.              *)
WaitsFor(r, s) ==
    \/ pc[r] \in {"act_lock", "del_parent"} /\ lcLock[job[r].lic] = s
    \/ pc[r] = "act_row" /\ actLock[<<job[r].lic, job[r].mach>>] = s
    \/ /\ pc[r] = "pur_commit"
       /\ \E l \in Licenses : Registered(job[r].acc, l) /\ lcLock[l] = s
    \/ /\ pc[r] = "del_rows"
       /\ \A m \in job[r].todo : ~ActivationRowFree(<<job[r].lic, m>>)
       /\ \E m \in job[r].todo : actLock[<<job[r].lic, m>>] = s

WaitCycle(C) == C # {} /\ \A r \in C : \E s \in C : WaitsFor(r, s)

DeadlockedUndetected(r) == FALSE

Deadlocked(r) ==
    \E C \in SUBSET Requests :
        r \in C /\ WaitCycle(C) /\ \A D \in SUBSET C \ {C} : ~WaitCycle(D)

DeadlockVictim(r) == Deadlocked(r) /\ Fail(r)

Tick ==
    /\ now < MaxNow
    /\ now' = now + 1
    /\ UNCHANGED <<tables, locks, request, issued>>

-----------------------------------------------------------------------------
(* Everything a request in flight does next by itself.                     *)
Advance(r) ==
    \/ ActivateLock(r) \/ ActivateGone(r) \/ ActivateFindRow(r)
    \/ ActivateReuse(r) \/ ActivateCount(r) \/ ActivateRefuse(r)
    \/ ActivateWrite(r) \/ ActivateSign(r)
    \/ PurchaseAddSeats(r) \/ PurchaseOverflow(r) \/ PurchaseCreate(r)
    \/ DeleteScan(r) \/ DeleteRow(r) \/ DeletePurchases(r)
    \/ DeleteCommit(r) \/ DeleteRefused(r)

(* Everything an idle request may be asked to do.                          *)
Begin(r) ==
    \/ \E a \in Accounts :
        \/ \E m \in Machines : ActivateLookup(r, a, m)
        \/ ActivateUnregistered(r, a)
        \/ \E n \in SeatChoices, k \in MonthChoices : PurchaseCheck(r, a, n, k)
        \/ PurchaseNoProduct(r, a)
    \/ \E i \in Activations :
        \/ Deactivate(r, i)
        \/ \E adm \in Admins : ForceDeactivate(r, i, adm)
    \/ \E l \in Licenses :
        \/ \E k \in MonthChoices : ExtendSubscription(r, l, k)
        \/ ExtendMissing(r, l)
        \/ DeleteStart(r, l)
    \/ \E p \in Products, aktif \in BOOLEAN : SetProductStatus(r, p, aktif)
    \/ \E code \in {"INVALID_LICENSE", "VALIDATION"} : Reject(r, code)

Next ==
    \/ \E r \in Requests : Begin(r) \/ Advance(r) \/ Fail(r) \/ Respond(r)
    \/ Tick

Spec == Init /\ [][Next]_vars

(* PostgreSQL queues the waiters of a row lock, so a request that could    *)
(* take its lock again and again gets it; its deadlock detector runs.      *)
Fairness ==
    \A r \in Requests :
        /\ SF_vars(Advance(r))
        /\ WF_vars(DeadlockVictim(r))

FairSpec == Spec /\ Fairness

-----------------------------------------------------------------------------
(* What holds in every state.                                              *)

(* Every variable has its type; a request's local variables are those of   *)
(* the step it is about to take.                                           *)
TypeOK ==
    /\ productActive \in [Products -> BOOLEAN]
    /\ lc \in [Licenses -> LicenseRow]
    /\ act \in [Activations -> ActivationRow]
    /\ lcLock \in [Licenses -> Requests \cup {Null}]
    /\ actLock \in [Activations -> Requests \cup {Null}]
    /\ pc \in [Requests -> Pcs]
    /\ DOMAIN job = Requests
    /\ \A r \in Requests : job[r] \in JobsAt(pc[r])
    /\ issued \subseteq Activations
    /\ now \in Nat

Seats == INSTANCE SeatQuota WITH
             MaxCapacity <- MaxInt4,
             capacity <- [l \in Licenses |-> lc[l].max],
             holders <- [l \in Licenses |-> Holders(l)]

(* The requests, transactions and locks implement the seats of SeatQuota:  *)
(* each commit takes, frees, adds or closes seats as it allows, and no     *)
(* other step changes who holds one (Activate, Deactivate, RecordPurchase, *)
(* DeleteLicense together).                                                *)
SeatsRefined == Seats!Spec

(* How far a request has come, for one who sees neither its transaction    *)
(* nor its locks, ...                                                      *)
StageOf(p, j) ==
    CASE p = "idle" -> [at |-> "idle"]
      [] p \in {"act_lock", "act_row"} ->
            [at |-> "found", lic |-> j.lic, mach |-> j.mach, due |-> j.due]
      [] p \in {"act_reuse", "act_count", "act_write"} ->
            [at |-> "dated", lic |-> j.lic, mach |-> j.mach, exp |-> j.exp]
      [] p = "act_sign" -> [at |-> "seated", lic |-> j.lic, mach |-> j.mach]
      [] p = "pur_commit" ->
            [at |-> "ordered", acc |-> j.acc, seats |-> j.seats, months |-> j.months]
      [] p \in DeletePcs -> [at |-> "closing", lic |-> j.lic]
      [] p = "answer" -> [at |-> "told", code |-> j.code]

Stages == [r \in Requests |-> StageOf(pc[r], job[r])]

(* ... and a license without its child rows.                               *)
LicenseOf(row) == [state |-> row.state, max |-> row.max, due |-> row.due]

Parents == [l \in Licenses |-> LicenseOf(lc[l])]

Atomic == INSTANCE AtomicLicenses WITH lc <- Parents, req <- Stages

(* Every request acts as if it ran alone: the transactions, their locks    *)
(* and their rollbacks implement the atomic operations of AtomicLicenses,  *)
(* with their answers.  A seat is granted or refused by the quota, the     *)
(* seats taken and the machine's row of one moment; DeleteLicense takes    *)
(* everything or nothing.  A refusal is given only when nothing happened   *)
(* and OK only when all of it did; after INTERNAL it is one or the other,  *)
(* except that a machine may be seated and its license.lic not signed.     *)
ActsAtomically == Atomic!Spec

(* "the number of ACTIVE activation rows for a license_customers pair must *)
(* never exceed its max_activations" (package license), however requests   *)
(* interleave, fail or are aborted.                                        *)
SeatsNeverOversold == Seats!NeverOversold

(* A transaction that locked the license row may act on what it read: to   *)
(* its end, max_activations and the status of the machine's row, which     *)
(* choose between reuse, refusal and a new seat, are still those it read.  *)
ReadsStayTrue ==
    \A r \in Requests :
        /\ pc[r] \in InsideActivate =>
              Live(job[r].lic) /\ job[r].max = lc[job[r].lic].max
        /\ pc[r] \in InsideActivate \ {"act_row"} =>
              job[r].found = act[<<job[r].lic, job[r].mach>>].status

(* No activations row refers to a license that is not there: a machine     *)
(* activating while its license is being deleted leaves nothing behind.    *)
NoOrphanActivation ==
    \A l \in Licenses, m \in Machines : HasRow(<<l, m>>) => Live(l)

(* A signed license.lic always names a committed activation, unless its    *)
(* license was deleted since: Activate signs only after the commit.        *)
IssuedLicenseIsBacked ==
    \A i \in issued : HasRow(i) \/ lc[i[1]].state = "deleted"

(* An ACTIVE row names no admin who released it, even when the seat was    *)
(* force-deactivated before and reclaimed since.                           *)
ActiveRowHasNoReleaser ==
    \A i \in Activations : act[i].status = "ACTIVE" => act[i].by = Null

(* Requests wait for each other in a cycle only with a DeleteLicense in    *)
(* it: activations and purchases alone take their locks in one order.      *)
WaitCycleNeedsDelete ==
    \A C \in SUBSET Requests :
        WaitCycle(C) => \E r \in C : pc[r] \in DeletePcs

(* QUOTA_EXCEEDED is answered only to a machine that holds no seat, when   *)
(* none is free: a retry after a lost answer and the reinstall of an       *)
(* activated machine are never refused, whatever runs meanwhile.           *)
RefusalIsJustified ==
    [][\A r \in Requests :
         ActivateRefuse(r) =>
             /\ job[r].mach \notin Holders(job[r].lic)
             /\ Cardinality(Holders(job[r].lic)) >= lc[job[r].lic].max]_vars

(* A renewal keeps the time already paid for: the new due date is the old  *)
(* one and the months on top, or later, also after it lapsed               *)
(* (ExtendSubscription: MAX(now, current subscription_expires_at)).        *)
RenewalKeepsPaidTime ==
    [][\A r \in Requests, l \in Licenses, k \in MonthChoices :
         ExtendSubscription(r, l, k) /\ lc[l].due # Null =>
             lc'[l].due >= lc[l].due + k * Month]_vars

(* Every request is answered, however they contend for rows and even when  *)
(* they deadlock.                                                          *)
EveryRequestAnswered ==
    \A r \in Requests : InFlight(r) ~> pc[r] = "answer"

-----------------------------------------------------------------------------
(* What the repository says of this code and the code does not do.         *)

(* "A subscription customer's license.lic always reflects their real due   *)
(* date (plus grace)" (license.go, Activate): the expiry committed and     *)
(* signed is the due date then on record, plus the grace period.           *)
LicenseReflectsDueDate ==
    [][\A r \in Requests :
         (ActivateReuse(r) \/ ActivateWrite(r)) /\ lc[job[r].lic].due # Null =>
             act'[<<job[r].lic, job[r].mach>>].exp
                 = lc[job[r].lic].due + Grace]_vars

-----------------------------------------------------------------------------
(* The inductive invariant: why the above hold.                            *)

(* The license row is locked exactly inside Activate's transaction.        *)
LicenseLockInv ==
    \A l \in Licenses, r \in Requests :
        lcLock[l] = r <=> pc[r] \in InsideActivate /\ job[r].lic = l

(* Who may hold an activations row, ...                                    *)
MayHoldRow(r, i) ==
    \/ /\ pc[r] \in InsideActivate \ {"act_row"}
       /\ i = <<job[r].lic, job[r].mach>>
       /\ job[r].found # "NONE"
    \/ /\ pc[r] \in DeletePcs
       /\ i[1] = job[r].lic
       /\ i[2] \in job[r].gone

(* ... and that a holder's row exists.                                     *)
RowLockInv ==
    \A i \in Activations, r \in Requests :
        actLock[i] = r => MayHoldRow(r, i) /\ HasRow(i)

(* Inside Activate: the row found is held, and decides the case taken.     *)
FoundRowInv ==
    \A r \in Requests :
        pc[r] \in InsideActivate \ {"act_row"} =>
            /\ job[r].found # "NONE" =>
                  actLock[<<job[r].lic, job[r].mach>>] = r
            /\ (job[r].found = "ACTIVE") <=> (pc[r] = "act_reuse")

(* Inside DeleteLicense: the license existed when it began.                *)
DeleteBegunInv ==
    \A r \in Requests :
        pc[r] \in DeletePcs => lc[job[r].lic].state # "unborn"

(* While the license is live, rows seen are still there and rows swept are *)
(* held.                                                                   *)
DeleteInv ==
    \A r \in Requests :
        pc[r] \in DeletePcs /\ Live(job[r].lic) =>
            /\ \A m \in job[r].todo : HasRow(<<job[r].lic, m>>)
            /\ \A m \in job[r].gone : actLock[<<job[r].lic, m>>] = r

(* The seat counted free is still free when it is taken.                   *)
SeatStaysFree ==
    \A r \in Requests :
        pc[r] = "act_write" =>
            Cardinality(Holders(job[r].lic)) < lc[job[r].lic].max

(* A license that is not live has no seats.                                *)
CapacityInv == \A l \in Licenses : ~Live(l) => lc[l].max = 0

(* A license.lic about to be signed is backed as well.                     *)
SignInv ==
    \A r \in Requests :
        pc[r] = "act_sign" =>
            \/ HasRow(<<job[r].lic, job[r].mach>>)
            \/ lc[job[r].lic].state = "deleted"

IInv ==
    /\ TypeOK
    /\ LicenseLockInv
    /\ RowLockInv
    /\ FoundRowInv
    /\ DeleteBegunInv
    /\ DeleteInv
    /\ SeatStaysFree
    /\ CapacityInv
    /\ NoOrphanActivation
    /\ ReadsStayTrue
    /\ SeatsNeverOversold
    /\ SignInv
    /\ IssuedLicenseIsBacked
    /\ ActiveRowHasNoReleaser
==============================================================================

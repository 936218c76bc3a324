# A formal model of the license server

This directory holds TLA+ specifications of the license server in `src/` (Go,
PostgreSQL), their model-checking configurations for TLC, and proofs checked by
TLAPS. Line numbers are those of the files under `src/`.

## 1. The system

A vendor sells products. A *license* (`license_customers`, one row per email
and product) has a number of seats, `max_activations`; a machine that activates
holds one (`activations`, one row per license and machine fingerprint) and gets
a signed `license.lic` it can check offline. Several server instances, each
serving any number of requests at once, share one database at READ COMMITTED;
no server keeps state of its own between requests. All concurrency control is
row locks (`FOR UPDATE`), single conditional statements, and constraints.

| Component | State | Operations | Correct when |
|---|---|---|---|
| activation service (`internal/service/license`) | `activations`, reads `license_customers`, `products` | Activate, Deactivate | seats are never oversold; reuse is free; a signed license is backed by a row |
| branch service (`internal/service/branch`) | `branches` | Check, Register, Release | branch quota as for seats |
| purchases and licenses (`internal/service/admin`) | `license_customers`, `purchases`, `subscription_extensions`, `customers` | RecordPurchase, ExtendSubscription, SetMaxBranches, DeleteLicense, ForceDeactivate, ForceDeactivateBranch | totals match the audit trail; renewals keep paid time; no orphans |
| product and customer directory (`internal/service/admin`) | `products`, `customers` | Create, Update, SetProductStatus, Delete, List | nothing in use is deleted |
| admin log-in (`internal/handler/session.go`, `captcha.go`) | none on the server: two signed cookies in one browser | log in, log out, captcha, `requireAdmin` | sessions end on time, a logout sticks, a code read right is accepted, no redirect loop |
| start-up (`internal/repository`, `cmd/licenseserver`) | `schema_migrations`, `admin_users` | Migrate, EnsureBootstrapAdmin | each migration once, at least one admin |
| signing (`internal/crypto`), ids (`internal/idgen`) | none | Sign, Verify, Generate | - |
| HTTP handlers, templates (`internal/handler`, `web/templates`) | none; pages in browser tabs, licenses in `license.lic` files | parse, answer, redirect | one answer per request; pages and alerts tell the truth |
| configuration, error codes, models, key generation | none | - | - |

How they interact: handlers call the services; services meet only in the
database. Activate reads what RecordPurchase and ExtendSubscription write;
DeleteLicense removes rows that every other operation may be holding or
inserting. The answer is sent after the commit, so a lost connection leaves the
client not knowing whether its request took effect. Administrators act on pages
that were put together by several queries some time ago, from several tabs that
share their cookies.

What is hard here: two requests on the last seat; values read before a lock and
used after it (`license.go:73`, `branch.go:91`); opposite lock orders
(`license.go:92-99` against `admin.go:382-387`); child rows inserted while the
parent is being deleted; signing after the commit; checks outside the
transaction they are for (`admin.go:200`, `admin.go:149`); calls that are
repeated because their answer was lost, or carried out after their caller gave
them up; cookies that expire while they are on their way.
`PROJECT.json` lists each of these hazards at its line with the properties that
cover it.

## 2. Modules

What the components promise, as abstract specifications:

| Module | Promise | Implemented by | As the property |
|---|---|---|---|
| `SeatQuota` | A license has a capacity and a set of machines holding a seat. Seats are added, taken while one is free, freed, and closed all together; nothing else happens. | `LicenseActivation`, `BranchRegistration`, `ClientProtocol` | `SeatsRefined`, `SlotsRefined`, `PlacesRefined` |
| `AtomicLicenses` | Every request about a license takes effect in one step, or not at all, and its answer is true of the tables in that step. No transactions, no locks. | `LicenseActivation` | `ActsAtomically` |
| `AtomicBranches` | The same for branches. | `BranchRegistration` | `ActsAtomically` |
| `SalesBooks` | Customers, products and licenses change by whole purchases, entries and removals; nothing is removed that a license refers to. | `BackOffice` | `BooksRefined` |
| `SchemaHistory` | The schema grows by one whole migration at a time, in order; who begins to serve has what its release needs. | `Startup` | `HistoryRefined` |

What the code does not promise is left open in them and can be read there: in
`AtomicLicenses` and `AtomicBranches` the due date, the quota of branches and the
product's status are those of an earlier lookup, signing follows taking the
seat, and INTERNAL may be the answer to anything, from the first statement to
the last. INTERNAL leaves open whether the request took effect: a commit that
is reported as failed may have succeeded. Promised is that it took effect wholly
or not at all (an activation up to its signature), and that every other answer
is true of the step that decided it. In `SalesBooks` a purchase takes a product
that is there and need not be active any more. In `SchemaHistory` an account may
be added beside others.

The detailed modules:

* **`LicenseActivation`**: seats, machines and licenses. A request is a process that goes
  from `idle` through the round trips of its handler to `answer`:

  | Code | Actions |
  |---|---|
  | `license.Service.Activate` | `ActivateLookup`, `ActivateUnregistered`, `ActivateLock`, `ActivateGone`, `ActivateFindRow`, `ActivateReuse` (case 2), `ActivateCount`/`ActivateRefuse`, `ActivateWrite` (cases 1, 3), `ActivateSign` |
  | `license.Service.Deactivate`, `admin.Service.ForceDeactivate` | `Deactivate`, `ForceDeactivate` (each `ReleaseSeat` or `ReleaseNothing`) |
  | `admin.Service.RecordPurchase` | `PurchaseCheck`, `PurchaseNoProduct`, `PurchaseAddSeats`, `PurchaseOverflow`, `PurchaseCreate` |
  | `admin.Service.ExtendSubscription`, `SetProductStatus` | `ExtendSubscription`, `ExtendMissing`, `SetProductStatus` |
  | `admin.Service.DeleteLicense` | `DeleteStart`, `DeleteScan`, `DeleteRow`, `DeletePurchases`, `DeleteCommit`, `DeleteRefused` |
  | validation, `crypto.Verify` failing | `Reject` |
  | an error at any step, a client or server gone | `Fail` |
  | a commit, or a single statement, that took effect and is reported as done or as failed (`license.go:209-215`, `admin.go:272-274`, `394-396`, `727-729`) | `AnswerCommitted` in each action that has an effect |
  | PostgreSQL's deadlock detector | `DeadlockVictim` |

  `lc` is the `license_customers` table, with the number of child rows in
  `purchases` and `subscription_extensions`; `act` is `activations`. `lcLock`
  and `actLock` say which transaction holds a row. `job[r]` holds the local
  variables of the handler that its remaining steps use. `issued` is the set
  of activation ids in a signed `license.lic`.
* **`BranchRegistration`**: the same for branches, with the same processes and
  row locks:

  | Code | Actions |
  |---|---|
  | `branch.lookupCustomer` | `Lookup`, `LookupFails` |
  | `branch.Service.Check`, `countActiveBranches` | `Check`, `CountActive` |
  | `branch.Service.Register` | `RegisterLookup`, `RegisterLock`, `RegisterFindRow`, `RegisterReuse` (case 2), `RegisterCount`/`RegisterRefuse`, `RegisterWrite` (cases 1, 3), `RegisterOrphan` |
  | `branch.Service.Release`, `admin.Service.ForceDeactivateBranch` | `ReleaseLookup`, `ReleaseUpdate`, `ForceDeactivateBranch` |
  | `admin.Service.SetMaxBranches` | `SetMaxBranches`, `SetMaxMissing` |
  | `admin.Service.DeleteLicense`, on `branches` | `DeleteStart`, `DeleteRow`, `DeleteSwept`, `DeleteCommit`, `DeleteRefused` |
  | `admin.Service.RecordPurchase`, creating the license | `CreateLicense` |

  `Fail` and `AnswerCommitted` are those of `LicenseActivation`
  (`branch.go:174-176`, `206-208`).

  Two things differ from Activate and are kept: the quota compared with is the
  one of the lookup, and the lock statement reports no error when the license
  is gone, so that Register goes on without a lock until the foreign key stops
  it. `peak` is a history variable, the highest quota the license has had; with
  it as the capacity, the module implements `SeatQuota` too.
* **`BackOffice`**: products, customers, licenses and purchases as rows with
  ids, under admins' requests:

  | Code | Actions |
  |---|---|
  | `admin.Service.RecordPurchase` | `PurchaseCheck`, `PurchaseNoProduct`, `FindLicense`, `PurchaseCreate`, `PurchaseOrphan`, `PurchaseAddSeats`, `PurchaseOverflow` |
  | `admin.findOrCreateCustomer` | `FindCustomer`, `CreateForPurchase`, `CreateClashes` |
  | `CreateCustomer`, `UpdateCustomerProfile`, `DeleteCustomer` | `CreateCustomer`, `CreateCustomerRefused`, `GetCustomerProfile`; `UpdateCustomerProfile`; `DeleteCustomerCount`, `DeleteCustomer`, `DeleteCustomerRefused` |
  | `CreateProduct`, `UpdateProduct`, `SetProductStatus`, `DeleteProduct` | `CreateProduct`, `CreateProductRefused`; `UpdateProduct`, `SetProductStatus`, `ProductMissing`; `DeleteProductCount`, `DeleteProduct`, `DeleteProductRefused` |
  | `DeleteLicense`, on these tables | `DeletePurchases`, `DeleteLicense`, `DeleteLicenseRefused` |
  | an error at any step; one reported after the commit | `Fail`; `AnswerCommitted` |

  Which request holds a row follows from where it stands: an open purchase
  holds the customer it found or entered and the license it found. `purchases`
  is the count and the sum of the audit rows; the license row carries its own
  totals.
* **`Startup`**: instances of the server on their way to serving. `Migrate` is
  `LookForTable`, `CreateTable`, `CreateTableFails`, then for each file
  `SkipMigration` or `BeginMigration`, `ApplyScript` or `ApplyFails`,
  `RecordVersion`, and at last `MigrateDone`; `EnsureBootstrapAdmin` is
  `CountAdmins`, `InsertAdmin`, `InsertFails`; `Boot` and `Crash` are the
  container runtime. `applied` counts how often each script took effect.
* **`ClientProtocol`**: the API as its callers live with it. A machine or a
  branch has a wish (`mode`: joining, using, leaving), one call under way and at
  most one it has given up that may still be carried out. The transactions are
  single steps; what is kept is the lookup before them and the answer after:

  | Code | Actions |
  |---|---|
  | the application on the customer's side (README "API contract") | `Want`, `Leave`, `Send`, `GiveUp`, `Receive` |
  | `license.Service.Activate` | `ActivateLookup`, `ActivateCommit`, `ActivateRefuse` |
  | `license.Service.Deactivate` | `Deactivate` |
  | `branch.Service.Register`, `Release` | `RegisterLookup`, `RegisterCommit`, `RegisterRefuse`; `ReleaseLookup`, `ReleaseUpdate` |
  | an error before the commit; after it, in the commit's own report, in signing or in counting | `Fail`; the code INTERNAL of a commit or of a `Release` (`Deactivate`, `ReleaseUpdate`) |
  | `admin.Service` | `RecordPurchase`, `ExtendSubscription`, `SetProductStatus`, `ForceRelease`, `DeleteLicense` |

  `file` is the `license.lic` each machine saved last. `disturbed` is a history
  variable: somebody other than the unit's own current call (an admin, or a call
  the unit gave up) changed its row. `Scenarios` bounds which units are there
  and how many purchases and renewals are to come.
* **`AdminSession`**: the log-in. `jar` is the browser's two cookies, shared by
  its tabs; a request carries the cookies of the moment it is sent, a response
  sets them the moment it arrives.

  | Code | Actions |
  |---|---|
  | `sessionSigner.requireAdmin`, `adminFromRequest`, `verify` | `AdminPage`, `AdminFromRequest`, `Verify` |
  | `AdminHandler.LoginPage`, `Logout` | `LoginPage`, `Logout` |
  | `AdminHandler.LoginSubmit` with `captchaSigner.verifyRequest`, `Service.Authenticate` | `CheckCaptcha`, `Authenticate`, `Grant`, `RefuseLogin` |
  | `captchaSigner.ServeImage` | `CaptchaImage` |
  | `setCookie`, `clearCookie` of both, as they take effect | `JarAfter` |
  | the browser, its clock, the connection | `Visit`, `ClickLogout`, `LoadImage`, `Submit`, `Arrive`, `Tick`, `Lose` |

* **`AdminPanel`**: the pages and forms about one license and its product, in
  several tabs. A page is read one query at a time and kept in view while other
  tabs go on; a form comes from a page of any age and is answered by a redirect
  whose URL carries the outcome.

  | Code | Actions |
  |---|---|
  | `AdminHandler.LicenseDetail` and its queries | `GetLicense`, `ListActivations`, `ListPurchases`, `ListBranches`, `ListSubscriptionExtensions`, `ErrorPage` |
  | `AdminHandler.Dashboard`, `ProductsPage` | `Dashboard`, `ProductsPage` |
  | `RecordPurchase`, `ExtendSubscription`, `SetBranchQuota`, `DeleteLicense`, `ForceDeactivate`, `ForceDeactivateBranch`, `ToggleProductStatus` | the actions of these names; `Refuse` |
  | their redirects | `Back`, `BackOfForm`, `BackOfReferer`, `Appended` |
  | an error, also of a form that took effect | `Refuse`; the `outcome` "err" of each form |
  | `applyFlash` | the `flash` of a page's URL |
  | the browser | `Open`, `Reload`, `Press`, `Arrive`, `Lose` |
  | machines and branches meanwhile | `Enter`, `Exit` |

  `told` is a history variable: what each tab's last form was, how it went, and
  whether somebody has undone it since. `Choices` bounds which forms are used
  together.
* **`LicenseActivationProofs`**, **`LicenseActivationTheorems`**,
  **`BranchRegistrationProofs`**, **`BackOfficeProofs`**, **`StartupProofs`**,
  **`ClientProtocolProofs`**, **`AdminSessionProofs`**, **`AdminPanelProofs`**:
  the inductive invariants and what follows from them.
* **`MCLicenseActivation`**, **`MCBranchRegistration`**, **`MCBackOffice`**,
  **`MCStartup`**, **`MCClientProtocol`**, **`MCAdminSession`**,
  **`MCAdminPanel`**: small instances.

`BackOffice` and `LicenseActivation` both have RecordPurchase. The first is
about the rows it depends on and takes it statement by statement; the second is
about what it does to Activate, which sees only its commit, and has it as one
step.

`LicenseActivation` and `BranchRegistration` share the license row and
DeleteLicense. They are checked apart: Activate never touches `branches` nor
Register `activations`, both take the license row first, and what one does to
the other is to make it wait for that row, which is a delay the other model
already allows.

The same operations appear in `ClientProtocol` and `AdminPanel` as single steps.
That a transaction may be taken as one step is what the first three modules are
for: they implement `AtomicLicenses`, `AtomicBranches` and `SalesBooks`, where it
is one. What is not one step there, the lookup before the transaction and
whatever comes after the commit, is a step of its own in `ClientProtocol` too,
which implements `SeatQuota` as the others do.

Abstractions. Emails and product codes are accounts; labels, notes, prices and
`last_seen_at` are left out. Dates are numbers, a month is a constant length,
and `Grace` and `Term` stand for `SubscriptionGracePeriod` and
`DefaultLicenseTerm`. An uncommitted write is not visible, so a transaction's
writes appear when it commits. A transaction whose only wait is its last
statement before the commit, or that holds locks no other modelled transaction
could wait on while it waits itself, is one step: RecordPurchase (serialized by
its `customers` row), ExtendSubscription, and the single-statement updates.
An effect comes no later than its answer: a statement that PostgreSQL still
carries out after its handler has answered INTERNAL is, for the tables, a
request still under way, and in `ClientProtocol` a call its caller gave up.
Rows of `purchases` and `subscription_extensions` are counted and not locked:
two deletions of one license wait for each other there in the database and at
the license row in the model, with the same answers. The sweeps of
`subscription_extensions` and `activations` take their snapshots together.

Taken as given: `idgen` never repeats an id, `crypto.Verify` accepts exactly
what `Sign` produced, and PostgreSQL does what its manual says of row locks,
unique and foreign keys.

In `AdminSession` a wrong password, a closed account and a failing query are one
and the same answer; a tab has one request under way (no double clicks, and no
image abandoned while it loads); there is one administrator. In `AdminPanel`
`purchase_count` and `max_activations` are one number, and a deleted license
does not come back under its id; every browser sends a Referer, so that
`BackOfReferer` has no fallback (`handler/admin.go:338-340`).

`TotalsMatchPurchases` is about what concurrent purchases, creations and
deletions leave behind. The totals and the audit row of one purchase are
written by two statements of one transaction, which others see together, and
so by one action: a split between those two is not in the model.

## 3. Runs

| Run | Instance | Shows |
|---|---|---|
| `seats` | 2 requests, 2 machines, 2 license ids, up to 2 seats | the safety and the inductive invariants, refinement of `SeatQuota` and of `AtomicLicenses` |
| `dates` | 2 requests, 1 machine, renewals of a month, clock 0 to 2, due dates to 3, under `FairSpec` | renewals before and after the due date add up; every request is answered, those that deadlock with a deletion too |
| `branches` | 2 requests, 2 branches, 1 license id, quotas 0 to 2, under `FairSpec` | the inductive invariant (branches within the highest quota, counts that stay true, no orphans, wait cycles only with a deletion), refinement of `SeatQuota` and of `AtomicBranches`, every request answered |
| `back_office` | 2 requests, 2 emails, 2 customer ids, 2 products, 2 license ids, under `FairSpec` | no license without customer and product, refinement of `SalesBooks`, totals match the purchases, every request answered |
| `startup` | 3 instances, one a release behind and one without a bootstrap account, 3 migrations, 2 stops, under `FairSpec` | migrations once and recorded, refinement of `SchemaHistory`, one bootstrap account, every instance comes to serve |
| `delivery` | 2 machines for 1 seat; 2 branches for 1 slot; 1 machine, renewed and bought again; 1 machine beside 1 branch; one late call at a time | who runs holds a place, who was told it is out holds none, no more run than were paid for, refinement of `SeatQuota` |
| `delivery_progress` | 1 machine or 1 branch, 2 licenses one after the other, a renewal, under `FairSpec` | every wish is answered, renewals reach the file, a lost place is regained |
| `session` | 2 tabs, 2 codes, clock 0 to 2, lifetimes of 1 | sessions end, a logout sticks, the code in view is accepted, redirects end |
| `panel` | 2 tabs, 2 purchases, 1 renewal, six choices of forms | the license page adds up, alerts and reports of success are true |
| `stale_due_date`, `stale_quota`, `flash` | the smallest instance that shows each | three places where the code does not do what it says (below) |

Bounds. Two machines on one seat are what a race for the last seat takes; a
second license id lets the account buy again after DeleteLicense, and lets
purchases add seats (a purchase starts only while a row id is left for it,
`RowIdLeft`). `MaxInt4 = 2` makes the overflow of `max_activations` happen. Two
requests suffice for every pair of operations to interleave at every step.
`MaxNow` and `MaxDue` bound clock and dates; two ticks let a cookie of lifetime
1 be made, be good at its last second, and expire. In `panel`, `MaxPurchases = 2`
is one purchase beside the reading of a page. The scenarios of `delivery` and
the choices of `panel` bring together what can get in each other's way; units
or forms that share no row are not put into one behaviour. Where a run checks
safety only, requests and machines are interchangeable and `seats` uses
symmetry; the runs with liveness do not. The proofs remove all these bounds for
the safety properties.
One account is enough: two accounts share nothing but `products.status_aktif`.
In `BackOffice` a request that needs a new row starts only while ids are left
for it and for every open purchase (`IdsLeft`). In `Startup`, `MaxCrashes`
bounds the stops from outside; an instance's own exits are not bounded. An
instance that serves does nothing more there, so its run does not look for
deadlock.

Fairness (`FairSpec`). Strong fairness of each request's own steps: PostgreSQL
grants a contended row lock in arrival order, so a request whose lock is free
again and again gets it. Weak fairness of `DeadlockVictim`: the deadlock
detector runs after `deadlock_timeout` and aborts one member of a cycle.
Nothing is assumed of `Fail`, of clients, or of admins. In `Startup` each
instance's steps are weakly fair: a process that runs goes on, and
`docker-compose.yml` restarts one that exits. In `ClientProtocol` a caller that
is owed an answer asks again, and one that runs refreshes ("on every app start,
or at least daily"), so its own steps and the server's step on its current call
are weakly fair; and not every attempt is lost or answered INTERNAL, so lookup,
carrying out and hearing an answer that tells something are strongly fair. A
late call need never be carried out, and admins need never act.

### What the code does not do

* `stale_due_date`: Activate reads `subscription_expires_at` in its lookup,
  before the transaction (`license.go:68-73`). An extension committed between
  the lookup and the lock is not in the expiry that is then stored and signed,
  although `license.go:110` says it "always reflects their real due date".
* `stale_quota`: Register compares its count with the `max_branches` of its
  lookup, before the transaction (`branch.go:91`); what the locking statement
  at `branch.go:105` reads is thrown away. When the quota is lowered in
  between, a branch is registered beyond it, although `branch.go:9` says
  Register "mirrors" Activate, which reads its quota under the lock.
* `flash`: a release from the license page puts its `?ok=` or `?err=` behind
  the Referer (`admin.go:346`, `admin.go:421`), which may have one already; the
  page that follows then shows the alert of the earlier form.

Others follow from reading the actions, and have no run:

* Extending a lifetime license gives it a due date a few months away
  (`ExtendSubscription`), although `admin.go:679` says this "never costs"
  anything.
* `Migrate` checks a version and applies it later, with no lock in between: an
  instance can execute a script another has committed since (`ApplyScript`,
  `ApplyFails`), fails on what is there and exits, although `db.go:31` says an
  applied version "is never re-run". Nothing is applied twice, and the restart
  succeeds (`startup`).
* NOT_FOUND does not only mean "already deactivated" (`README.md:120`): after
  DeleteLicense and a new purchase the activation that an old `license.lic`
  names is gone, while the machine may hold a seat under a new one. This is why
  `OutsiderHoldsNothing` speaks of the activation the file names.
* A seat can be taken for nobody: an /activate that is carried out after its
  machine gave it up and went away. Only an admin can free that seat before the
  machine comes back (`disturbed`).
* INTERNAL is also answered after a commit: /activate when signing fails,
  /register of a branch that is there and /release when the count that follows
  does; and everywhere when a commit or a single statement took effect and only
  its acknowledgement failed (`license.go:209-215`, `branch.go:174-176`,
  `206-208`, `admin.go:272-274`, `394-396`, `727-729`; `AnswerCommitted`). A
  caller has to repeat, and to take NOT_FOUND for success after a repeated
  /deactivate, /release or deletion.
* A purchase repeated because its answer was lost, or was INTERNAL, may be
  recorded twice, and an extension granted twice (`RecordPurchase` and
  `ExtendSubscription` have nothing to recognize a repetition by).
* A solved captcha can be sent again until `captchaTTL` is over by somebody who
  kept a copy of its cookie: clearing a cookie in the browser takes nothing back
  of a code that only the cookie carries, although `captcha.go:4-7` says it "can
  never be replayed". `AdminSession` models a browser, which obeys.
* NOT_REGISTERED is also answered for an existing license of an inactive
  product (`ActivateUnregistered`), against `apperror.go:11`.
* A purchase whose product is deactivated after the check at `admin.go:200`
  still adds seats (`PurchaseAddSeats`), against `admin.go:129`.
* `EnsureBootstrapAdmin` counts and inserts in two statements; two instances
  given different usernames both insert (`InsertAdmin`), although `admin.go:50`
  says it creates the account "if (and only if)" there is none.
* `DeleteProduct` deletes a product whose licenses have been deleted, although
  `admin.go:143` says "only when it has never had a customer recorded against
  it".

## 4. Proofs

### LicenseActivation

All theorems assume only `ConstantsAssumption`: finitely many machines, `Null`
distinct from requests, admins and numbers, purchases of 1 to `MaxInt4` seats.
Any number of licenses, accounts, requests, admins is allowed.

`IInv` is the inductive invariant. The properties alone are not inductive, and
its other parts say why they hold:

* `LicenseLockInv`: the license row is locked exactly by the request inside
  Activate's transaction; so there is one at a time, and (with
  `ReadsStayTrue`) only it can add a holder or see `max_activations` change.
* `RowLockInv`, `FoundRowInv`: who may hold an activations row; the row
  Activate found is held by it, so nobody releases or deletes it meanwhile,
  and its status decides the case taken.
* `SeatStaysFree`: the count made before the insert is still below the quota at
  the insert. Releases only lower the count, purchases only raise the quota.
* `DeleteBegunInv`, `DeleteInv`: rows swept by DeleteLicense are held by it
  while the license is live. The foreign key and the license lock do the rest
  for `NoOrphanActivation`.
* `CapacityInv`, `SignInv`: bookkeeping for the refinement and for
  `IssuedLicenseIsBacked`.

`LicenseActivationProofs` has one lemma per kind of step (`QuietStep`,
`RollbackStep`, `CommitStep`, ...), each with one step per conjunct it can
disturb, and concludes `StepPreserves` and `Invariance`.
`LicenseActivationTheorems` derives each property; `DeadlockNeedsDelete` argues
that without a deletion a request waits for one inside Activate, which waits at
most for a row whose holder waits for nothing; `ImplementsSeatQuota` maps
`ActivateWrite` to `TakeSeat`, `ReleaseSeat` to `FreeSeat`, the purchases to
`AddSeats`, `DeleteCommit` to `Close`, and every other step to a stutter.

`ImplementsAtomicLicenses` says more: the requests and their answers are mapped
too. A request is shown by how far it has come for one who sees no transaction
(`StageOf`), a license without its child rows (`LicenseOf`). Activate takes
effect when it commits or is refused: by then `ReadsStayTrue` and `SeatStaysFree`
make what it read and counted the tables of that very step, so the choice of
cases is that of `MayHaveSeat`. DeleteLicense takes effect at its commit, where
the foreign key has seen to it that what it swept is all there was, and
`NoRowIsEmpty` that nothing is left of a row that is not there; until then its
sweeps are invisible, and so is every wait, deadlock and rollback. A commit
that answers OK or INTERNAL (`AnswerCommitted`) is one `Done` of the abstract
operation (`CommitDone`), and `Fail`, from `idle` on, is the abstract `Fail`,
which changes no table. The justified
refusals (`RefusalsAreJustified`) and the absence of orphans (`NoOrphans`)
follow from it and are proved by themselves as well.

### BranchRegistration

`BranchConstantsAssumption`: finitely many branch codes, `Null` apart, quotas
that are numbers. `BranchRegistrationProofs` splits the invariant by request:
the locks a request holds (`LocksInv`), what it found inside Register
(`RegisterInv`), what it swept inside DeleteLicense (`SweepInv`). A step that
changes no table leaves the other requests as they are (`RequestMoves`); only
the four steps that change one are looked at from every request's side. That
the quota of a lookup may be stale is why the bound is `peak` and not
`max_branches`. `NoOrphans` needs no lock of Register's own: the lock statement
may have found nothing, and then the foreign key stops the write.

`ImplementsAtomicBranches` maps Register, Release and DeleteLicense to steps of
`AtomicBranches` as above, by `CountStaysTrue` instead of `SeatStaysFree`. A
Register that found its license gone commits nothing: the foreign key stops it
(`RegisterOrphan`), and the caller is told INTERNAL. It is told the same by a
commit that took effect and is reported as failed (`CommitDone`).

### BackOffice

`BackOfficeProofs` splits the invariant into what it says of the tables, of one
request (`CustomerHeld`: an open purchase has its customer's row, new or
found) and of two (`CustomersApart`: no two of them have the same). With the
customer row held, `FoundStaysTrue` is a lemma about each deletion: a
DeleteCustomer, DeleteProduct or DeleteLicense either waits for the row or
fails at a foreign key. `UniqueKeys`, one row per email and per email and
product, is proved from the database's refusals in `CreateClashes` and in
`PurchaseCreate`.

`ImplementsSalesBooks` maps only the tables. A purchase takes effect at its
commit (`CreationIsPurchase`, `AdditionIsPurchase`), and `FoundStaysTrue`
(`PurchaseIsRaceFree`) makes what it found several statements earlier all there
is to find, so that a purchase enters one person and one license. With
`LicenseHasOwner`, the customer it found is the one the license has. A deletion
that counted first takes effect in its second statement, by what the foreign
keys check there and not by the count.

### Startup

The theorems assume `StartupAssumption`: every instance has at least the first
migration, and none more than `LastMigration`. `IInv` adds two parts to the
properties. `PositionInv`: from its first check on, the files before an
instance's position are recorded; this is what makes it ready when it comes to
the end of the list. `ScriptInv`: a script that has been executed and not
committed has not been applied, and one transaction at a time has executed it;
without it a commit could be the second one. `MoveKeepsInv` covers the steps
that only move an instance, `RecordKeepsInv` the commit. `OneUsernameOneAccount`
needs that all instances are given one username (see above).

`ImplementsSchemaHistory` shows an instance as down, starting or serving
(`Phase`) and the schema as the scripts that took effect. `RecordVersion` is the
upgrade: by `PositionInv` all earlier scripts are there and by `ScriptInv` this
one is not. `AccountGiven`, that only an instance with a bootstrap account looks
for one, is an invariant of its own.

### ClientProtocol

`IInv` says what calls in flight are worth: a unit's call serves its wish
(`CallServesMode`); an answer on its way is as true of the row as the mode it
will lead to, unless the row was disturbed (`AnswersAreTrue`); rows are of the
license there is (`RowsOfLicense`). The invariant is split by unit, since a call
touches only its own unit's row. `NoMoreRunThanPaid` counts: the units that run
are among those with an ACTIVE row, which are at most the quota
(`TakenWithinQuota`), by the cardinality theorems for finite sets.

`ImplementsSeatQuota` is proved once for a kind of units with its quota
(`PlacesMove`) and used for machines and for branches. `StepsOfPlaces` sorts all
steps into those that touch no row, one unit that comes or goes while the license
is there, a purchase, and a deletion; `RowsOfLicense` makes the ACTIVE rows the
holders of the one license there is.

### AdminSession

`SessionsExpire`: no session cookie in the browser or on its way is good for
longer than `SessionTTL` after the last password. `CaptchaFits`: the captcha
cookie is that of the image its tab shows, or is gone because time has passed.
`RequestShapes`: only the answer of a login brings a session.
`RedirectsAreSpent`: an expired session does not come back to life, so a visit
reaches `/admin` at most twice and `/admin/login` three times;
`NoRedirectLoop` by itself is far from inductive. The invariant is split into
the browser and the request of one tab; `TabMoves` covers every step that
leaves the cookies alone, `ArriveSetsCookies` and `ArriveFollows` the two
halves of a response's arrival. The four properties hold for any number of
tabs and codes and any lifetimes.

### AdminPanel

`ReadingAddsUp` is the reason for `DetailAddsUp`: the header is read first, and
while the license is there purchases and renewals only grow, so each list read
later has at least as many. `ReportsArrive` follows a form's outcome through the
redirect to the page. The invariant is split by tab; `OtherTab` says what a step
may do to the tables without touching what another tab shows or was told.

### What is only model-checked

Liveness, which is out of the prover's reach: `EveryRequestAnswered` in three
modules, `EveryInstanceServes`, `EveryWishAnswered`, `RenewalReachesFile`,
`LostPlaceRegained`. Every invariant and action property of the passing runs is
proved.

## 5. Not modelled

* The signature scheme (`internal/crypto`), random ids (`internal/idgen`), key
  generation, configuration, error codes and models: no state of their own, and
  taken as given above.
* JSON and form parsing, the wording and layout of templates, drawing the
  captcha.
* The handlers of the customer pages and of CreateProduct, UpdateProduct and
  DeleteProduct: their services are in `BackOffice`; a form of theirs that fails
  redirects as `BackOfForm` does.
* What migration `0004_customers_entity.sql` makes of the rows that are there:
  one script in one transaction, before the server that needs it answers any
  request.
* Double clicks and abandoned image loads in `AdminSession`, and a second row of
  `admin_users` beyond the bootstrap account: nothing in the code creates one.

Still worth doing: mapping the calls of `ClientProtocol` to the requests of
`AtomicLicenses` and `AtomicBranches`, answers included. They meet in `SeatQuota`
now, which knows who holds a place and not who was told what.

------------------------------ MODULE BackOffice ------------------------------
(***************************************************************************)
(* The rows behind a license in internal/service/admin: products,          *)
(* customers, licenses and the purchases that pay for them, under requests *)
(* of several admins at once.                                              *)
(*                                                                         *)
(* RecordPurchase finds or creates the customer, finds or creates the      *)
(* license and adds the seats, in one transaction.  The deletions of a     *)
(* customer and of a product count what refers to the row and delete it in *)
(* a second statement.  Ids are rows: a row that is deleted and entered    *)
(* again has a new id, as idgen gives it.                                  *)
(***************************************************************************)
EXTENDS Integers, FiniteSets

CONSTANTS
    Emails, Codes,                        \* customers.email, product_code
    CustomerIds, ProductIds, LicenseIds,  \* ids that rows can ever have
    Requests,                             \* concurrent requests of admins
    SeatChoices,                          \* seats sold in one purchase
    MaxInt4,                              \* range of max_activations
    Null

ASSUME BackOfficeAssumption ==
    /\ MaxInt4 \in Nat
    /\ SeatChoices \subseteq 1..MaxInt4
    /\ Null \notin CustomerIds \cup LicenseIds
    /\ IsFiniteSet(CustomerIds) /\ IsFiniteSet(LicenseIds)
    /\ IsFiniteSet(Requests)

VARIABLES
    customers,  \* customers[c]: state and email
    products,   \* products[p]: state, product_code and status_aktif
    lc,         \* license_customers
    purchases,  \* purchases[l]: how many rows l has there, and their seats
    pc, job     \* where each request stands, and its local variables

tables == <<customers, products, lc, purchases>>
vars == <<customers, products, lc, purchases, pc, job>>

-----------------------------------------------------------------------------
(* Rows and the local variables of the requests.  A row that is not live   *)
(* has no columns.                                                         *)

RowState == {"unborn", "live", "deleted"}
Totals == [count : Nat, seats : 0..MaxInt4]
NoPurchases == [count |-> 0, seats |-> 0]

CustomerRow == [state : RowState, email : Emails \cup {Null}]
NoCustomer(s) == [state |-> s, email |-> Null]

ProductRow == [state : RowState, code : Codes \cup {Null}, active : BOOLEAN]
NoProduct(s) == [state |-> s, code |-> Null, active |-> FALSE]

(* totals: purchase_count and max_activations, the row's running totals    *)
LicenseRow == [state : RowState, customer : CustomerIds \cup {Null},
               email : Emails \cup {Null}, product : ProductIds \cup {Null},
               totals : Totals]
NoLicense(s) == [state |-> s, customer |-> Null, email |-> Null,
                 product |-> Null, totals |-> NoPurchases]

PurchaseJob == [email : Emails, product : ProductIds, seats : SeatChoices,
                customer : CustomerIds \cup {Null}, new : BOOLEAN,
                lic : LicenseIds \cup {Null}]
CustomerJob == [customer : CustomerIds]
ProductJob == [product : ProductIds]
LicenseJob == [lic : LicenseIds, swept : Nat]
AnswerJob == [code : {"OK", "NOT_FOUND", "VALIDATION", "INTERNAL"}]
NoJob == [code |-> "OK"]

PurchasePcs == {"pur_customer", "pur_insert", "pur_license", "pur_write"}
CustomerPcs == {"del_customer", "profile"}
Pcs == PurchasePcs \cup CustomerPcs
        \cup {"del_product", "del_license", "idle", "answer"}

JobsAt(p) ==
    CASE p \in PurchasePcs -> PurchaseJob
      [] p \in CustomerPcs -> CustomerJob
      [] p = "del_product" -> ProductJob
      [] p = "del_license" -> LicenseJob
      [] OTHER -> AnswerJob

Init ==
    /\ customers = [c \in CustomerIds |-> NoCustomer("unborn")]
    /\ products = [p \in ProductIds |-> NoProduct("unborn")]
    /\ lc = [l \in LicenseIds |-> NoLicense("unborn")]
    /\ purchases = [l \in LicenseIds |-> NoPurchases]
    /\ pc = [r \in Requests |-> "idle"]
    /\ job = [r \in Requests |-> NoJob]

Live(rows) == {x \in DOMAIN rows : rows[x].state = "live"}
Unborn(rows) == {x \in DOMAIN rows : rows[x].state = "unborn"}

CustomersWith(e) == {c \in Live(customers) : customers[c].email = e}
LicensesWith(e, p) == {l \in Live(lc) : lc[l].email = e /\ lc[l].product = p}
LicensesOfCustomer(c) == {l \in Live(lc) : lc[l].customer = c}
LicensesOfProduct(p) == {l \in Live(lc) : lc[l].product = p}

-----------------------------------------------------------------------------
(* How a request starts, waits and answers.                                *)

Start(r, p, j) ==
    /\ pc' = [pc EXCEPT ![r] = p]
    /\ job' = [job EXCEPT ![r] = j]

Answer(r, code) == Start(r, "answer", [code |-> code])

(* The answer after a commit, which may be reported as failed although it  *)
(* took effect.                                                            *)
AnswerCommitted(r) == \E code \in {"OK", "INTERNAL"} : Answer(r, code)

Respond(r) ==
    /\ pc[r] = "answer"
    /\ Start(r, "idle", NoJob)
    /\ UNCHANGED tables

(* Purchases whose transaction is open, and what it holds until its end:   *)
(* the customers row, found or entered, and the license row it found.      *)
Purchasing(r) == pc[r] \in PurchasePcs

CustomerRowNeverHeld(c) == TRUE
CustomerRowFree(c) == \A r \in Requests : Purchasing(r) => job[r].customer # c

LicenseRowFree(l) == \A r \in Requests : Purchasing(r) => job[r].lic # l

(* An INSERT waits for an uncommitted one of the same unique key.          *)
EmailFree(e) ==
    \A r \in Requests : Purchasing(r) /\ job[r].new => job[r].email # e

(* idgen: an id no row has had and no open transaction has drawn           *)
FreshCustomer(c) == c \in Unborn(customers) /\ CustomerRowFree(c)

-----------------------------------------------------------------------------
(* admin.Service.RecordPurchase                                            *)

(* Seats, license type or months that are refused before any query.        *)
Reject(r) ==
    /\ pc[r] = "idle"
    /\ Answer(r, "VALIDATION")
    /\ UNCHANGED tables

(* Bound: a purchase or a new customer starts only while ids are left.     *)
IdsLeft ==
    LET n == Cardinality({r \in Requests : Purchasing(r)}) IN
    Cardinality(Unborn(customers)) > n /\ Cardinality(Unborn(lc)) > n

(* SELECT product_id ... WHERE product_code = $1 AND status_aktif          *)
PurchaseCheck(r, e, n) ==
    /\ pc[r] = "idle"
    /\ IdsLeft
    /\ \E p \in Live(products) :
        /\ products[p].active
        /\ Start(r, "pur_customer", [email |-> e, product |-> p, seats |-> n,
                                     customer |-> Null, new |-> FALSE, lic |-> Null])
    /\ UNCHANGED tables

PurchaseNoProduct(r, k) ==
    /\ pc[r] = "idle"
    /\ \A p \in Live(products) : products[p].code = k => ~products[p].active
    /\ Answer(r, "NOT_FOUND")
    /\ UNCHANGED tables

(* findOrCreateCustomer: SELECT customer_id ... FOR UPDATE                 *)
FindCustomer(r) ==
    /\ pc[r] = "pur_customer"
    /\ \/ \E c \in CustomersWith(job[r].email) :
            /\ CustomerRowFree(c)
            /\ Start(r, "pur_license", [job[r] EXCEPT !.customer = c])
       \/ /\ CustomersWith(job[r].email) = {}
          /\ Start(r, "pur_insert", job[r])
    /\ UNCHANGED tables

(* findOrCreateCustomer: INSERT INTO customers                             *)
CreateForPurchase(r) ==
    /\ pc[r] = "pur_insert"
    /\ EmailFree(job[r].email)
    /\ CustomersWith(job[r].email) = {}
    /\ \E c \in CustomerIds :
        /\ FreshCustomer(c)
        /\ Start(r, "pur_license", [job[r] EXCEPT !.customer = c, !.new = TRUE])
    /\ UNCHANGED tables

CreateClashesRetries(r) ==
    /\ pc[r] = "pur_insert"
    /\ EmailFree(job[r].email)
    /\ CustomersWith(job[r].email) # {}
    /\ Start(r, "pur_insert", job[r])
    /\ UNCHANGED tables

(* The email was entered since it was looked for.                          *)
CreateClashes(r) ==
    /\ pc[r] = "pur_insert"
    /\ EmailFree(job[r].email)
    /\ CustomersWith(job[r].email) # {}
    /\ Answer(r, "INTERNAL")
    /\ UNCHANGED tables

(* SELECT license_customer_id ... WHERE email AND product_id FOR UPDATE    *)
FindLicense(r) ==
    /\ pc[r] = "pur_license"
    /\ \/ \E l \in LicensesWith(job[r].email, job[r].product) :
            /\ LicenseRowFree(l)
            /\ Start(r, "pur_write", [job[r] EXCEPT !.lic = l])
       \/ /\ LicensesWith(job[r].email, job[r].product) = {}
          /\ Start(r, "pur_write", job[r])
    /\ UNCHANGED tables

AddedAsNew(t, n) == [count |-> t.count + 1, seats |-> n]
Added(t, n) == [count |-> t.count + 1, seats |-> t.seats + n]

(* license_customers.product_id REFERENCES products                        *)
ProductExists(p) == p \in Live(products)

(* INSERT INTO license_customers, INSERT INTO purchases, Commit            *)
PurchaseCreate(r) ==
    LET j == job[r] IN
    /\ pc[r] = "pur_write"
    /\ j.lic = Null
    /\ ProductExists(j.product)
    /\ \E l \in Unborn(lc) :
        LET t == Added(NoPurchases, j.seats) IN
        /\ lc' = [lc EXCEPT ![l] = [state |-> "live", customer |-> j.customer,
                                    email |-> j.email, product |-> j.product,
                                    totals |-> t]]
        /\ purchases' = [purchases EXCEPT ![l] = t]
    /\ customers' = IF j.new
                    THEN [customers EXCEPT ![j.customer] =
                            [state |-> "live", email |-> j.email]]
                    ELSE customers
    /\ AnswerCommitted(r)
    /\ UNCHANGED products

(* The product was deleted since it was checked: the foreign key refuses.  *)
PurchaseOrphan(r) ==
    /\ pc[r] = "pur_write"
    /\ job[r].lic = Null
    /\ ~ProductExists(job[r].product)
    /\ Answer(r, "INTERNAL")
    /\ UNCHANGED tables

FitsInt4Unchecked(n) == TRUE
FitsInt4(n) == n <= MaxInt4

(* UPDATE license_customers, INSERT INTO purchases, Commit                 *)
PurchaseAddSeats(r) ==
    LET l == job[r].lic
        n == job[r].seats IN
    /\ pc[r] = "pur_write"
    /\ l # Null
    /\ FitsInt4(lc[l].totals.seats + n)
    /\ lc' = [lc EXCEPT ![l].totals = Added(@, n)]
    /\ purchases' = [purchases EXCEPT ![l].count = @ + 1, ![l].seats = @ + n]
    /\ AnswerCommitted(r)
    /\ UNCHANGED <<customers, products>>

PurchaseOverflow(r) ==
    /\ pc[r] = "pur_write"
    /\ job[r].lic # Null
    /\ ~FitsInt4(lc[job[r].lic].totals.seats + job[r].seats)
    /\ Answer(r, "INTERNAL")
    /\ UNCHANGED tables

-----------------------------------------------------------------------------
(* Customers                                                               *)

(* admin.Service.CreateCustomer: one INSERT, ...                           *)
CreateCustomer(r, e) ==
    /\ pc[r] = "idle"
    /\ IdsLeft
    /\ EmailFree(e)
    /\ CustomersWith(e) = {}
    /\ \E c \in CustomerIds :
        /\ FreshCustomer(c)
        /\ customers' = [customers EXCEPT ![c] = [state |-> "live", email |-> e]]
        /\ Start(r, "profile", [customer |-> c])
    /\ UNCHANGED <<products, lc, purchases>>

CreateCustomerRefused(r, e) ==
    /\ pc[r] = "idle"
    /\ EmailFree(e)
    /\ CustomersWith(e) # {}
    /\ Answer(r, "VALIDATION")
    /\ UNCHANGED tables

(* ... and then GetCustomerProfile, which may come too late.               *)
GetCustomerProfile(r) ==
    /\ pc[r] = "profile"
    /\ Answer(r, IF job[r].customer \in Live(customers) THEN "OK" ELSE "NOT_FOUND")
    /\ UNCHANGED tables

(* admin.Service.UpdateCustomerProfile writes columns left out here, and   *)
(* never the email.                                                        *)
UpdateCustomerProfile(r, c) ==
    /\ pc[r] = "idle"
    /\ customers[c].state # "unborn"
    /\ CustomerRowFree(c)
    /\ Answer(r, IF c \in Live(customers) THEN "OK" ELSE "NOT_FOUND")
    /\ UNCHANGED tables

(* admin.Service.DeleteCustomer: SELECT COUNT ... license_customers, ...   *)
DeleteCustomerCount(r, c) ==
    /\ pc[r] = "idle"
    /\ customers[c].state # "unborn"
    /\ IF LicensesOfCustomer(c) = {}
       THEN Start(r, "del_customer", [customer |-> c])
       ELSE Answer(r, "VALIDATION")
    /\ UNCHANGED tables

(* license_customers.customer_id REFERENCES customers                      *)
CustomerUnusedUnchecked(c) == TRUE
CustomerUnused(c) == LicensesOfCustomer(c) = {}

(* ... then DELETE.                                                        *)
DeleteCustomer(r) ==
    LET c == job[r].customer IN
    /\ pc[r] = "del_customer"
    /\ CustomerRowFree(c)
    /\ c \in Live(customers)
    /\ CustomerUnused(c)
    /\ customers' = [customers EXCEPT ![c] = NoCustomer("deleted")]
    /\ AnswerCommitted(r)
    /\ UNCHANGED <<products, lc, purchases>>

DeleteCustomerRefused(r) ==
    LET c == job[r].customer IN
    /\ pc[r] = "del_customer"
    /\ CustomerRowFree(c)
    /\ \/ c \notin Live(customers) /\ Answer(r, "NOT_FOUND")
       \/ c \in Live(customers) /\ ~CustomerUnused(c) /\ Answer(r, "INTERNAL")
    /\ UNCHANGED tables

-----------------------------------------------------------------------------
(* Products                                                                *)

CodeTaken(k) == \E p \in Live(products) : products[p].code = k

(* admin.Service.CreateProduct.  Bound: while an id is left.               *)
CreateProduct(r, k) ==
    /\ pc[r] = "idle"
    /\ ~CodeTaken(k)
    /\ \E p \in Unborn(products) :
        products' = [products EXCEPT ![p] =
                        [state |-> "live", code |-> k, active |-> TRUE]]
    /\ AnswerCommitted(r)
    /\ UNCHANGED <<customers, lc, purchases>>

CreateProductRefused(r, k) ==
    /\ pc[r] = "idle"
    /\ CodeTaken(k)
    /\ Answer(r, "VALIDATION")
    /\ UNCHANGED tables

(* admin.Service.SetProductStatus                                          *)
SetProductStatus(r, p, aktif) ==
    /\ pc[r] = "idle"
    /\ p \in Live(products)
    /\ products' = [products EXCEPT ![p].active = aktif]
    /\ AnswerCommitted(r)
    /\ UNCHANGED <<customers, lc, purchases>>

(* SetProductStatus or UpdateProduct of a product that is gone             *)
ProductMissing(r, p) ==
    /\ pc[r] = "idle"
    /\ products[p].state = "deleted"
    /\ Answer(r, "NOT_FOUND")
    /\ UNCHANGED tables

(* admin.Service.UpdateProduct writes columns left out here, and never the *)
(* product_code or the status.                                             *)
UpdateProduct(r, p) ==
    /\ pc[r] = "idle"
    /\ p \in Live(products)
    /\ AnswerCommitted(r)
    /\ UNCHANGED tables

(* admin.Service.DeleteProduct: SELECT COUNT ... license_customers, ...    *)
DeleteProductCount(r, p) ==
    /\ pc[r] = "idle"
    /\ products[p].state # "unborn"
    /\ IF LicensesOfProduct(p) = {}
       THEN Start(r, "del_product", [product |-> p])
       ELSE Answer(r, "VALIDATION")
    /\ UNCHANGED tables

ProductUnused(p) == LicensesOfProduct(p) = {}

(* ... then DELETE.                                                        *)
DeleteProduct(r) ==
    LET p == job[r].product IN
    /\ pc[r] = "del_product"
    /\ p \in Live(products)
    /\ ProductUnused(p)
    /\ products' = [products EXCEPT ![p] = NoProduct("deleted")]
    /\ AnswerCommitted(r)
    /\ UNCHANGED <<customers, lc, purchases>>

DeleteProductRefused(r) ==
    LET p == job[r].product IN
    /\ pc[r] = "del_product"
    /\ \/ p \notin Live(products) /\ Answer(r, "NOT_FOUND")
       \/ p \in Live(products) /\ ~ProductUnused(p) /\ Answer(r, "INTERNAL")
    /\ UNCHANGED tables

-----------------------------------------------------------------------------
(* admin.Service.DeleteLicense, as far as these tables go                  *)

(* DELETE FROM purchases                                                   *)
DeletePurchases(r, l) ==
    /\ pc[r] = "idle"
    /\ lc[l].state # "unborn"
    /\ Start(r, "del_license", [lic |-> l, swept |-> purchases[l].count])
    /\ UNCHANGED tables

(* purchases.license_customer_id REFERENCES license_customers              *)
AllSwept(r) == purchases[job[r].lic].count = job[r].swept

(* DELETE FROM license_customers, Commit                                   *)
DeleteLicense(r) ==
    LET l == job[r].lic IN
    /\ pc[r] = "del_license"
    /\ LicenseRowFree(l)
    /\ l \in Live(lc)
    /\ AllSwept(r)
    /\ lc' = [lc EXCEPT ![l] = NoLicense("deleted")]
    /\ purchases' = [purchases EXCEPT ![l] = NoPurchases]
    /\ AnswerCommitted(r)
    /\ UNCHANGED <<customers, products>>

DeleteLicenseRefused(r) ==
    LET l == job[r].lic IN
    /\ pc[r] = "del_license"
    /\ LicenseRowFree(l)
    /\ \/ l \notin Live(lc) /\ Answer(r, "NOT_FOUND")
       \/ l \in Live(lc) /\ ~AllSwept(r) /\ Answer(r, "INTERNAL")
    /\ UNCHANGED tables

-----------------------------------------------------------------------------
(* A statement fails, the first one too, or the client or the server goes  *)
(* away: the open transaction rolls back.                                  *)
Fail(r) ==
    /\ pc[r] # "answer"
    /\ Answer(r, "INTERNAL")
    /\ UNCHANGED tables

Begin(r) ==
    \/ Reject(r)
    \/ \E e \in Emails, n \in SeatChoices : PurchaseCheck(r, e, n)
    \/ \E e \in Emails : CreateCustomer(r, e) \/ CreateCustomerRefused(r, e)
    \/ \E c \in CustomerIds :
            UpdateCustomerProfile(r, c) \/ DeleteCustomerCount(r, c)
    \/ \E k \in Codes :
            \/ PurchaseNoProduct(r, k)
            \/ CreateProduct(r, k) \/ CreateProductRefused(r, k)
    \/ \E p \in ProductIds :
            \/ \E aktif \in BOOLEAN : SetProductStatus(r, p, aktif)
            \/ UpdateProduct(r, p) \/ ProductMissing(r, p)
            \/ DeleteProductCount(r, p)
    \/ \E l \in LicenseIds : DeletePurchases(r, l)

Advance(r) ==
    \/ FindCustomer(r) \/ CreateForPurchase(r) \/ CreateClashes(r)
    \/ FindLicense(r) \/ PurchaseCreate(r) \/ PurchaseOrphan(r)
    \/ PurchaseAddSeats(r) \/ PurchaseOverflow(r)
    \/ GetCustomerProfile(r)
    \/ DeleteCustomer(r) \/ DeleteCustomerRefused(r)
    \/ DeleteProduct(r) \/ DeleteProductRefused(r)
    \/ DeleteLicense(r) \/ DeleteLicenseRefused(r)

Next == \E r \in Requests : Begin(r) \/ Advance(r) \/ Respond(r) \/ Fail(r)

Spec == Init /\ [][Next]_vars

(* PostgreSQL queues the waiters of a row lock, so a request that could    *)
(* take its lock again and again gets it.                                  *)
FairSpec == Spec /\ \A r \in Requests : SF_vars(Advance(r)) /\ WF_vars(Respond(r))

-----------------------------------------------------------------------------
(* Properties                                                              *)

TypeOK ==
    /\ customers \in [CustomerIds -> CustomerRow]
    /\ products \in [ProductIds -> ProductRow]
    /\ lc \in [LicenseIds -> LicenseRow]
    /\ purchases \in [LicenseIds -> Totals]
    /\ pc \in [Requests -> Pcs]
    /\ DOMAIN job = Requests
    /\ \A r \in Requests : job[r] \in JobsAt(pc[r])

(***************************************************************************)
(* A license never outlives its customer or its product, and its own copy  *)
(* of the email, which activation looks it up by, is its customer's        *)
(* (admin.go: DeleteCustomer, DeleteProduct, UpdateCustomerProfile), though *)
(* both deletions count the licenses before a purchase adds one.           *)
(***************************************************************************)
LicenseHasOwner ==
    \A l \in Live(lc) :
        /\ lc[l].customer \in Live(customers)
        /\ customers[lc[l].customer].email = lc[l].email
        /\ lc[l].product \in Live(products)

(***************************************************************************)
(* What RecordPurchase found, or did not find, is still so when it writes: *)
(* the customer, that there is no other for the email, and the license.    *)
(* In particular its INSERT of a license never meets the unique key.       *)
(***************************************************************************)
FoundStaysTrue ==
    \A r \in Requests :
        /\ pc[r] \in {"pur_license", "pur_write"} =>
            CustomersWith(job[r].email)
                = IF job[r].new THEN {} ELSE {job[r].customer}
        /\ pc[r] = "pur_write" =>
            LicensesWith(job[r].email, job[r].product) = {job[r].lic} \ {Null}

Books == INSTANCE SalesBooks

(***************************************************************************)
(* Customers, products and licenses change only by the whole operations of *)
(* SalesBooks: a purchase enters its customer, its license and its seats   *)
(* in one step, on top of what others entered since it began looking, and  *)
(* no deletion takes a row that a license refers to.                       *)
(***************************************************************************)
BooksRefined == Books!Spec

(***************************************************************************)
(* purchase_count and max_activations are the count and the sum of the     *)
(* license's rows in purchases (0001_initial_schema.sql: "the source of    *)
(* truth"), through concurrent purchases and deletions.                    *)
(***************************************************************************)
TotalsMatchPurchases == \A l \in LicenseIds : lc[l].totals = purchases[l]

(***************************************************************************)
(* Every request of an admin is answered, however many queue for the same  *)
(* customer or email.                                                      *)
(***************************************************************************)
EveryRequestAnswered == \A r \in Requests : pc[r] # "idle" ~> pc[r] = "answer"

-----------------------------------------------------------------------------
(* The inductive invariant: why the above hold.                            *)

(* The unique keys of customers and license_customers.  The model's steps  *)
(* keep them without a check of their own.                                 *)
UniqueKeys ==
    /\ \A c, d \in Live(customers) : customers[c].email = customers[d].email => c = d
    /\ \A k, l \in Live(lc) :
          lc[k].email = lc[l].email /\ lc[k].product = lc[l].product => k = l

(* A purchase that has its customer holds the row, or has drawn an id that *)
(* nothing else uses.                                                      *)
HasCustomer(r) == pc[r] \in {"pur_license", "pur_write"}

CustomerHeld ==
    \A r \in Requests :
        /\ Purchasing(r) /\ ~HasCustomer(r) =>
              job[r].customer = Null /\ ~job[r].new
        /\ HasCustomer(r) => job[r].customer # Null
        /\ HasCustomer(r) /\ job[r].new => job[r].customer \in Unborn(customers)
        /\ Purchasing(r) /\ pc[r] # "pur_write" => job[r].lic = Null

(* Purchases that have their customers work for different people.          *)
CustomersApart ==
    \A r, s \in Requests :
        HasCustomer(r) /\ HasCustomer(s) /\ r # s =>
            job[r].customer # job[s].customer /\ job[r].email # job[s].email

IInv ==
    /\ TypeOK
    /\ UniqueKeys
    /\ CustomerHeld
    /\ CustomersApart
    /\ LicenseHasOwner
    /\ FoundStaysTrue
    /\ TotalsMatchPurchases
==============================================================================

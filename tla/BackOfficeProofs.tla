--------------------------- MODULE BackOfficeProofs ---------------------------
(***************************************************************************)
(* Proofs about BackOffice, for any number of customers, products,         *)
(* licenses and requests.                                                  *)
(*                                                                         *)
(* The inductive invariant is split into what it says of the tables, of    *)
(* one request, and of two requests.  From it follows that BackOffice      *)
(* implements SalesBooks: what a purchase found of customer and license is *)
(* all there is to find when it commits.                                   *)
(***************************************************************************)
EXTENDS BackOffice, TLAPS

TablesInv ==
    /\ UniqueKeys
    /\ LicenseHasOwner
    /\ TotalsMatchPurchases

RequestInv(r) ==
    /\ Purchasing(r) /\ ~HasCustomer(r) => job[r].customer = Null /\ ~job[r].new
    /\ HasCustomer(r) => job[r].customer # Null
    /\ HasCustomer(r) /\ job[r].new => job[r].customer \in Unborn(customers)
    /\ Purchasing(r) /\ pc[r] # "pur_write" => job[r].lic = Null
    /\ HasCustomer(r) =>
          CustomersWith(job[r].email) = IF job[r].new THEN {} ELSE {job[r].customer}
    /\ pc[r] = "pur_write" =>
          LicensesWith(job[r].email, job[r].product) = {job[r].lic} \ {Null}

Apart(r, s) ==
    HasCustomer(r) /\ HasCustomer(s) =>
        job[r].customer # job[s].customer /\ job[r].email # job[s].email

LEMMA InvariantByRequest ==
    /\ IInv <=>
          /\ TypeOK /\ TablesInv
          /\ \A r \in Requests : RequestInv(r)
          /\ \A r, s \in Requests : r # s => Apart(r, s)
    /\ IInv' <=>
          /\ TypeOK' /\ TablesInv'
          /\ \A r \in Requests : RequestInv(r)'
          /\ \A r, s \in Requests : r # s => Apart(r, s)'
  <1>. USE DEF IInv, TablesInv, RequestInv, Apart, CustomerHeld, CustomersApart,
               FoundStaysTrue, HasCustomer
  <1>1. IInv <=>
          /\ TypeOK /\ TablesInv
          /\ \A r \in Requests : RequestInv(r)
          /\ \A r, s \in Requests : r # s => Apart(r, s)
    OBVIOUS
  <1>2. IInv' <=>
          /\ TypeOK' /\ TablesInv'
          /\ \A r \in Requests : RequestInv(r)'
          /\ \A r, s \in Requests : r # s => Apart(r, s)'
    OBVIOUS
  <1>. QED
    BY <1>1, <1>2

-----------------------------------------------------------------------------
(* Types.                                                                  *)

LEMMA StepKinds ==
    /\ \A p \in PurchasePcs : p \in Pcs /\ JobsAt(p) = PurchaseJob
    /\ \A p \in CustomerPcs : p \in Pcs /\ JobsAt(p) = CustomerJob
    /\ "del_product" \in Pcs /\ JobsAt("del_product") = ProductJob
    /\ "del_license" \in Pcs /\ JobsAt("del_license") = LicenseJob
    /\ "idle" \in Pcs /\ JobsAt("idle") = AnswerJob
    /\ "answer" \in Pcs /\ JobsAt("answer") = AnswerJob
    /\ PurchasePcs \cap (CustomerPcs \cup {"del_product", "del_license", "idle", "answer"}) = {}
    /\ {"pur_license", "pur_write"} \subseteq PurchasePcs
  BY DEF Pcs, JobsAt, PurchasePcs, CustomerPcs

(* What the type of a request's record is at each of its steps.            *)
LEMMA JobTypes ==
    ASSUME TypeOK, NEW r \in Requests
    PROVE  /\ pc[r] \in PurchasePcs => job[r] \in PurchaseJob
           /\ pc[r] \in CustomerPcs => job[r] \in CustomerJob
           /\ pc[r] = "del_product" => job[r] \in ProductJob
           /\ pc[r] = "del_license" => job[r] \in LicenseJob
  <1>1. pc[r] \in Pcs /\ job[r] \in JobsAt(pc[r])
    BY DEF TypeOK
  <1>. QED
    BY <1>1, StepKinds

LEMMA StartMoves ==
    ASSUME TypeOK, NEW r \in Requests, NEW p \in Pcs, NEW j \in JobsAt(p), Start(r, p, j)
    PROVE  /\ pc' \in [Requests -> Pcs]
           /\ DOMAIN job' = Requests
           /\ \A s \in Requests : job'[s] \in JobsAt(pc'[s])
           /\ pc'[r] = p /\ job'[r] = j
           /\ \A s \in Requests \ {r} : pc'[s] = pc[s] /\ job'[s] = job[s]
  BY DEF TypeOK, Start

(* The operators that read one table read it in the next state the same    *)
(* way when it is not changed.                                             *)
LEMMA ReadsAreStable ==
    /\ UNCHANGED customers => /\ Live(customers)' = Live(customers)
                              /\ Unborn(customers)' = Unborn(customers)
                              /\ \A e : CustomersWith(e)' = CustomersWith(e)
    /\ UNCHANGED lc => /\ Live(lc)' = Live(lc)
                       /\ \A e, p : LicensesWith(e, p)' = LicensesWith(e, p)
  BY DEF Live, Unborn, CustomersWith, LicensesWith

-----------------------------------------------------------------------------
(* Steps that change no table.                                             *)

LEMMA RequestMoves ==
    ASSUME IInv, NEW r \in Requests, UNCHANGED tables, TypeOK',
           \A s \in Requests \ {r} : pc'[s] = pc[s] /\ job'[s] = job[s],
           RequestInv(r)',
           \A s \in Requests \ {r} : Apart(r, s)'
    PROVE  IInv'
  <1>. USE DEF tables
  <1>1. /\ TypeOK /\ TablesInv /\ \A s \in Requests : RequestInv(s)
        /\ \A s, t \in Requests : s # t => Apart(s, t)
    BY InvariantByRequest
  <1>2. TablesInv'
    BY <1>1 DEF TablesInv, UniqueKeys, LicenseHasOwner, TotalsMatchPurchases, Live
  <1>3. ASSUME NEW s \in Requests \ {r} PROVE RequestInv(s)'
    <2>1. pc'[s] = pc[s] /\ job'[s] = job[s] /\ RequestInv(s)
      BY <1>1
    <2>. QED
      BY <2>1
      DEF RequestInv, Purchasing, HasCustomer, CustomersWith, LicensesWith, Live, Unborn
  <1>4. ASSUME NEW s \in Requests, NEW t \in Requests, s # t PROVE Apart(s, t)'
    BY <1>1, <1>4 DEF Apart, HasCustomer
  <1>. QED
    BY <1>2, <1>3, <1>4, InvariantByRequest

(* A request that is no purchase any more, or never was.                   *)
LEMMA OtherStep ==
    ASSUME IInv, NEW r \in Requests, NEW p \in Pcs \ PurchasePcs, NEW j \in JobsAt(p),
           Start(r, p, j), UNCHANGED tables
    PROVE  IInv'
  <1>1. TypeOK
    BY DEF IInv
  <1>2. /\ pc'[r] = p
        /\ \A s \in Requests \ {r} : pc'[s] = pc[s] /\ job'[s] = job[s]
    BY <1>1, StartMoves
  <1>3. TypeOK'
    BY <1>1, StartMoves DEF TypeOK, tables
  <1>4. RequestInv(r)' /\ \A s \in Requests \ {r} : Apart(r, s)'
    BY <1>2, StepKinds DEF RequestInv, Apart, Purchasing, HasCustomer
  <1>. QED
    BY <1>2, <1>3, <1>4, RequestMoves

LEMMA AnswerStep ==
    ASSUME IInv, NEW r \in Requests, NEW code \in {"OK", "NOT_FOUND", "VALIDATION", "INTERNAL"},
           Answer(r, code), UNCHANGED tables
    PROVE  IInv'
  <1>1. [code |-> code] \in JobsAt("answer") /\ "answer" \in Pcs \ PurchasePcs
    BY StepKinds DEF AnswerJob
  <1>. QED
    BY <1>1, OtherStep DEF Answer

LEMMA PurchaseCheckStep ==
    ASSUME IInv, NEW r \in Requests, NEW e \in Emails, NEW n \in SeatChoices,
           PurchaseCheck(r, e, n)
    PROVE  IInv'
  <1>1. TypeOK
    BY DEF IInv
  <1>2. PICK p \in ProductIds :
           Start(r, "pur_customer", [email |-> e, product |-> p, seats |-> n,
                                     customer |-> Null, new |-> FALSE, lic |-> Null])
    BY <1>1 DEF PurchaseCheck, Live, TypeOK
  <1>. DEFINE j == [email |-> e, product |-> p, seats |-> n,
                    customer |-> Null, new |-> FALSE, lic |-> Null]
  <1>3. j \in JobsAt("pur_customer") /\ "pur_customer" \in Pcs
    BY StepKinds DEF PurchaseJob, PurchasePcs
  <1>4. j.customer = Null /\ ~j.new /\ j.lic = Null /\ Start(r, "pur_customer", j)
    BY <1>2
  <1>. HIDE DEF j
  <1>5. /\ pc'[r] = "pur_customer" /\ job'[r] = j
        /\ \A s \in Requests \ {r} : pc'[s] = pc[s] /\ job'[s] = job[s]
    BY <1>1, <1>3, <1>4, StartMoves
  <1>6. TypeOK' /\ UNCHANGED tables
    BY <1>1, <1>3, <1>4, StartMoves DEF TypeOK, tables, PurchaseCheck
  <1>7. RequestInv(r)' /\ \A s \in Requests \ {r} : Apart(r, s)'
    BY <1>4, <1>5 DEF RequestInv, Apart, Purchasing, HasCustomer
  <1>. QED
    BY <1>5, <1>6, <1>7, RequestMoves

(* findOrCreateCustomer: the customer found is the only one with the       *)
(* email, and the lock on its row keeps the other purchases off.           *)
LEMMA FindCustomerStep ==
    ASSUME IInv, NEW r \in Requests, FindCustomer(r)
    PROVE  IInv'
  <1>1. /\ TypeOK /\ TablesInv /\ \A s \in Requests : RequestInv(s)
        /\ pc[r] = "pur_customer" /\ UNCHANGED tables
    BY InvariantByRequest DEF FindCustomer
  <1>2. /\ job[r] \in PurchaseJob /\ job[r].lic = Null /\ ~job[r].new
        /\ job[r].customer = Null
    BY <1>1, JobTypes DEF PurchasePcs, RequestInv, Purchasing, HasCustomer
  <1>3. CASE Start(r, "pur_insert", job[r])
    <2>1. "pur_insert" \in Pcs /\ job[r] \in JobsAt("pur_insert")
      BY <1>2, StepKinds DEF PurchasePcs
    <2>2. /\ pc'[r] = "pur_insert" /\ job'[r] = job[r]
          /\ \A s \in Requests \ {r} : pc'[s] = pc[s] /\ job'[s] = job[s]
      BY <1>1, <1>3, <2>1, StartMoves
    <2>3. TypeOK'
      BY <1>1, <1>3, <2>1, StartMoves DEF TypeOK, tables
    <2>4. RequestInv(r)' /\ \A s \in Requests \ {r} : Apart(r, s)'
      BY <1>2, <2>2 DEF RequestInv, Apart, Purchasing, HasCustomer
    <2>. QED
      BY <1>1, <2>2, <2>3, <2>4, RequestMoves
  <1>4. ASSUME NEW c \in CustomersWith(job[r].email), CustomerRowFree(c),
               Start(r, "pur_license", [job[r] EXCEPT !.customer = c])
        PROVE  IInv'
    <2>. DEFINE j == [job[r] EXCEPT !.customer = c]
    <2>1. /\ c \in CustomerIds /\ c \in Live(customers)
          /\ customers[c].email = job[r].email
      BY <1>1 DEF CustomersWith, Live, TypeOK
    <2>2. /\ j \in PurchaseJob /\ j.customer = c /\ j.email = job[r].email
          /\ j.lic = Null /\ ~j.new
      BY <1>2, <2>1 DEF PurchaseJob
    <2>3. "pur_license" \in Pcs /\ j \in JobsAt("pur_license")
      BY <2>2, StepKinds DEF PurchasePcs
    <2>4. Start(r, "pur_license", j)
      BY <1>4
    <2>. HIDE DEF j
    <2>5. /\ pc'[r] = "pur_license" /\ job'[r] = j
          /\ \A s \in Requests \ {r} : pc'[s] = pc[s] /\ job'[s] = job[s]
      BY <1>1, <2>3, <2>4, StartMoves
    <2>6. TypeOK'
      BY <1>1, <2>3, <2>4, StartMoves DEF TypeOK, tables
    <2>7. CustomersWith(job[r].email) = {c}
      BY <1>1, <1>4, <2>1 DEF TablesInv, UniqueKeys, CustomersWith
    <2>8. RequestInv(r)'
      <3>1. c # Null
        BY <2>1, BackOfficeAssumption
      <3>2. \A e : CustomersWith(e)' = CustomersWith(e)
        BY <1>1, ReadsAreStable DEF tables
      <3>. QED
        BY <2>2, <2>5, <2>7, <3>1, <3>2
        DEF RequestInv, Purchasing, HasCustomer
    <2>9. ASSUME NEW s \in Requests \ {r} PROVE Apart(r, s)'
      <3>1. HasCustomer(s) => job[s].customer # c
        BY <1>4, StepKinds DEF CustomerRowFree, HasCustomer, Purchasing
      <3>2. HasCustomer(s) => job[s].email # job[r].email
        BY <1>1, <2>7, <3>1 DEF RequestInv
      <3>. QED
        BY <2>2, <2>5, <3>1, <3>2 DEF Apart, HasCustomer
    <2>. QED
      BY <1>1, <2>5, <2>6, <2>8, <2>9, RequestMoves
  <1>. QED
    BY <1>3, <1>4 DEF FindCustomer

(* findOrCreateCustomer: the email had no row and no other purchase is     *)
(* entering it, and the id drawn is nobody's.                              *)
LEMMA CreateForPurchaseStep ==
    ASSUME IInv, NEW r \in Requests, CreateForPurchase(r)
    PROVE  IInv'
  <1>1. /\ TypeOK /\ TablesInv /\ \A s \in Requests : RequestInv(s)
        /\ pc[r] = "pur_insert" /\ UNCHANGED tables
    BY InvariantByRequest DEF CreateForPurchase
  <1>2. /\ job[r] \in PurchaseJob /\ job[r].lic = Null
    BY <1>1, JobTypes DEF PurchasePcs, RequestInv, Purchasing
  <1>3. PICK c \in CustomerIds :
           /\ FreshCustomer(c)
           /\ Start(r, "pur_license", [job[r] EXCEPT !.customer = c, !.new = TRUE])
    BY DEF CreateForPurchase
  <1>. DEFINE j == [job[r] EXCEPT !.customer = c, !.new = TRUE]
  <1>4. /\ j \in PurchaseJob /\ j.customer = c /\ j.email = job[r].email
        /\ j.lic = Null /\ j.new
    BY <1>2 DEF PurchaseJob
  <1>5. "pur_license" \in Pcs /\ j \in JobsAt("pur_license")
    BY <1>4, StepKinds DEF PurchasePcs
  <1>6. Start(r, "pur_license", j)
    BY <1>3
  <1>. HIDE DEF j
  <1>7. /\ pc'[r] = "pur_license" /\ job'[r] = j
        /\ \A s \in Requests \ {r} : pc'[s] = pc[s] /\ job'[s] = job[s]
    BY <1>1, <1>5, <1>6, StartMoves
  <1>8. TypeOK'
    BY <1>1, <1>5, <1>6, StartMoves DEF TypeOK, tables
  <1>9. CustomersWith(job[r].email) = {} /\ c \in Unborn(customers) /\ c # Null
    BY <1>3, BackOfficeAssumption DEF CreateForPurchase, FreshCustomer
  <1>10. RequestInv(r)'
    <2>1. /\ \A e : CustomersWith(e)' = CustomersWith(e)
          /\ Unborn(customers)' = Unborn(customers)
      BY <1>1, ReadsAreStable DEF tables
    <2>. QED
      BY <1>4, <1>7, <1>9, <2>1 DEF RequestInv, Purchasing, HasCustomer
  <1>11. ASSUME NEW s \in Requests \ {r} PROVE Apart(r, s)'
    <2>1. HasCustomer(s) => job[s].customer # c
      BY <1>3, StepKinds DEF FreshCustomer, CustomerRowFree, HasCustomer, Purchasing
    <2>2. HasCustomer(s) => job[s].email # job[r].email
      <3>1. CASE HasCustomer(s) /\ job[s].new
        <4>1. Purchasing(s)
          BY <3>1, StepKinds DEF HasCustomer, Purchasing
        <4>. QED
          BY <3>1, <4>1 DEF CreateForPurchase, EmailFree
      <3>2. CASE HasCustomer(s) /\ ~job[s].new
        BY <1>1, <1>9, <3>2 DEF RequestInv
      <3>. QED
        BY <3>1, <3>2
    <2>. QED
      BY <1>4, <1>7, <2>1, <2>2 DEF Apart, HasCustomer
  <1>. QED
    BY <1>1, <1>7, <1>8, <1>10, <1>11, RequestMoves

(* The SELECT of the license finds the only one there can be, or none.     *)
LEMMA FindLicenseStep ==
    ASSUME IInv, NEW r \in Requests, FindLicense(r)
    PROVE  IInv'
  <1>1. /\ TypeOK /\ TablesInv /\ \A s \in Requests : RequestInv(s)
        /\ \A s, t \in Requests : s # t => Apart(s, t)
        /\ pc[r] = "pur_license" /\ UNCHANGED tables
    BY InvariantByRequest DEF FindLicense
  <1>2. /\ job[r] \in PurchaseJob /\ job[r].lic = Null /\ RequestInv(r)
        /\ HasCustomer(r)
    BY <1>1, JobTypes DEF PurchasePcs, RequestInv, Purchasing, HasCustomer
  <1>3. ASSUME NEW j \in PurchaseJob, Start(r, "pur_write", j),
               j.email = job[r].email, j.product = job[r].product,
               j.customer = job[r].customer, j.new = job[r].new,
               LicensesWith(j.email, j.product) = {j.lic} \ {Null}
        PROVE  IInv'
    <2>1. "pur_write" \in Pcs /\ j \in JobsAt("pur_write")
      BY StepKinds
    <2>2. /\ pc'[r] = "pur_write" /\ job'[r] = j
          /\ \A s \in Requests \ {r} : pc'[s] = pc[s] /\ job'[s] = job[s]
      BY <1>1, <1>3, <2>1, StartMoves
    <2>3. TypeOK'
      BY <1>1, <1>3, <2>1, StartMoves DEF TypeOK, tables
    <2>4. RequestInv(r)'
      <3>1. /\ \A e : CustomersWith(e)' = CustomersWith(e)
            /\ Unborn(customers)' = Unborn(customers)
            /\ \A e, p : LicensesWith(e, p)' = LicensesWith(e, p)
        BY <1>1, ReadsAreStable DEF tables
      <3>. QED
        BY <1>2, <1>3, <2>2, <3>1 DEF RequestInv, Purchasing, HasCustomer
    <2>5. \A s \in Requests \ {r} : Apart(r, s)'
      BY <1>1, <1>2, <1>3, <2>2 DEF Apart, HasCustomer
    <2>. QED
      BY <1>1, <2>2, <2>3, <2>4, <2>5, RequestMoves
  <1>4. ASSUME NEW l \in LicensesWith(job[r].email, job[r].product),
               Start(r, "pur_write", [job[r] EXCEPT !.lic = l])
        PROVE  IInv'
    <2>. DEFINE j == [job[r] EXCEPT !.lic = l]
    <2>1. /\ l \in LicenseIds /\ l # Null
          /\ l \in Live(lc) /\ lc[l].email = job[r].email
          /\ lc[l].product = job[r].product
      BY <1>1, BackOfficeAssumption DEF LicensesWith, Live, TypeOK
    <2>2. /\ j \in PurchaseJob /\ j.email = job[r].email /\ j.product = job[r].product
          /\ j.customer = job[r].customer /\ j.new = job[r].new /\ j.lic = l
      BY <1>2, <2>1 DEF PurchaseJob
    <2>3. LicensesWith(job[r].email, job[r].product) = {l}
      BY <1>1, <2>1 DEF TablesInv, UniqueKeys, LicensesWith
    <2>4. Start(r, "pur_write", j)
      BY <1>4
    <2>. HIDE DEF j
    <2>. QED
      BY <1>3, <2>1, <2>2, <2>3, <2>4
  <1>5. CASE /\ LicensesWith(job[r].email, job[r].product) = {}
             /\ Start(r, "pur_write", job[r])
    BY <1>2, <1>3, <1>5
  <1>. QED
    BY <1>4, <1>5 DEF FindLicense

-----------------------------------------------------------------------------
(* Steps that change a table.                                              *)

(* No row that request s looked for, or drew, changes.                     *)
KeepsCustomers(s) ==
    /\ \A c \in CustomerIds :
          \/ customers[c].state = "live" /\ customers[c].email = job[s].email
          \/ customers'[c].state = "live" /\ customers'[c].email = job[s].email
          => customers'[c] = customers[c]
    /\ job[s].new => customers'[job[s].customer] = customers[job[s].customer]

KeepsLicenses(s) ==
    \A l \in LicenseIds :
        \/ /\ lc[l].state = "live"
           /\ lc[l].email = job[s].email /\ lc[l].product = job[s].product
        \/ /\ lc'[l].state = "live"
           /\ lc'[l].email = job[s].email /\ lc'[l].product = job[s].product
        => lc'[l] = lc[l]

(* The request that commits holds nothing any more; what the others found  *)
(* stays.                                                                  *)
LEMMA TablesMove ==
    ASSUME IInv, NEW r \in Requests, NEW p \in Pcs \ PurchasePcs, NEW j \in JobsAt(p),
           Start(r, p, j),
           customers' \in [CustomerIds -> CustomerRow],
           products' \in [ProductIds -> ProductRow],
           lc' \in [LicenseIds -> LicenseRow],
           purchases' \in [LicenseIds -> Totals],
           TablesInv',
           \A s \in Requests \ {r} :
              /\ HasCustomer(s) => KeepsCustomers(s)
              /\ pc[s] = "pur_write" => KeepsLicenses(s)
    PROVE  IInv'
  <1>1. /\ TypeOK /\ \A s \in Requests : RequestInv(s)
        /\ \A s, t \in Requests : s # t => Apart(s, t)
    BY InvariantByRequest
  <1>2. /\ pc'[r] = p
        /\ \A s \in Requests \ {r} : pc'[s] = pc[s] /\ job'[s] = job[s]
    BY <1>1, StartMoves
  <1>3. TypeOK'
    BY <1>1, StartMoves DEF TypeOK
  <1>4. RequestInv(r)'
    BY <1>2, StepKinds DEF RequestInv, Purchasing, HasCustomer
  <1>5. ASSUME NEW s \in Requests \ {r} PROVE RequestInv(s)'
    <2>1. /\ pc'[s] = pc[s] /\ job'[s] = job[s] /\ RequestInv(s)
          /\ DOMAIN customers = CustomerIds /\ DOMAIN customers' = CustomerIds
          /\ DOMAIN lc = LicenseIds /\ DOMAIN lc' = LicenseIds
      BY <1>1, <1>2 DEF TypeOK
    <2>2. HasCustomer(s) => CustomersWith(job[s].email)' = CustomersWith(job[s].email)
      BY <2>1 DEF KeepsCustomers, CustomersWith, Live
    <2>3. /\ HasCustomer(s) /\ job[s].new => job[s].customer \in Unborn(customers)'
      BY <2>1 DEF RequestInv, KeepsCustomers, Unborn
    <2>4. pc[s] = "pur_write" => LicensesWith(job[s].email, job[s].product)'
                                    = LicensesWith(job[s].email, job[s].product)
      BY <2>1 DEF KeepsLicenses, LicensesWith, Live
    <2>. QED
      BY <2>1, <2>2, <2>3, <2>4 DEF RequestInv, Purchasing, HasCustomer
  <1>6. ASSUME NEW s \in Requests, NEW t \in Requests, s # t PROVE Apart(s, t)'
    <2>1. ~HasCustomer(r)'
      BY <1>2, StepKinds DEF HasCustomer
    <2>. QED
      BY <1>1, <1>2, <1>6, <2>1 DEF Apart, HasCustomer
  <1>. QED
    BY <1>3, <1>4, <1>5, <1>6, InvariantByRequest

(* What another purchase holds while r has one too.                        *)
LEMMA OthersHold ==
    ASSUME IInv, NEW s \in Requests, HasCustomer(s)
    PROVE  /\ Purchasing(s) /\ job[s] \in PurchaseJob
           /\ job[s].new => /\ job[s].customer \in CustomerIds
                            /\ customers[job[s].customer].state = "unborn"
           /\ \A c \in CustomerIds :
                 customers[c].state = "live" /\ customers[c].email = job[s].email =>
                    job[s].customer = c
           /\ pc[s] = "pur_write" =>
                 \A l \in LicenseIds :
                    (/\ lc[l].state = "live" /\ lc[l].email = job[s].email
                     /\ lc[l].product = job[s].product) => job[s].lic = l
  <1>1. TypeOK /\ RequestInv(s)
    BY InvariantByRequest
  <1>2. Purchasing(s) /\ job[s] \in PurchaseJob
    BY <1>1, JobTypes, StepKinds DEF HasCustomer, Purchasing
  <1>3. job[s].new => /\ job[s].customer \in CustomerIds
                      /\ customers[job[s].customer].state = "unborn"
    BY <1>1 DEF RequestInv, Unborn, TypeOK
  <1>4. ASSUME NEW c \in CustomerIds, customers[c].state = "live",
               customers[c].email = job[s].email
        PROVE  job[s].customer = c
    BY <1>1, <1>4 DEF RequestInv, CustomersWith, Live, TypeOK
  <1>5. ASSUME pc[s] = "pur_write", NEW l \in LicenseIds, lc[l].state = "live",
               lc[l].email = job[s].email, lc[l].product = job[s].product
        PROVE  job[s].lic = l
    BY <1>1, <1>5 DEF RequestInv, LicensesWith, Live, TypeOK
  <1>. QED
    BY <1>2, <1>3, <1>4, <1>5

LEMMA AnswerIsOther ==
    \A code \in {"OK", "NOT_FOUND", "VALIDATION", "INTERNAL"} :
        [code |-> code] \in JobsAt("answer") /\ "answer" \in Pcs \ PurchasePcs
  BY StepKinds DEF AnswerJob

(* So is the answer after a commit, whatever it says.                      *)
LEMMA CommittedAnswer ==
    ASSUME NEW r \in Requests, AnswerCommitted(r)
    PROVE  /\ "answer" \in Pcs \ PurchasePcs
           /\ \E j \in JobsAt("answer") : Start(r, "answer", j)
  BY AnswerIsOther DEF AnswerCommitted, Answer

(* INSERT INTO license_customers and purchases.                            *)
LEMMA PurchaseCreateStep ==
    ASSUME IInv, NEW r \in Requests, PurchaseCreate(r)
    PROVE  IInv'
  <1>1. /\ TypeOK /\ TablesInv /\ RequestInv(r)
        /\ \A s \in Requests : r # s => Apart(r, s)
    BY InvariantByRequest
  <1>2. HasCustomer(r) /\ pc[r] = "pur_write" /\ job[r].lic = Null
    BY DEF PurchaseCreate, HasCustomer
  <1>3. PICK l \in Unborn(lc) :
           /\ lc' = [lc EXCEPT ![l] =
                        [state |-> "live", customer |-> job[r].customer,
                         email |-> job[r].email, product |-> job[r].product,
                         totals |-> Added(NoPurchases, job[r].seats)]]
           /\ purchases' = [purchases EXCEPT ![l] = Added(NoPurchases, job[r].seats)]
    BY DEF PurchaseCreate
  <1>4. /\ job[r] \in PurchaseJob /\ l \in LicenseIds /\ lc[l].state = "unborn"
        /\ job[r].customer \in CustomerIds
    BY <1>1, <1>2, OthersHold DEF PurchaseJob, RequestInv, Unborn, TypeOK
  <1>. DEFINE t == Added(NoPurchases, job[r].seats)
  <1>5. t \in Totals
    <2>1. job[r].seats \in 1..MaxInt4 /\ MaxInt4 \in Nat
      BY <1>4, BackOfficeAssumption DEF PurchaseJob
    <2>2. t = [count |-> 0 + 1, seats |-> 0 + job[r].seats]
      BY DEF Added, NoPurchases
    <2>. QED
      BY <2>1, <2>2 DEF Totals
  <1>. HIDE DEF t
  <1>6. customers' = IF job[r].new
                     THEN [customers EXCEPT ![job[r].customer] =
                             [state |-> "live", email |-> job[r].email]]
                     ELSE customers
    BY DEF PurchaseCreate
  <1>7. customers' \in [CustomerIds -> CustomerRow]
    BY <1>1, <1>4, <1>6 DEF TypeOK, CustomerRow, RowState, PurchaseJob
  <1>8. lc' \in [LicenseIds -> LicenseRow] /\ purchases' \in [LicenseIds -> Totals]
    <2>1. [state |-> "live", customer |-> job[r].customer, email |-> job[r].email,
           product |-> job[r].product, totals |-> t] \in LicenseRow
      BY <1>4, <1>5 DEF LicenseRow, RowState, PurchaseJob
    <2>. QED
      BY <1>1, <1>3, <1>5, <2>1 DEF TypeOK, t
  <1>9. products' = products /\ job[r].product \in Live(products)
    BY DEF PurchaseCreate, ProductExists
  <1>10. /\ \A c \in CustomerIds \ {job[r].customer} : customers'[c] = customers[c]
         /\ customers'[job[r].customer].state = "live"
         /\ customers'[job[r].customer].email = job[r].email
         /\ customers[job[r].customer].state = "live" => ~job[r].new
    <2>1. CASE job[r].new
      BY <1>1, <1>2, <1>4, <1>6, <2>1, OthersHold DEF TypeOK
    <2>2. CASE ~job[r].new
      <3>1. CustomersWith(job[r].email) = {job[r].customer}
        BY <1>1, <1>2, <2>2 DEF RequestInv
      <3>. QED
        BY <1>4, <1>6, <2>2, <3>1 DEF CustomersWith, Live
    <2>. QED
      BY <2>1, <2>2
  <1>11. /\ \A k \in LicenseIds \ {l} : lc'[k] = lc[k] /\ purchases'[k] = purchases[k]
         /\ lc'[l].state = "live" /\ lc'[l].customer = job[r].customer
         /\ lc'[l].email = job[r].email /\ lc'[l].product = job[r].product
         /\ lc'[l].totals = purchases'[l]
    BY <1>1, <1>3, <1>4 DEF TypeOK
  <1>12. TablesInv'
    <2>1. ASSUME NEW c \in Live(customers)', NEW d \in Live(customers)',
                 customers'[c].email = customers'[d].email
          PROVE  c = d
      <3>1. /\ c \in CustomerIds /\ d \in CustomerIds
            /\ customers'[c].state = "live" /\ customers'[d].state = "live"
        BY <1>7, <2>1 DEF Live
      <3>2. \A b \in CustomerIds :
               customers[b].state = "live" /\ customers[b].email = job[r].email =>
                  job[r].customer = b
        BY <1>2, OthersHold
      <3>3. CASE c # job[r].customer /\ d # job[r].customer
        BY <1>1, <1>10, <2>1, <3>1, <3>3 DEF TablesInv, UniqueKeys, Live, TypeOK
      <3>. QED
        BY <1>10, <2>1, <3>1, <3>2, <3>3
    <2>2. ASSUME NEW k \in Live(lc)', NEW m \in Live(lc)', lc'[k].email = lc'[m].email,
                 lc'[k].product = lc'[m].product
          PROVE  k = m
      <3>1. /\ k \in LicenseIds /\ m \in LicenseIds
            /\ lc'[k].state = "live" /\ lc'[m].state = "live"
        BY <1>8, <2>2 DEF Live
      <3>2. \A b \in LicenseIds :
               ~(/\ lc[b].state = "live" /\ lc[b].email = job[r].email
                 /\ lc[b].product = job[r].product)
        BY <1>2, OthersHold, BackOfficeAssumption
      <3>3. CASE k # l /\ m # l
        BY <1>1, <1>11, <2>2, <3>1, <3>3 DEF TablesInv, UniqueKeys, Live, TypeOK
      <3>. QED
        BY <1>11, <2>2, <3>1, <3>2, <3>3
    <2>3. ASSUME NEW k \in Live(lc)'
          PROVE  /\ lc'[k].customer \in Live(customers)'
                 /\ customers'[lc'[k].customer].email = lc'[k].email
                 /\ lc'[k].product \in Live(products)'
      <3>1. k \in LicenseIds /\ lc'[k].state = "live"
        BY <1>8, <2>3 DEF Live
      <3>2. CASE k = l
        BY <1>4, <1>7, <1>9, <1>10, <1>11, <3>2 DEF Live
      <3>3. CASE k # l
        <4>1. /\ lc'[k] = lc[k] /\ lc[k].customer \in Live(customers)
              /\ customers[lc[k].customer].email = lc[k].email
              /\ lc[k].product \in Live(products)
          BY <1>1, <1>11, <3>1, <3>3 DEF TablesInv, LicenseHasOwner, Live, TypeOK
        <4>2. /\ lc[k].customer \in CustomerIds /\ customers[lc[k].customer].state = "live"
          BY <1>1, <4>1 DEF Live, TypeOK
        <4>3. customers'[lc[k].customer] = customers[lc[k].customer]
          BY <1>6, <1>10, <4>2
        <4>. QED
          BY <1>7, <1>9, <4>1, <4>2, <4>3 DEF Live
      <3>. QED
        BY <3>2, <3>3
    <2>4. TotalsMatchPurchases'
      BY <1>1, <1>11 DEF TablesInv, TotalsMatchPurchases
    <2>. QED
      BY <2>1, <2>2, <2>3, <2>4 DEF TablesInv, UniqueKeys, LicenseHasOwner
  <1>13. ASSUME NEW s \in Requests \ {r}, HasCustomer(s)
         PROVE  KeepsCustomers(s) /\ (pc[s] = "pur_write" => KeepsLicenses(s))
    <2>1. job[r].customer # job[s].customer /\ job[r].email # job[s].email
      BY <1>1, <1>2, <1>13 DEF Apart
    <2>2. KeepsCustomers(s)
      <3>1. \A c \in CustomerIds :
               customers[c].state = "live" /\ customers[c].email = job[s].email =>
                  job[s].customer = c
        BY <1>13, OthersHold
      <3>2. job[s].new => job[s].customer \in CustomerIds
        BY <1>13, OthersHold
      <3>. QED
        BY <1>10, <2>1, <3>1, <3>2 DEF KeepsCustomers
    <2>3. KeepsLicenses(s)
      BY <1>4, <1>11, <2>1 DEF KeepsLicenses
    <2>. QED
      BY <2>2, <2>3
  <1>14. products' \in [ProductIds -> ProductRow]
    BY <1>1, <1>9 DEF TypeOK
  <1>15. /\ "answer" \in Pcs \ PurchasePcs
         /\ \E j \in JobsAt("answer") : Start(r, "answer", j)
    BY CommittedAnswer DEF PurchaseCreate
  <1>16. pc[r] = "pur_write" => HasCustomer(r)
    BY DEF HasCustomer
  <1>17. \A s \in Requests : pc[s] = "pur_write" => HasCustomer(s)
    BY DEF HasCustomer
  <1>. QED
    BY <1>7, <1>8, <1>12, <1>13, <1>14, <1>15, <1>17, TablesMove

(* UPDATE license_customers and INSERT INTO purchases: the totals.         *)
LEMMA PurchaseAddSeatsStep ==
    ASSUME IInv, NEW r \in Requests, PurchaseAddSeats(r)
    PROVE  IInv'
  <1>1. /\ TypeOK /\ TablesInv /\ RequestInv(r)
        /\ \A s \in Requests : r # s => Apart(r, s)
    BY InvariantByRequest
  <1>2. HasCustomer(r) /\ pc[r] = "pur_write"
    BY DEF PurchaseAddSeats, HasCustomer
  <1>3. job[r].seats \in 1..MaxInt4 /\ MaxInt4 \in Nat /\ job[r].lic \in LicenseIds
    BY <1>2, OthersHold, BackOfficeAssumption DEF PurchaseJob, PurchaseAddSeats
  <1>4. PICK l \in LicenseIds : l = job[r].lic
    BY <1>3
  <1>5. /\ lc' = [lc EXCEPT ![l].totals = Added(@, job[r].seats)]
        /\ purchases' = [purchases EXCEPT ![l].count = @ + 1,
                                          ![l].seats = @ + job[r].seats]
        /\ lc[l].totals.seats + job[r].seats <= MaxInt4
        /\ UNCHANGED <<customers, products>>
    BY <1>4 DEF PurchaseAddSeats, FitsInt4
  <1>6. lc[l] \in LicenseRow /\ purchases[l] \in Totals /\ lc[l].totals = purchases[l]
    BY <1>1 DEF TypeOK, TablesInv, TotalsMatchPurchases
  <1>7. Added(lc[l].totals, job[r].seats) \in Totals
    <2>1. lc[l].totals.count \in Nat /\ lc[l].totals.seats \in 0..MaxInt4
      BY <1>6 DEF Totals
    <2>2. /\ lc[l].totals.count + 1 \in Nat
          /\ lc[l].totals.seats + job[r].seats \in 0..MaxInt4
      BY <1>3, <1>5, <2>1
    <2>. QED
      BY <2>2 DEF Added, Totals
  <1>8. /\ \A k \in LicenseIds \ {l} : lc'[k] = lc[k] /\ purchases'[k] = purchases[k]
        /\ lc'[l] = [lc[l] EXCEPT !.totals = Added(lc[l].totals, job[r].seats)]
        /\ purchases'[l] = [purchases[l] EXCEPT !.count = @ + 1, !.seats = @ + job[r].seats]
        /\ DOMAIN lc' = LicenseIds /\ DOMAIN purchases' = LicenseIds
    BY <1>1, <1>5 DEF TypeOK
  <1>9. purchases'[l] = Added(lc[l].totals, job[r].seats)
    BY <1>6, <1>8 DEF Added, Totals
  <1>10. /\ lc'[l].state = lc[l].state /\ lc'[l].customer = lc[l].customer
         /\ lc'[l].email = lc[l].email /\ lc'[l].product = lc[l].product
         /\ lc'[l].totals = purchases'[l] /\ lc'[l] \in LicenseRow
    BY <1>6, <1>7, <1>8, <1>9 DEF LicenseRow
  <1>11. lc' \in [LicenseIds -> LicenseRow] /\ purchases' \in [LicenseIds -> Totals]
    BY <1>1, <1>5, <1>7, <1>8, <1>9, <1>10 DEF TypeOK
  <1>12. TablesInv'
    <2>1. \A k \in LicenseIds :
             /\ lc'[k].state = lc[k].state /\ lc'[k].customer = lc[k].customer
             /\ lc'[k].email = lc[k].email /\ lc'[k].product = lc[k].product
      BY <1>8, <1>10
    <2>2. Live(lc)' = Live(lc) /\ Live(lc) \subseteq LicenseIds
      BY <1>1, <1>8, <2>1 DEF Live, TypeOK
    <2>3. UniqueKeys' /\ LicenseHasOwner'
      BY <1>1, <1>5, <2>1, <2>2 DEF TablesInv, UniqueKeys, LicenseHasOwner, Live
    <2>4. TotalsMatchPurchases'
      BY <1>1, <1>8, <1>10 DEF TablesInv, TotalsMatchPurchases
    <2>. QED
      BY <2>3, <2>4 DEF TablesInv
  <1>13. ASSUME NEW s \in Requests \ {r}, HasCustomer(s)
         PROVE  KeepsCustomers(s) /\ KeepsLicenses(s)
    <2>1. job[r].email # job[s].email
      BY <1>1, <1>2, <1>13 DEF Apart
    <2>2. lc[l].email = job[r].email
      BY <1>1, <1>2, <1>4, BackOfficeAssumption DEF RequestInv, LicensesWith
    <2>. QED
      BY <1>5, <1>8, <1>10, <2>1, <2>2 DEF KeepsCustomers, KeepsLicenses
  <1>14. /\ customers' \in [CustomerIds -> CustomerRow]
         /\ products' \in [ProductIds -> ProductRow]
    BY <1>1, <1>5 DEF TypeOK
  <1>15. \A s \in Requests : pc[s] = "pur_write" => HasCustomer(s)
    BY DEF HasCustomer
  <1>16. /\ "answer" \in Pcs \ PurchasePcs
         /\ \E j \in JobsAt("answer") : Start(r, "answer", j)
    BY CommittedAnswer DEF PurchaseAddSeats
  <1>. QED
    BY <1>11, <1>12, <1>13, <1>14, <1>15, <1>16, TablesMove

(* CreateCustomer: the email is nobody's, nor being entered.               *)
LEMMA CreateCustomerStep ==
    ASSUME IInv, NEW r \in Requests, NEW e \in Emails, CreateCustomer(r, e)
    PROVE  IInv'
  <1>1. /\ TypeOK /\ TablesInv /\ \A s \in Requests : RequestInv(s)
    BY InvariantByRequest
  <1>2. PICK c \in CustomerIds :
           /\ FreshCustomer(c)
           /\ customers' = [customers EXCEPT ![c] = [state |-> "live", email |-> e]]
           /\ Start(r, "profile", [customer |-> c])
    BY DEF CreateCustomer
  <1>3. "profile" \in Pcs \ PurchasePcs /\ [customer |-> c] \in JobsAt("profile")
    BY StepKinds DEF CustomerPcs, CustomerJob
  <1>4. /\ UNCHANGED <<products, lc, purchases>>
        /\ CustomersWith(e) = {} /\ EmailFree(e) /\ customers[c].state = "unborn"
    BY <1>2 DEF CreateCustomer, FreshCustomer, Unborn
  <1>5. /\ customers' \in [CustomerIds -> CustomerRow]
        /\ products' \in [ProductIds -> ProductRow]
        /\ lc' \in [LicenseIds -> LicenseRow]
        /\ purchases' \in [LicenseIds -> Totals]
    BY <1>1, <1>2, <1>4 DEF TypeOK, CustomerRow, RowState
  <1>6. /\ \A d \in CustomerIds \ {c} : customers'[d] = customers[d]
        /\ customers'[c].state = "live" /\ customers'[c].email = e
    BY <1>1, <1>2 DEF TypeOK
  <1>7. TablesInv'
    <2>1. Live(customers)' = Live(customers) \cup {c} /\ c \notin Live(customers)
      BY <1>1, <1>4, <1>5, <1>6 DEF Live, TypeOK
    <2>2. \A d \in Live(customers) :
             d \in CustomerIds /\ customers'[d] = customers[d] /\ customers[d].email # e
      BY <1>1, <1>4, <1>6, <2>1 DEF CustomersWith, Live, TypeOK
    <2>3. UniqueKeys'
      BY <1>1, <1>4, <1>6, <2>1, <2>2 DEF TablesInv, UniqueKeys, Live
    <2>4. LicenseHasOwner'
      BY <1>1, <1>4, <2>1, <2>2 DEF TablesInv, LicenseHasOwner, Live
    <2>5. TotalsMatchPurchases'
      BY <1>1, <1>4 DEF TablesInv, TotalsMatchPurchases
    <2>. QED
      BY <2>3, <2>4, <2>5 DEF TablesInv
  <1>8. ASSUME NEW s \in Requests \ {r}, HasCustomer(s)
        PROVE  KeepsCustomers(s) /\ KeepsLicenses(s)
    <2>1. /\ Purchasing(s) /\ RequestInv(s)
          /\ job[s].new => job[s].customer \in CustomerIds
      BY <1>1, <1>8, OthersHold
    <2>2. job[s].customer # c
      BY <1>2, <2>1 DEF FreshCustomer, CustomerRowFree
    <2>3. job[s].email # e
      BY <1>4, <1>8, <2>1 DEF EmailFree, RequestInv
    <2>. QED
      BY <1>4, <1>6, <2>1, <2>2, <2>3 DEF KeepsCustomers, KeepsLicenses
  <1>9. \A s \in Requests : pc[s] = "pur_write" => HasCustomer(s)
    BY DEF HasCustomer
  <1>. QED
    BY <1>2, <1>3, <1>5, <1>7, <1>8, <1>9, TablesMove

(* DeleteCustomer: the row lock keeps purchases off, and the foreign key   *)
(* the licenses.                                                           *)
LEMMA DeleteCustomerStep ==
    ASSUME IInv, NEW r \in Requests, DeleteCustomer(r)
    PROVE  IInv'
  <1>1. /\ TypeOK /\ TablesInv /\ \A s \in Requests : RequestInv(s)
    BY InvariantByRequest
  <1>2. job[r] \in CustomerJob
    BY <1>1, JobTypes, StepKinds DEF DeleteCustomer, CustomerPcs
  <1>3. PICK c \in CustomerIds : c = job[r].customer
    BY <1>2 DEF CustomerJob
  <1>4. /\ customers' = [customers EXCEPT ![c] = NoCustomer("deleted")]
        /\ UNCHANGED <<products, lc, purchases>>
        /\ CustomerRowFree(c) /\ c \in Live(customers) /\ LicensesOfCustomer(c) = {}
    BY <1>3 DEF DeleteCustomer, CustomerUnused
  <1>5. /\ customers' \in [CustomerIds -> CustomerRow]
        /\ products' \in [ProductIds -> ProductRow]
        /\ lc' \in [LicenseIds -> LicenseRow]
        /\ purchases' \in [LicenseIds -> Totals]
    BY <1>1, <1>4 DEF TypeOK, CustomerRow, RowState, NoCustomer
  <1>6. /\ \A d \in CustomerIds \ {c} : customers'[d] = customers[d]
        /\ customers'[c].state = "deleted" /\ customers[c].state = "live"
    BY <1>1, <1>4 DEF TypeOK, NoCustomer, Live
  <1>7. TablesInv'
    <2>1. /\ Live(customers)' = Live(customers) \ {c}
          /\ Live(lc)' = Live(lc) /\ Live(products)' = Live(products)
      BY <1>1, <1>4, <1>5, <1>6 DEF Live, TypeOK
    <2>2. \A d \in Live(customers) \ {c} : customers'[d] = customers[d]
      BY <1>1, <1>6 DEF Live, TypeOK
    <2>3. UniqueKeys'
      BY <1>1, <1>4, <2>1, <2>2 DEF TablesInv, UniqueKeys
    <2>4. LicenseHasOwner'
      <3>1. ASSUME NEW l \in Live(lc)
            PROVE  /\ lc[l].customer \in Live(customers) \ {c}
                   /\ customers[lc[l].customer].email = lc[l].email
                   /\ lc[l].product \in Live(products)
        BY <1>1, <1>4 DEF TablesInv, LicenseHasOwner, LicensesOfCustomer
      <3>2. UNCHANGED <<lc, products>>
        BY <1>4
      <3>. QED
        BY <2>1, <2>2, <3>1, <3>2 DEF LicenseHasOwner
    <2>5. TotalsMatchPurchases'
      BY <1>1, <1>4 DEF TablesInv, TotalsMatchPurchases
    <2>. QED
      BY <2>3, <2>4, <2>5 DEF TablesInv
  <1>8. ASSUME NEW s \in Requests \ {r}, HasCustomer(s)
        PROVE  KeepsCustomers(s) /\ KeepsLicenses(s)
    <2>1. /\ Purchasing(s)
          /\ job[s].new => job[s].customer \in CustomerIds
          /\ customers[c].email = job[s].email => job[s].customer = c
      BY <1>6, <1>8, OthersHold
    <2>2. job[s].customer # c
      BY <1>4, <2>1 DEF CustomerRowFree
    <2>. QED
      BY <1>4, <1>6, <2>1, <2>2 DEF KeepsCustomers, KeepsLicenses
  <1>9. \A s \in Requests : pc[s] = "pur_write" => HasCustomer(s)
    BY DEF HasCustomer
  <1>10. /\ "answer" \in Pcs \ PurchasePcs
         /\ \E j \in JobsAt("answer") : Start(r, "answer", j)
    BY CommittedAnswer DEF DeleteCustomer
  <1>. QED
    BY <1>5, <1>7, <1>8, <1>9, <1>10, TablesMove

(* CreateProduct, SetProductStatus and DeleteProduct write only products,  *)
(* and never take one away that a license needs.                           *)
LEMMA ProductsMove ==
    ASSUME IInv, NEW r \in Requests, AnswerCommitted(r),
           UNCHANGED <<customers, lc, purchases>>,
           products' \in [ProductIds -> ProductRow],
           \A l \in Live(lc) : lc[l].product \in Live(products)'
    PROVE  IInv'
  <1>1. TypeOK /\ TablesInv
    BY InvariantByRequest
  <1>2. /\ customers' \in [CustomerIds -> CustomerRow]
        /\ lc' \in [LicenseIds -> LicenseRow]
        /\ purchases' \in [LicenseIds -> Totals]
    BY <1>1 DEF TypeOK
  <1>3. TablesInv'
    BY <1>1 DEF TablesInv, UniqueKeys, LicenseHasOwner, TotalsMatchPurchases, Live
  <1>4. \A s \in Requests : HasCustomer(s) => KeepsCustomers(s)
    BY DEF KeepsCustomers
  <1>5. \A s \in Requests : KeepsLicenses(s)
    BY DEF KeepsLicenses
  <1>. QED
    BY <1>2, <1>3, <1>4, <1>5, CommittedAnswer, TablesMove

LEMMA CreateProductStep ==
    ASSUME IInv, NEW r \in Requests, NEW k \in Codes, CreateProduct(r, k)
    PROVE  IInv'
  <1>1. TypeOK /\ TablesInv
    BY InvariantByRequest
  <1>2. PICK p \in Unborn(products) :
           products' = [products EXCEPT ![p] =
                          [state |-> "live", code |-> k, active |-> TRUE]]
    BY DEF CreateProduct
  <1>3. products' \in [ProductIds -> ProductRow]
    BY <1>1, <1>2 DEF TypeOK, ProductRow, RowState, Unborn
  <1>4. \A l \in Live(lc) : lc[l].product \in Live(products)'
    BY <1>1, <1>2, <1>3 DEF TypeOK, TablesInv, LicenseHasOwner, Live, Unborn
  <1>. QED
    BY <1>3, <1>4, ProductsMove DEF CreateProduct

LEMMA SetProductStatusStep ==
    ASSUME IInv, NEW r \in Requests, NEW p \in ProductIds, NEW aktif \in BOOLEAN,
           SetProductStatus(r, p, aktif)
    PROVE  IInv'
  <1>1. TypeOK /\ TablesInv
    BY InvariantByRequest
  <1>2. products' \in [ProductIds -> ProductRow]
    BY <1>1 DEF SetProductStatus, TypeOK, ProductRow
  <1>3. \A q \in ProductIds : products'[q].state = products[q].state
    BY <1>1 DEF SetProductStatus, TypeOK, ProductRow
  <1>4. \A l \in Live(lc) : lc[l].product \in Live(products)'
    BY <1>1, <1>2, <1>3 DEF TypeOK, TablesInv, LicenseHasOwner, Live
  <1>. QED
    BY <1>2, <1>4, ProductsMove DEF SetProductStatus

LEMMA DeleteProductStep ==
    ASSUME IInv, NEW r \in Requests, DeleteProduct(r)
    PROVE  IInv'
  <1>1. TypeOK /\ TablesInv
    BY InvariantByRequest
  <1>2. PICK p : p = job[r].product
    OBVIOUS
  <1>3. /\ products' = [products EXCEPT ![p] = NoProduct("deleted")]
        /\ p \in Live(products) /\ LicensesOfProduct(p) = {}
    BY <1>2 DEF DeleteProduct, ProductUnused
  <1>4. products' \in [ProductIds -> ProductRow]
    BY <1>1, <1>3 DEF TypeOK, ProductRow, RowState, NoProduct
  <1>5. \A l \in Live(lc) : lc[l].product \in Live(products)'
    BY <1>1, <1>3, <1>4 DEF TypeOK, TablesInv, LicenseHasOwner, LicensesOfProduct, Live
  <1>. QED
    BY <1>4, <1>5, ProductsMove DEF DeleteProduct

(* DeleteLicense: the lock on the row keeps off a purchase that found it.  *)
LEMMA DeleteLicenseStep ==
    ASSUME IInv, NEW r \in Requests, DeleteLicense(r)
    PROVE  IInv'
  <1>1. TypeOK /\ TablesInv
    BY InvariantByRequest
  <1>2. job[r] \in LicenseJob
    BY <1>1, JobTypes DEF DeleteLicense
  <1>3. PICK l \in LicenseIds : l = job[r].lic
    BY <1>2 DEF LicenseJob
  <1>4. /\ lc' = [lc EXCEPT ![l] = NoLicense("deleted")]
        /\ purchases' = [purchases EXCEPT ![l] = NoPurchases]
        /\ UNCHANGED <<customers, products>>
        /\ LicenseRowFree(l)
    BY <1>3 DEF DeleteLicense
  <1>5. NoPurchases \in Totals
    BY BackOfficeAssumption DEF NoPurchases, Totals
  <1>6. NoLicense("deleted") \in LicenseRow
    BY <1>5 DEF NoLicense, LicenseRow, RowState
  <1>7. /\ customers' \in [CustomerIds -> CustomerRow]
        /\ products' \in [ProductIds -> ProductRow]
        /\ lc' \in [LicenseIds -> LicenseRow]
        /\ purchases' \in [LicenseIds -> Totals]
    BY <1>1, <1>4, <1>5, <1>6 DEF TypeOK
  <1>8. /\ \A k \in LicenseIds \ {l} : lc'[k] = lc[k] /\ purchases'[k] = purchases[k]
        /\ lc'[l].state = "deleted" /\ lc'[l].totals = purchases'[l]
    BY <1>1, <1>4 DEF TypeOK, NoLicense
  <1>9. TablesInv'
    <2>1. /\ Live(lc)' = Live(lc) \ {l} /\ Live(lc) \subseteq LicenseIds
          /\ Live(customers)' = Live(customers) /\ Live(products)' = Live(products)
      BY <1>1, <1>4, <1>7, <1>8 DEF Live, TypeOK
    <2>2. \A k \in Live(lc)' : k \in Live(lc) /\ lc'[k] = lc[k]
      BY <1>8, <2>1
    <2>3. UniqueKeys'
      <3>1. \A c, d \in Live(customers)' :
               customers'[c].email = customers'[d].email => c = d
        BY <1>1, <1>4, <2>1 DEF TablesInv, UniqueKeys
      <3>2. \A k, m \in Live(lc)' :
               lc'[k].email = lc'[m].email /\ lc'[k].product = lc'[m].product => k = m
        BY <1>1, <2>2 DEF TablesInv, UniqueKeys
      <3>. QED
        BY <3>1, <3>2 DEF UniqueKeys
    <2>4. LicenseHasOwner'
      BY <1>1, <1>4, <2>1, <2>2 DEF TablesInv, LicenseHasOwner
    <2>5. TotalsMatchPurchases'
      BY <1>1, <1>8 DEF TablesInv, TotalsMatchPurchases
    <2>. QED
      BY <2>3, <2>4, <2>5 DEF TablesInv
  <1>10. ASSUME NEW s \in Requests \ {r}, HasCustomer(s)
         PROVE  KeepsCustomers(s) /\ (pc[s] = "pur_write" => KeepsLicenses(s))
    <2>1. Purchasing(s)
      BY <1>10, OthersHold
    <2>2. KeepsCustomers(s)
      BY <1>4 DEF KeepsCustomers
    <2>3. ASSUME pc[s] = "pur_write" PROVE KeepsLicenses(s)
      <3>1. job[s].lic # l
        BY <1>4, <2>1 DEF LicenseRowFree
      <3>2. \A k \in LicenseIds :
               (/\ lc[k].state = "live" /\ lc[k].email = job[s].email
                /\ lc[k].product = job[s].product) => job[s].lic = k
        BY <1>10, <2>3, OthersHold
      <3>. QED
        BY <1>8, <3>1, <3>2 DEF KeepsLicenses
    <2>. QED
      BY <2>2, <2>3
  <1>11. \A s \in Requests : pc[s] = "pur_write" => HasCustomer(s)
    BY DEF HasCustomer
  <1>12. /\ "answer" \in Pcs \ PurchasePcs
         /\ \E j \in JobsAt("answer") : Start(r, "answer", j)
    BY CommittedAnswer DEF DeleteLicense
  <1>. QED
    BY <1>7, <1>9, <1>10, <1>11, <1>12, TablesMove

-----------------------------------------------------------------------------
(* The invariant.                                                          *)

LEMMA InitEstablishes == Init => IInv
  <1>. SUFFICES ASSUME Init PROVE IInv
    OBVIOUS
  <1>1. NoPurchases \in Totals /\ NoJob \in AnswerJob
    BY BackOfficeAssumption DEF NoPurchases, Totals, NoJob, AnswerJob
  <1>2. TypeOK
    <2>1. /\ customers \in [CustomerIds -> CustomerRow]
          /\ products \in [ProductIds -> ProductRow]
      BY DEF Init, CustomerRow, ProductRow, NoCustomer, NoProduct, RowState
    <2>2. lc \in [LicenseIds -> LicenseRow] /\ purchases \in [LicenseIds -> Totals]
      BY <1>1 DEF Init, LicenseRow, NoLicense, RowState
    <2>3. /\ pc \in [Requests -> Pcs] /\ DOMAIN job = Requests
          /\ \A r \in Requests : job[r] \in JobsAt(pc[r])
      BY <1>1, StepKinds DEF Init
    <2>. QED
      BY <2>1, <2>2, <2>3 DEF TypeOK
  <1>3. TablesInv
    BY DEF Init, TablesInv, UniqueKeys, LicenseHasOwner, TotalsMatchPurchases, Live,
           NoCustomer, NoLicense
  <1>4. \A r \in Requests : ~Purchasing(r) /\ ~HasCustomer(r) /\ pc[r] # "pur_write"
    BY StepKinds DEF Init, Purchasing, HasCustomer
  <1>5. /\ \A r \in Requests : RequestInv(r)
        /\ \A r, s \in Requests : r # s => Apart(r, s)
    BY <1>4 DEF RequestInv, Apart
  <1>. QED
    BY <1>2, <1>3, <1>5, InvariantByRequest

LEMMA BeginStep ==
    ASSUME IInv, NEW r \in Requests, Begin(r)
    PROVE  IInv'
  <1>1. TypeOK
    BY DEF IInv
  <1>2. ASSUME Reject(r) PROVE IInv'
    BY <1>2, AnswerStep DEF Reject
  <1>3. ASSUME NEW e \in Emails, NEW n \in SeatChoices, PurchaseCheck(r, e, n) PROVE IInv'
    BY <1>3, PurchaseCheckStep
  <1>4. ASSUME NEW e \in Emails, CreateCustomer(r, e) PROVE IInv'
    BY <1>4, CreateCustomerStep
  <1>5. ASSUME NEW e \in Emails, CreateCustomerRefused(r, e) PROVE IInv'
    BY <1>5, AnswerStep DEF CreateCustomerRefused
  <1>6. ASSUME NEW c \in CustomerIds, UpdateCustomerProfile(r, c) PROVE IInv'
    BY <1>6, AnswerStep DEF UpdateCustomerProfile
  <1>7. ASSUME NEW c \in CustomerIds, DeleteCustomerCount(r, c) PROVE IInv'
    <2>1. "del_customer" \in Pcs \ PurchasePcs /\ [customer |-> c] \in JobsAt("del_customer")
      BY StepKinds DEF CustomerPcs, CustomerJob
    <2>. QED
      BY <1>7, <2>1, AnswerStep, OtherStep DEF DeleteCustomerCount
  <1>8. ASSUME NEW k \in Codes, PurchaseNoProduct(r, k) PROVE IInv'
    BY <1>8, AnswerStep DEF PurchaseNoProduct
  <1>9. ASSUME NEW k \in Codes, CreateProduct(r, k) PROVE IInv'
    BY <1>9, CreateProductStep
  <1>10. ASSUME NEW k \in Codes, CreateProductRefused(r, k) PROVE IInv'
    BY <1>10, AnswerStep DEF CreateProductRefused
  <1>11. ASSUME NEW p \in ProductIds, NEW aktif \in BOOLEAN, SetProductStatus(r, p, aktif)
         PROVE  IInv'
    BY <1>11, SetProductStatusStep
  <1>12. ASSUME NEW p \in ProductIds, UpdateProduct(r, p) PROVE IInv'
    BY <1>12, AnswerStep DEF UpdateProduct, AnswerCommitted
  <1>13. ASSUME NEW p \in ProductIds, ProductMissing(r, p) PROVE IInv'
    BY <1>13, AnswerStep DEF ProductMissing
  <1>14. ASSUME NEW p \in ProductIds, DeleteProductCount(r, p) PROVE IInv'
    <2>1. "del_product" \in Pcs \ PurchasePcs /\ [product |-> p] \in JobsAt("del_product")
      BY StepKinds DEF ProductJob
    <2>. QED
      BY <1>14, <2>1, AnswerStep, OtherStep DEF DeleteProductCount
  <1>15. ASSUME NEW l \in LicenseIds, DeletePurchases(r, l) PROVE IInv'
    <2>1. purchases[l].count \in Nat
      BY <1>1 DEF TypeOK, Totals
    <2>2. /\ "del_license" \in Pcs \ PurchasePcs
          /\ [lic |-> l, swept |-> purchases[l].count] \in JobsAt("del_license")
      BY <2>1, StepKinds DEF LicenseJob
    <2>. QED
      BY <1>15, <2>2, OtherStep DEF DeletePurchases
  <1>. QED
    BY <1>2, <1>3, <1>4, <1>5, <1>6, <1>7, <1>8, <1>9, <1>10, <1>11, <1>12, <1>13,
       <1>14, <1>15 DEF Begin

LEMMA AdvanceStep ==
    ASSUME IInv, NEW r \in Requests, Advance(r)
    PROVE  IInv'
  <1>1. CASE FindCustomer(r)
    BY <1>1, FindCustomerStep
  <1>2. CASE CreateForPurchase(r)
    BY <1>2, CreateForPurchaseStep
  <1>3. CASE CreateClashes(r)
    BY <1>3, AnswerStep DEF CreateClashes
  <1>4. CASE FindLicense(r)
    BY <1>4, FindLicenseStep
  <1>5. CASE PurchaseCreate(r)
    BY <1>5, PurchaseCreateStep
  <1>6. CASE PurchaseOrphan(r)
    BY <1>6, AnswerStep DEF PurchaseOrphan
  <1>7. CASE PurchaseAddSeats(r)
    BY <1>7, PurchaseAddSeatsStep
  <1>8. CASE PurchaseOverflow(r)
    BY <1>8, AnswerStep DEF PurchaseOverflow
  <1>9. CASE GetCustomerProfile(r)
    BY <1>9, AnswerStep DEF GetCustomerProfile
  <1>10. CASE DeleteCustomer(r)
    BY <1>10, DeleteCustomerStep
  <1>11. CASE DeleteCustomerRefused(r)
    BY <1>11, AnswerStep DEF DeleteCustomerRefused
  <1>12. CASE DeleteProduct(r)
    BY <1>12, DeleteProductStep
  <1>13. CASE DeleteProductRefused(r)
    BY <1>13, AnswerStep DEF DeleteProductRefused
  <1>14. CASE DeleteLicense(r)
    BY <1>14, DeleteLicenseStep
  <1>15. CASE DeleteLicenseRefused(r)
    BY <1>15, AnswerStep DEF DeleteLicenseRefused
  <1>. QED
    BY <1>1, <1>2, <1>3, <1>4, <1>5, <1>6, <1>7, <1>8, <1>9, <1>10, <1>11, <1>12,
       <1>13, <1>14, <1>15 DEF Advance

LEMMA StepPreserves == IInv /\ [Next]_vars => IInv'
  <1>. SUFFICES ASSUME IInv, [Next]_vars PROVE IInv'
    OBVIOUS
  <1>1. ASSUME UNCHANGED vars PROVE IInv'
    BY <1>1 DEF vars, IInv, TypeOK, UniqueKeys, CustomerHeld, CustomersApart,
                LicenseHasOwner, FoundStaysTrue, TotalsMatchPurchases, Live, Unborn,
                CustomersWith, LicensesWith, HasCustomer, Purchasing
  <1>2. ASSUME NEW r \in Requests, Respond(r) PROVE IInv'
    <2>1. "idle" \in Pcs \ PurchasePcs /\ NoJob \in JobsAt("idle")
      BY StepKinds DEF NoJob, AnswerJob
    <2>. QED
      BY <1>2, <2>1, OtherStep DEF Respond
  <1>3. ASSUME NEW r \in Requests, Fail(r) PROVE IInv'
    BY <1>3, AnswerStep DEF Fail
  <1>. QED
    BY <1>1, <1>2, <1>3, BeginStep, AdvanceStep DEF Next

(* The inductive invariant holds of every behaviour.                       *)
THEOREM Invariance == Spec => []IInv
  <1>. QED
    BY InitEstablishes, StepPreserves, PTL DEF Spec

(* No deletion takes a customer or a product from under a license, however *)
(* the count, the purchase and the DELETE interleave.                      *)
THEOREM LicensesAreOwned == Spec => []LicenseHasOwner
  <1>1. IInv => LicenseHasOwner
    BY DEF IInv
  <1>. QED
    BY <1>1, Invariance, PTL

(* What RecordPurchase found is what it writes to: its locks and the       *)
(* unique key of the email keep it true for any number of admins.          *)
THEOREM PurchaseIsRaceFree == Spec => []FoundStaysTrue
  <1>1. IInv => FoundStaysTrue
    BY DEF IInv
  <1>. QED
    BY <1>1, Invariance, PTL

(* The totals of a license are those of its purchases.                     *)
THEOREM TotalsAreExact == Spec => []TotalsMatchPurchases
  <1>1. IInv => TotalsMatchPurchases
    BY DEF IInv
  <1>. QED
    BY <1>1, Invariance, PTL
-----------------------------------------------------------------------------
(* BackOffice implements SalesBooks: a purchase takes effect at its commit, *)
(* when by FoundStaysTrue what it found is all there is to find.            *)

(* An id that no license has had yet has no totals.                        *)
UnusedIsEmpty == \A l \in Unborn(lc) : lc[l].totals = NoPurchases

LEMMA UnusedStayEmpty == IInv /\ UnusedIsEmpty /\ [Next]_vars => UnusedIsEmpty'
  <1>. SUFFICES ASSUME IInv, UnusedIsEmpty, [Next]_vars PROVE UnusedIsEmpty'
    OBVIOUS
  <1>1. CASE UNCHANGED lc
    BY <1>1 DEF UnusedIsEmpty, Unborn
  <1>2. ASSUME NEW l \in LicenseIds, NEW row, row.state # "unborn",
               lc' = [lc EXCEPT ![l] = row]
        PROVE  UnusedIsEmpty'
    BY <1>2 DEF UnusedIsEmpty, Unborn, IInv, TypeOK
  <1>3. ASSUME NEW r \in Requests, PurchaseCreate(r) PROVE UnusedIsEmpty'
    <2>1. PICK l \in Unborn(lc) : lc' = [lc EXCEPT ![l] =
             [state |-> "live", customer |-> job[r].customer, email |-> job[r].email,
              product |-> job[r].product, totals |-> Added(NoPurchases, job[r].seats)]]
      BY <1>3 DEF PurchaseCreate
    <2>2. l \in LicenseIds
      BY DEF Unborn, IInv, TypeOK
    <2>. QED
      BY <1>2, <2>1, <2>2
  <1>4. ASSUME NEW r \in Requests, PurchaseAddSeats(r) PROVE UnusedIsEmpty'
    <2>. DEFINE l == job[r].lic
                row == [lc[l] EXCEPT !.totals = Added(lc[l].totals, job[r].seats)]
    <2>1. job[r] \in PurchaseJob /\ l \in LicenseIds
      BY <1>4, JobTypes, StepKinds DEF IInv, PurchaseAddSeats, PurchaseJob
    <2>2. LicensesWith(job[r].email, job[r].product) = {l}
      BY <1>4 DEF PurchaseAddSeats, IInv, FoundStaysTrue
    <2>3. lc[l].state = "live" /\ lc[l] \in LicenseRow
      BY <2>1, <2>2 DEF LicensesWith, Live, IInv, TypeOK
    <2>4. row.state # "unborn"
      BY <2>3 DEF LicenseRow
    <2>5. lc' = [lc EXCEPT ![l] = row]
      BY <1>4 DEF PurchaseAddSeats
    <2>. HIDE DEF l, row
    <2>. QED
      BY <1>2, <2>1, <2>4, <2>5
  <1>5. ASSUME NEW r \in Requests, DeleteLicense(r) PROVE UnusedIsEmpty'
    <2>1. job[r].lic \in LicenseIds
      BY <1>5 DEF DeleteLicense, Live, IInv, TypeOK
    <2>2. NoLicense("deleted").state # "unborn"
      BY DEF NoLicense
    <2>. QED
      BY <1>2, <1>5, <2>1, <2>2 DEF DeleteLicense
  <1>6. ASSUME NEW r \in Requests, Begin(r) PROVE UnusedIsEmpty'
    BY <1>1, <1>6
    DEF Begin, tables, Reject, PurchaseCheck, CreateCustomer, CreateCustomerRefused,
        UpdateCustomerProfile, DeleteCustomerCount, PurchaseNoProduct, CreateProduct,
        CreateProductRefused, SetProductStatus, UpdateProduct, ProductMissing,
        DeleteProductCount, DeletePurchases
  <1>7. ASSUME NEW r \in Requests, Advance(r) PROVE UnusedIsEmpty'
    BY <1>1, <1>3, <1>4, <1>5, <1>7
    DEF Advance, tables, FindCustomer, CreateForPurchase, CreateClashes, FindLicense,
        PurchaseOrphan, PurchaseOverflow, GetCustomerProfile, DeleteCustomer,
        DeleteCustomerRefused, DeleteProduct, DeleteProductRefused,
        DeleteLicenseRefused
  <1>. QED
    BY <1>1, <1>6, <1>7 DEF Next, Respond, Fail, tables, vars

LEMMA UnusedAreEmpty == Spec => []UnusedIsEmpty
  <1>1. Init => UnusedIsEmpty
    BY DEF Init, UnusedIsEmpty, Unborn, NoLicense
  <1>. QED
    BY <1>1, UnusedStayEmpty, Invariance, PTL DEF Spec

(* What SalesBooks reads of the tables is what BackOffice reads.           *)
LEMMA SameReads ==
    /\ \A rows : Books!Live(rows) = Live(rows)
    /\ \A rows : Books!With(rows, "unborn") = Unborn(rows)
    /\ \A e : Books!CustomersWith(e) = CustomersWith(e)
    /\ \A e, p : Books!LicensesWith(e, p) = LicensesWith(e, p)
  BY DEF Books!Live, Live, Books!With, Unborn, Books!CustomersWith, CustomersWith,
         Books!LicensesWith, LicensesWith

(* A purchase enters the license it did not find, ...                      *)
LEMMA CreationIsPurchase ==
    ASSUME IInv, UnusedIsEmpty, NEW r \in Requests, PurchaseCreate(r)
    PROVE  Books!Next
  <1>. DEFINE c == job[r].customer
              e == job[r].email
              p == job[r].product
              n == job[r].seats
  <1>1. /\ pc[r] = "pur_write" /\ job[r] \in PurchaseJob
        /\ e \in Emails /\ p \in ProductIds /\ n \in SeatChoices /\ job[r].lic = Null
    BY JobTypes, StepKinds DEF IInv, PurchaseCreate, PurchaseJob
  <1>2. /\ LicensesWith(e, p) = {}
        /\ CustomersWith(e) = IF job[r].new THEN {} ELSE {c}
        /\ job[r].new => c \in Unborn(customers)
    BY <1>1 DEF IInv, FoundStaysTrue, CustomerHeld, HasCustomer
  <1>3. c \in Books!FoundOrNew(CustomersWith(e), customers)
    BY <1>2, SameReads DEF Books!FoundOrNew
  <1>4. customers' = [customers EXCEPT ![c] = [state |-> "live", email |-> e]]
    <2>1. CASE job[r].new
      BY <2>1 DEF PurchaseCreate
    <2>2. CASE ~job[r].new
      <3>1. c \in Live(customers) /\ customers[c].email = e
        BY <1>2, <2>2 DEF CustomersWith
      <3>2. c \in CustomerIds /\ customers[c] \in CustomerRow /\ customers[c].state = "live"
        BY <3>1 DEF Live, IInv, TypeOK
      <3>3. customers[c] = [state |-> "live", email |-> e]
        BY <3>1, <3>2 DEF CustomerRow
      <3>. HIDE DEF c, e
      <3>4. customers' = customers
        BY <2>2 DEF PurchaseCreate
      <3>. QED
        BY <3>2, <3>3, <3>4 DEF IInv, TypeOK
    <2>. QED
      BY <2>1, <2>2
  <1>5. PICK l \in Unborn(lc) :
           lc' = [lc EXCEPT ![l] = [state |-> "live", customer |-> c, email |-> e,
                                    product |-> p, totals |-> Added(NoPurchases, n)]]
    BY DEF PurchaseCreate
  <1>6. lc[l].totals = NoPurchases
    BY DEF UnusedIsEmpty
  <1>. HIDE DEF c, e, p, n
  <1>7. /\ n \in 1..MaxInt4 /\ MaxInt4 \in Nat
        /\ lc[l].totals.count = 0 /\ lc[l].totals.seats = 0
        /\ lc[l].totals.seats + n <= MaxInt4
        /\ Added(NoPurchases, n) = [count |-> lc[l].totals.count + 1,
                                    seats |-> lc[l].totals.seats + n]
    <2>1. n \in 1..MaxInt4 /\ MaxInt4 \in Nat
      BY <1>1, BackOfficeAssumption
    <2>2. lc[l].totals.count = 0 /\ lc[l].totals.seats = 0
      BY <1>6 DEF NoPurchases
    <2>. QED
      BY <2>1, <2>2 DEF Added, NoPurchases
  <1>8. l \in Books!FoundOrNew(LicensesWith(e, p), lc)
    BY <1>2, SameReads DEF Books!FoundOrNew
  <1>9. p \in Live(products) /\ UNCHANGED products
    BY DEF PurchaseCreate, ProductExists, p
  <1>10. Books!Purchase(e, p, n)
    BY <1>3, <1>4, <1>5, <1>7, <1>8, <1>9, SameReads DEF Books!Purchase
  <1>. QED
    BY <1>1, <1>10 DEF Books!Next

(* ... or adds to the one it found, whose customer is the one it holds.    *)
LEMMA AdditionIsPurchase ==
    ASSUME IInv, NEW r \in Requests, PurchaseAddSeats(r)
    PROVE  Books!Next
  <1>. DEFINE c == job[r].customer
              e == job[r].email
              p == job[r].product
              n == job[r].seats
              l == job[r].lic
  <1>1. /\ pc[r] = "pur_write" /\ job[r] \in PurchaseJob /\ l # Null
        /\ e \in Emails /\ p \in ProductIds /\ n \in SeatChoices /\ l \in LicenseIds
    BY JobTypes, StepKinds DEF IInv, PurchaseAddSeats, PurchaseJob
  <1>2. /\ LicensesWith(e, p) = {l}
        /\ CustomersWith(e) = IF job[r].new THEN {} ELSE {c}
    BY <1>1 DEF IInv, FoundStaysTrue
  <1>3. /\ l \in Live(lc) /\ lc[l].state = "live" /\ lc[l].email = e /\ lc[l].product = p
        /\ lc[l] \in LicenseRow
    BY <1>1, <1>2 DEF LicensesWith, Live, IInv, TypeOK
  <1>4. /\ lc[l].customer \in Live(customers)
        /\ customers[lc[l].customer].email = e
        /\ p \in Live(products)
    BY <1>3 DEF IInv, LicenseHasOwner
  <1>5. lc[l].customer = c /\ CustomersWith(e) = {c}
    BY <1>2, <1>4 DEF CustomersWith
  <1>6. /\ customers[c] = [state |-> "live", email |-> e]
        /\ c \in CustomerIds
    <2>1. c \in CustomerIds /\ customers[c] \in CustomerRow /\ customers[c].state = "live"
      BY <1>4, <1>5 DEF Live, IInv, TypeOK
    <2>. QED
      BY <1>4, <1>5, <2>1 DEF CustomerRow
  <1>7. /\ lc[l].totals.seats + n <= MaxInt4
        /\ lc' = [lc EXCEPT ![l].totals = Added(@, n)]
        /\ UNCHANGED <<customers, products>>
    BY DEF PurchaseAddSeats, FitsInt4
  <1>. DEFINE t == [count |-> lc[l].totals.count + 1, seats |-> lc[l].totals.seats + n]
              row == [lc[l] EXCEPT !.totals = t]
  <1>8. lc' = [lc EXCEPT ![l] = row]
    BY <1>7 DEF Added
  <1>9. /\ c \in Books!FoundOrNew(CustomersWith(e), customers)
        /\ l \in Books!FoundOrNew(LicensesWith(e, p), lc)
    BY <1>2, <1>5 DEF Books!FoundOrNew
  <1>. HIDE DEF c, e, p, n, l
  <1>10. row = [state |-> "live", customer |-> c, email |-> e, product |-> p, totals |-> t]
    <2>. HIDE DEF t
    <2>. QED
      BY <1>3, <1>5 DEF LicenseRow
  <1>11. customers' = [customers EXCEPT ![c] = [state |-> "live", email |-> e]]
    BY <1>6, <1>7 DEF IInv, TypeOK
  <1>12. lc' = [lc EXCEPT ![l] =
                  [state |-> "live", customer |-> c, email |-> e, product |-> p,
                   totals |-> [count |-> lc[l].totals.count + 1,
                               seats |-> lc[l].totals.seats + n]]]
    <2>. HIDE DEF row
    <2>. QED
      BY <1>8, <1>10 DEF t
  <1>13. Books!Purchase(e, p, n)
    <2>. HIDE DEF row, t
    <2>1. /\ p \in Books!Live(products)
          /\ c \in Books!FoundOrNew(Books!CustomersWith(e), customers)
          /\ l \in Books!FoundOrNew(Books!LicensesWith(e, p), lc)
      BY <1>4, <1>9, SameReads
    <2>. QED
      BY ONLY <1>7, <1>11, <1>12, <2>1 DEF Books!Purchase
  <1>. QED
    BY <1>1, <1>13 DEF Books!Next

LEMMA BeginKeepsBooks ==
    ASSUME IInv, NEW r \in Requests, Begin(r)
    PROVE  [Books!Next]_(Books!vars)
  <1>1. CASE UNCHANGED tables
    BY <1>1 DEF tables, Books!vars
  <1>2. ASSUME NEW e \in Emails, CreateCustomer(r, e) PROVE Books!Next
    <2>1. Books!AddCustomer(e)
      BY <1>2, SameReads DEF CreateCustomer, FreshCustomer, Books!AddCustomer
    <2>. QED
      BY <2>1 DEF Books!Next
  <1>3. ASSUME NEW k \in Codes, CreateProduct(r, k) PROVE Books!Next
    <2>1. Books!AddProduct(k)
      BY <1>3, SameReads DEF CreateProduct, CodeTaken, Books!AddProduct
    <2>. QED
      BY <2>1 DEF Books!Next
  <1>4. ASSUME NEW p \in ProductIds, NEW aktif \in BOOLEAN, SetProductStatus(r, p, aktif)
        PROVE  Books!Next
    <2>1. Books!SetProductStatus(p, aktif)
      BY <1>4, SameReads DEF SetProductStatus, Books!SetProductStatus
    <2>. QED
      BY <2>1 DEF Books!Next
  <1>. QED
    BY <1>1, <1>2, <1>3, <1>4
    DEF Begin, Reject, PurchaseCheck, CreateCustomerRefused, UpdateCustomerProfile,
        DeleteCustomerCount, PurchaseNoProduct, CreateProductRefused, UpdateProduct,
        ProductMissing, DeleteProductCount, DeletePurchases

LEMMA AdvanceKeepsBooks ==
    ASSUME IInv, UnusedIsEmpty, NEW r \in Requests, Advance(r)
    PROVE  [Books!Next]_(Books!vars)
  <1>. TypeOK
    BY DEF IInv
  <1>1. CASE UNCHANGED tables
    BY <1>1 DEF tables, Books!vars
  <1>2. ASSUME DeleteCustomer(r) PROVE Books!Next
    <2>. DEFINE c == job[r].customer
    <2>1. c \in CustomerIds /\ c \in Live(customers) /\ LicensesOfCustomer(c) = {}
      BY <1>2 DEF DeleteCustomer, CustomerUnused, Live, TypeOK
    <2>2. customers' = [customers EXCEPT ![c] = Books!NoCustomer("deleted")]
      BY <1>2 DEF DeleteCustomer, NoCustomer, Books!NoCustomer
    <2>3. Books!RemoveCustomer(c)
      BY <1>2, <2>1, <2>2, SameReads
      DEF DeleteCustomer, LicensesOfCustomer, Books!RemoveCustomer
    <2>. QED
      BY <2>1, <2>3 DEF Books!Next
  <1>3. ASSUME DeleteProduct(r) PROVE Books!Next
    <2>. DEFINE p == job[r].product
    <2>1. p \in ProductIds /\ p \in Live(products) /\ LicensesOfProduct(p) = {}
      BY <1>3 DEF DeleteProduct, ProductUnused, Live, TypeOK
    <2>2. products' = [products EXCEPT ![p] = Books!NoProduct("deleted")]
      BY <1>3 DEF DeleteProduct, NoProduct, Books!NoProduct
    <2>3. Books!RemoveProduct(p)
      BY <1>3, <2>1, <2>2, SameReads
      DEF DeleteProduct, LicensesOfProduct, Books!RemoveProduct
    <2>. QED
      BY <2>1, <2>3 DEF Books!Next
  <1>4. ASSUME DeleteLicense(r) PROVE Books!Next
    <2>. DEFINE l == job[r].lic
    <2>1. l \in LicenseIds /\ l \in Live(lc)
      BY <1>4 DEF DeleteLicense, Live, TypeOK
    <2>2. NoLicense("deleted") = Books!NoLicense("deleted")
      BY DEF NoLicense, NoPurchases, Books!NoLicense, Books!NoTotals
    <2>3. Books!RemoveLicense(l)
      BY <1>4, <2>1, <2>2, SameReads DEF DeleteLicense, Books!RemoveLicense
    <2>. QED
      BY <2>1, <2>3 DEF Books!Next
  <1>. QED
    BY <1>1, <1>2, <1>3, <1>4, CreationIsPurchase, AdditionIsPurchase
    DEF Advance, FindCustomer, CreateForPurchase, CreateClashes, FindLicense,
        PurchaseOrphan, PurchaseOverflow, GetCustomerProfile, DeleteCustomerRefused,
        DeleteProductRefused, DeleteLicenseRefused

(* Whatever the requests of the admins do between each other's statements, *)
(* the books change by whole purchases, entries and removals only.         *)
THEOREM ImplementsSalesBooks == Spec => BooksRefined
  <1>1. Init => Books!Init
    BY DEF Init, Books!Init, NoCustomer, Books!NoCustomer, NoProduct, Books!NoProduct,
           NoLicense, Books!NoLicense, NoPurchases, Books!NoTotals
  <1>2. IInv /\ UnusedIsEmpty /\ [Next]_vars => [Books!Next]_(Books!vars)
    <2>. SUFFICES ASSUME IInv, UnusedIsEmpty, [Next]_vars
                  PROVE  [Books!Next]_(Books!vars)
      OBVIOUS
    <2>1. CASE UNCHANGED tables
      BY <2>1 DEF tables, Books!vars
    <2>. QED
      BY <2>1, BeginKeepsBooks, AdvanceKeepsBooks DEF Next, Respond, Fail, vars, tables
  <1>. QED
    BY <1>1, <1>2, Invariance, UnusedAreEmpty, PTL DEF Spec, BooksRefined, Books!Spec
=============================================================================

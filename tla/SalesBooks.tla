------------------------------ MODULE SalesBooks ------------------------------
(***************************************************************************)
(* What the back office promises its vendor about its books: customers,    *)
(* products and licenses change only by whole operations.  A purchase      *)
(* enters the customer, the license and the seats together, for a product  *)
(* that is there; nothing is removed that a license still refers to.       *)
(* Nothing is said of requests, statements, transactions or locks.         *)
(*                                                                         *)
(* BackOffice is the detailed specification that implements it.            *)
(***************************************************************************)
EXTENDS Integers

CONSTANTS
    Emails, Codes, CustomerIds, ProductIds, LicenseIds,
    SeatChoices, MaxInt4, Null      \* as in BackOffice, all of them

VARIABLES customers, products, lc

vars == <<customers, products, lc>>

NoTotals == [count |-> 0, seats |-> 0]
NoCustomer(s) == [state |-> s, email |-> Null]
NoProduct(s) == [state |-> s, code |-> Null, active |-> FALSE]
NoLicense(s) == [state |-> s, customer |-> Null, email |-> Null,
                 product |-> Null, totals |-> NoTotals]

Init ==
    /\ customers = [c \in CustomerIds |-> NoCustomer("unborn")]
    /\ products = [p \in ProductIds |-> NoProduct("unborn")]
    /\ lc = [l \in LicenseIds |-> NoLicense("unborn")]

With(rows, state) == {x \in DOMAIN rows : rows[x].state = state}
Live(rows) == With(rows, "live")

(* What there is, or else a row not used yet.                              *)
FoundOrNew(found, rows) == IF found = {} THEN With(rows, "unborn") ELSE found

CustomersWith(e) == {c \in Live(customers) : customers[c].email = e}
LicensesWith(e, p) == {l \in Live(lc) : lc[l].email = e /\ lc[l].product = p}

(* One person, one license for the product, and n seats more on it.        *)
Purchase(e, p, n) ==
    /\ p \in Live(products)
    /\ \E c \in FoundOrNew(CustomersWith(e), customers),
          l \in FoundOrNew(LicensesWith(e, p), lc) :
        LET t == lc[l].totals IN
        /\ t.seats + n <= MaxInt4
        /\ customers' = [customers EXCEPT ![c] = [state |-> "live", email |-> e]]
        /\ lc' = [lc EXCEPT ![l] =
                      [state |-> "live", customer |-> c, email |-> e, product |-> p,
                       totals |-> [count |-> t.count + 1, seats |-> t.seats + n]]]
    /\ UNCHANGED products

RemoveLicense(l) ==
    /\ l \in Live(lc)
    /\ lc' = [lc EXCEPT ![l] = NoLicense("deleted")]
    /\ UNCHANGED <<customers, products>>

AddCustomer(e) ==
    /\ CustomersWith(e) = {}
    /\ \E c \in With(customers, "unborn") :
        customers' = [customers EXCEPT ![c] = [state |-> "live", email |-> e]]
    /\ UNCHANGED <<products, lc>>

RemoveCustomer(c) ==
    /\ c \in Live(customers)
    /\ \A l \in Live(lc) : lc[l].customer # c
    /\ customers' = [customers EXCEPT ![c] = NoCustomer("deleted")]
    /\ UNCHANGED <<products, lc>>

AddProduct(k) ==
    /\ \A p \in Live(products) : products[p].code # k
    /\ \E p \in With(products, "unborn") :
        products' = [products EXCEPT ![p] =
                        [state |-> "live", code |-> k, active |-> TRUE]]
    /\ UNCHANGED <<customers, lc>>

SetProductStatus(p, aktif) ==
    /\ p \in Live(products)
    /\ products' = [products EXCEPT ![p].active = aktif]
    /\ UNCHANGED <<customers, lc>>

RemoveProduct(p) ==
    /\ p \in Live(products)
    /\ \A l \in Live(lc) : lc[l].product # p
    /\ products' = [products EXCEPT ![p] = NoProduct("deleted")]
    /\ UNCHANGED <<customers, lc>>

Next ==
    \/ \E e \in Emails :
        \/ AddCustomer(e)
        \/ \E p \in ProductIds, n \in SeatChoices : Purchase(e, p, n)
    \/ \E l \in LicenseIds : RemoveLicense(l)
    \/ \E c \in CustomerIds : RemoveCustomer(c)
    \/ \E k \in Codes : AddProduct(k)
    \/ \E p \in ProductIds :
        RemoveProduct(p) \/ \E aktif \in BOOLEAN : SetProductStatus(p, aktif)

Spec == Init /\ [][Next]_vars
==============================================================================

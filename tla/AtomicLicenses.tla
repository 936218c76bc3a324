---------------------------- MODULE AtomicLicenses ----------------------------
(***************************************************************************)
(* What the server promises to those who call it about licenses and seats: *)
(* a request is looked at, and takes effect in one step or not at all.     *)
(* There are no transactions, no locks and nobody waits; an answer is true *)
(* of the tables in the step that decides it.                              *)
(*                                                                         *)
(* What the code does not promise is left open here too: the due date of a *)
(* license and the status of its product are those of the lookup, however  *)
(* long ago; a license.lic is signed after its seat was taken; and INTERNAL *)
(* may be the answer to anything.  It does not tell whether what was asked *)
(* has happened: the commit may have failed, or only its acknowledgement.  *)
(* Yet it happened wholly or not at all, an activation up to its           *)
(* license.lic, and every other answer says which.                         *)
(*                                                                         *)
(* LicenseActivation is the detailed specification that implements it.     *)
(***************************************************************************)
EXTENDS Integers, FiniteSets

CONSTANTS
    Products, Accounts, ProductOf(_),   \* as in LicenseActivation, all of them
    Licenses, AccountOf(_), Machines, Requests, Admins, Null,
    MaxInt4, Month, Grace, Term, SeatChoices, MonthChoices

VARIABLES
    productActive,  \* products.status_aktif
    lc,             \* license_customers, without its child rows
    act,            \* activations
    req,            \* how far each request has come
    issued,         \* activation ids for which a license.lic was signed
    now             \* the clock

tables == <<productActive, lc, act>>
vars == <<productActive, lc, act, req, issued, now>>

Seats == Licenses \X Machines

NoLicense(state) == [state |-> state, max |-> 0, due |-> Null]
NoSeat == [status |-> "NONE", exp |-> 0, by |-> Null]

Idle == [at |-> "idle"]
Found(l, m, due) == [at |-> "found", lic |-> l, mach |-> m, due |-> due]
Dated(l, m, exp) == [at |-> "dated", lic |-> l, mach |-> m, exp |-> exp]
Seated(l, m) == [at |-> "seated", lic |-> l, mach |-> m]
Ordered(a, n, k) == [at |-> "ordered", acc |-> a, seats |-> n, months |-> k]
Closing(l) == [at |-> "closing", lic |-> l]
Told(code) == [at |-> "told", code |-> code]

Init ==
    /\ productActive = [p \in Products |-> TRUE]
    /\ lc = [l \in Licenses |-> NoLicense("unborn")]
    /\ act = [i \in Seats |-> NoSeat]
    /\ req = [r \in Requests |-> Idle]
    /\ issued = {}
    /\ now = 0

Live(l) == lc[l].state = "live"
Registered(a, l) == AccountOf(l) = a /\ Live(l)
Holders(l) == {m \in Machines : act[<<l, m>>].status = "ACTIVE"}

Goes(r, at, next) ==
    /\ req[r].at = at
    /\ req' = [req EXCEPT ![r] = next]

(* A step that takes effect; whoever asked may be told that it failed.     *)
Done(r, at) == \E code \in {"OK", "INTERNAL"} : Goes(r, at, Told(code))

(* A step that is about a request only.                                    *)
Only(r, at, next) == Goes(r, at, next) /\ UNCHANGED <<tables, issued, now>>

-----------------------------------------------------------------------------
(* Activate: the lookup, the expiry, the seat, the license.lic.            *)

LookUp(r, a, m) ==
    /\ productActive[ProductOf(a)]
    /\ \E l \in Licenses :
        /\ Registered(a, l)
        /\ Only(r, "idle", Found(l, m, lc[l].due))

NotRegistered(r, a) ==
    /\ \/ ~productActive[ProductOf(a)]
       \/ \A l \in Licenses : ~Registered(a, l)
    /\ Only(r, "idle", Told("NOT_REGISTERED"))

Expiry(due) == IF due = Null THEN now + Term ELSE due + Grace

Date(r) == Only(r, "found", Dated(req[r].lic, req[r].mach, Expiry(req[r].due)))

MayHaveSeat(l, m) == m \in Holders(l) \/ Cardinality(Holders(l)) < lc[l].max

TakeSeat(r) ==
    LET l == req[r].lic
        m == req[r].mach
    IN
    /\ Goes(r, "dated", Seated(l, m))
    /\ Live(l)
    /\ MayHaveSeat(l, m)
    /\ act' = [act EXCEPT ![<<l, m>>] =
                   [status |-> "ACTIVE", exp |-> req[r].exp, by |-> Null]]
    /\ UNCHANGED <<productActive, lc, issued, now>>

Refuse(r) ==
    /\ Only(r, "dated", Told("QUOTA_EXCEEDED"))
    /\ Live(req[r].lic)
    /\ ~MayHaveSeat(req[r].lic, req[r].mach)

Sign(r) ==
    /\ Goes(r, "seated", Told("OK"))
    /\ issued' = issued \cup {<<req[r].lic, req[r].mach>>}
    /\ UNCHANGED <<tables, now>>

-----------------------------------------------------------------------------
(* Deactivate and ForceDeactivate.                                         *)

FreeSeat(r, i, by) ==
    /\ Done(r, "idle")
    /\ act[i].status = "ACTIVE"
    /\ act' = [act EXCEPT ![i].status = "DEACTIVATED", ![i].by = by]
    /\ UNCHANGED <<productActive, lc, issued, now>>

NothingToFree(r, i) ==
    /\ act[i].status # "ACTIVE"
    /\ Only(r, "idle", Told("NOT_FOUND"))

Deactivate(r, i) == i \in issued /\ (FreeSeat(r, i, Null) \/ NothingToFree(r, i))

ForceDeactivate(r, i, adm) == FreeSeat(r, i, adm) \/ NothingToFree(r, i)

-----------------------------------------------------------------------------
(* The back office.                                                        *)

SetProductStatus(r, p, aktif) ==
    /\ Done(r, "idle")
    /\ productActive' = [productActive EXCEPT ![p] = aktif]
    /\ UNCHANGED <<lc, act, issued, now>>

ExtensionBase(due) == IF due # Null /\ due > now THEN due ELSE now

Extend(r, l, months) ==
    /\ Done(r, "idle")
    /\ Live(l)
    /\ lc' = [lc EXCEPT ![l].due = ExtensionBase(@) + months * Month]
    /\ UNCHANGED <<productActive, act, issued, now>>

NothingToExtend(r, l) == ~Live(l) /\ Only(r, "idle", Told("NOT_FOUND"))

Order(r, a, seats, months) ==
    /\ productActive[ProductOf(a)]
    /\ Only(r, "idle", Ordered(a, seats, months))

NotSold(r, a) ==
    /\ ~productActive[ProductOf(a)]
    /\ Only(r, "idle", Told("NOT_FOUND"))

(* The account's license gets more seats, or the account gets a license.   *)
AddSeats(r) ==
    /\ Done(r, "ordered")
    /\ \E l \in Licenses :
        /\ Registered(req[r].acc, l)
        /\ lc[l].max + req[r].seats <= MaxInt4
        /\ lc' = [lc EXCEPT ![l].max = @ + req[r].seats]
    /\ UNCHANGED <<productActive, act, issued, now>>

Open(r) ==
    /\ Done(r, "ordered")
    /\ \A l \in Licenses : ~Registered(req[r].acc, l)
    /\ \E l \in Licenses :
        /\ AccountOf(l) = req[r].acc /\ lc[l].state = "unborn"
        /\ lc' = [lc EXCEPT ![l] =
                      [state |-> "live", max |-> req[r].seats,
                       due |-> IF req[r].months = 0 THEN Null
                               ELSE now + req[r].months * Month]]
    /\ UNCHANGED <<productActive, act, issued, now>>

(* The license goes with all its activations.                              *)
BeginClose(r, l) == lc[l].state # "unborn" /\ Only(r, "idle", Closing(l))

Close(r) ==
    LET l == req[r].lic IN
    /\ Done(r, "closing")
    /\ Live(l)
    /\ lc' = [lc EXCEPT ![l] = NoLicense("deleted")]
    /\ act' = [i \in Seats |-> IF i[1] = l THEN NoSeat ELSE act[i]]
    /\ UNCHANGED <<productActive, issued, now>>

NothingToClose(r) == Only(r, "closing", Told("NOT_FOUND")) /\ ~Live(req[r].lic)

-----------------------------------------------------------------------------
Reject(r, code) == Only(r, "idle", Told(code))

(* Nothing happens, from here on.                                          *)
Fail(r) == req[r].at # "told" /\ Only(r, req[r].at, Told("INTERNAL"))

Respond(r) == Only(r, "told", Idle)

Tick == now' = now + 1 /\ UNCHANGED <<tables, req, issued>>

Begin(r) ==
    \/ \E a \in Accounts :
        \/ \E m \in Machines : LookUp(r, a, m)
        \/ \E n \in SeatChoices, k \in MonthChoices : Order(r, a, n, k)
        \/ NotRegistered(r, a) \/ NotSold(r, a)
    \/ \E i \in Seats :
        Deactivate(r, i) \/ \E adm \in Admins : ForceDeactivate(r, i, adm)
    \/ \E l \in Licenses :
        \/ \E k \in MonthChoices \ {0} : Extend(r, l, k)
        \/ NothingToExtend(r, l) \/ BeginClose(r, l)
    \/ \E p \in Products, aktif \in BOOLEAN : SetProductStatus(r, p, aktif)
    \/ \E code \in {"INVALID_LICENSE", "VALIDATION"} : Reject(r, code)

Advance(r) ==
    \/ Date(r) \/ TakeSeat(r) \/ Refuse(r) \/ Sign(r)
    \/ AddSeats(r) \/ Open(r)
    \/ Close(r) \/ NothingToClose(r)
    \/ Fail(r) \/ Respond(r)

Next == Tick \/ \E r \in Requests : Begin(r) \/ Advance(r)

Spec == Init /\ [][Next]_vars
==============================================================================

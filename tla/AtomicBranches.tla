---------------------------- MODULE AtomicBranches ----------------------------
(***************************************************************************)
(* What the server promises to those who call it about branches: after its *)
(* lookup a request takes effect in one step or not at all.  There are no  *)
(* transactions, no locks and nobody waits.                                *)
(*                                                                         *)
(* A registration goes by the quota of its lookup, however long ago: that  *)
(* is all the code promises (compare AtomicLicenses, where a seat is       *)
(* granted by the quota of the step).  INTERNAL may be the answer to       *)
(* anything, and does not tell whether what was asked has happened: a      *)
(* statement or a commit may have failed, or only the reply to it, or the  *)
(* count to be reported.  Yet it happened wholly or not at all, and every  *)
(* other answer says which.                                                *)
(*                                                                         *)
(* BranchRegistration is the detailed specification that implements it.    *)
(***************************************************************************)
EXTENDS Integers, FiniteSets

CONSTANTS
    Products, Accounts, ProductOf(_),   \* as in BranchRegistration, all of them
    Licenses, AccountOf(_), Branches, Requests, Admins, Null,
    DefaultQuota, MaxQuota

VARIABLES
    productActive,  \* products.status_aktif
    lc,             \* license_customers
    br,             \* branches
    req             \* how far each request has come

tables == <<productActive, lc, br>>
vars == <<productActive, lc, br, req>>

Slots == Licenses \X Branches

NoLicense(state) == [state |-> state, max |-> 0]
NoBranch == [status |-> "NONE", by |-> Null]

Idle == [at |-> "idle"]
Found(l, b, max) == [at |-> "found", lic |-> l, code |-> b, max |-> max]
Freeing(l, b) == [at |-> "freeing", lic |-> l, code |-> b]
Counting == [at |-> "counting"]
Closing(l) == [at |-> "closing", lic |-> l]
Told(code) == [at |-> "told", code |-> code]

Init ==
    /\ productActive = [p \in Products |-> TRUE]
    /\ lc = [l \in Licenses |-> NoLicense("unborn")]
    /\ br = [i \in Slots |-> NoBranch]
    /\ req = [r \in Requests |-> Idle]

Live(l) == lc[l].state = "live"
Holders(l) == {b \in Branches : br[<<l, b>>].status = "ACTIVE"}

Goes(r, at, next) ==
    /\ req[r].at = at
    /\ req' = [req EXCEPT ![r] = next]

(* A step that takes effect; whoever asked may be told that it failed.     *)
Done(r, at) == \E code \in {"OK", "INTERNAL"} : Goes(r, at, Told(code))

(* A step that is about a request only.                                    *)
Only(r, at, next) == Goes(r, at, next) /\ UNCHANGED tables

-----------------------------------------------------------------------------
(* Check, Register, Release.                                               *)

Sold(a, l) == productActive[ProductOf(a)] /\ AccountOf(l) = a /\ Live(l)

Check(r, a, l) == Sold(a, l) /\ Only(r, "idle", Counting)
LookUp(r, a, l, b) == Sold(a, l) /\ Only(r, "idle", Found(l, b, lc[l].max))
LookUpToFree(r, a, l, b) == Sold(a, l) /\ Only(r, "idle", Freeing(l, b))

NotRegistered(r, a) ==
    /\ \A l \in Licenses : ~Sold(a, l)
    /\ Only(r, "idle", Told("NOT_REGISTERED"))

(* A branch that is registered already keeps its slot, whatever the quota. *)
KeepSlot(r) ==
    /\ Only(r, "found", Counting)
    /\ req[r].code \in Holders(req[r].lic)

HasFreeSlot(r) == Cardinality(Holders(req[r].lic)) < req[r].max

TakeSlot(r) ==
    /\ Done(r, "found")
    /\ Live(req[r].lic)
    /\ req[r].code \notin Holders(req[r].lic)
    /\ HasFreeSlot(r)
    /\ br' = [br EXCEPT ![<<req[r].lic, req[r].code>>] =
                  [status |-> "ACTIVE", by |-> Null]]
    /\ UNCHANGED <<productActive, lc>>

Refuse(r) ==
    /\ Only(r, "found", Told("QUOTA_EXCEEDED"))
    /\ req[r].code \notin Holders(req[r].lic)
    /\ ~HasFreeSlot(r)

(* The slot is freed, and by whom.                                         *)
Free(i, by) ==
    /\ br[i].status = "ACTIVE"
    /\ br' = [br EXCEPT ![i].status = "DEACTIVATED", ![i].by = by]
    /\ UNCHANGED <<productActive, lc>>

FreeSlot(r) ==
    /\ Goes(r, "freeing", Counting) \/ Goes(r, "freeing", Told("INTERNAL"))
    /\ Free(<<req[r].lic, req[r].code>>, Null)

NothingToFree(r) ==
    /\ Only(r, "freeing", Told("NOT_FOUND"))
    /\ req[r].code \notin Holders(req[r].lic)

Count(r) == Only(r, "counting", Told("OK"))

-----------------------------------------------------------------------------
(* The back office.                                                        *)

ForceFree(r, i, adm) ==
    \/ Done(r, "idle") /\ Free(i, adm)
    \/ br[i].status # "ACTIVE" /\ Only(r, "idle", Told("NOT_FOUND"))

SetProductStatus(r, p, aktif) ==
    /\ Done(r, "idle")
    /\ productActive' = [productActive EXCEPT ![p] = aktif]
    /\ UNCHANGED <<lc, br>>

Open(r, l) ==
    /\ Done(r, "idle")
    /\ lc[l].state = "unborn"
    /\ \A k \in Licenses : AccountOf(k) = AccountOf(l) => ~Live(k)
    /\ lc' = [lc EXCEPT ![l] = [state |-> "live", max |-> DefaultQuota]]
    /\ UNCHANGED <<productActive, br>>

SetQuota(r, l, n) ==
    /\ Done(r, "idle")
    /\ Live(l)
    /\ lc' = [lc EXCEPT ![l].max = n]
    /\ UNCHANGED <<productActive, br>>

NoQuotaToSet(r, l) == ~Live(l) /\ Only(r, "idle", Told("NOT_FOUND"))

(* The license goes with all its branches.                                 *)
BeginClose(r, l) == lc[l].state # "unborn" /\ Only(r, "idle", Closing(l))

Close(r) ==
    LET l == req[r].lic IN
    /\ Done(r, "closing")
    /\ Live(l)
    /\ lc' = [lc EXCEPT ![l] = NoLicense("deleted")]
    /\ br' = [i \in Slots |-> IF i[1] = l THEN NoBranch ELSE br[i]]
    /\ UNCHANGED productActive

NothingToClose(r) == Only(r, "closing", Told("NOT_FOUND")) /\ ~Live(req[r].lic)

-----------------------------------------------------------------------------
Reject(r, code) == Only(r, "idle", Told(code))

(* Nothing happens, from here on.                                          *)
Fail(r) == req[r].at # "told" /\ Only(r, req[r].at, Told("INTERNAL"))

Respond(r) == Only(r, "told", Idle)

Begin(r) ==
    \/ \E a \in Accounts :
        \/ NotRegistered(r, a)
        \/ \E l \in Licenses :
            \/ Check(r, a, l)
            \/ \E b \in Branches : LookUp(r, a, l, b) \/ LookUpToFree(r, a, l, b)
    \/ \E i \in Slots, adm \in Admins : ForceFree(r, i, adm)
    \/ \E l \in Licenses :
        \/ \E n \in 0..MaxQuota : SetQuota(r, l, n)
        \/ Open(r, l) \/ NoQuotaToSet(r, l) \/ BeginClose(r, l)
    \/ \E p \in Products, aktif \in BOOLEAN : SetProductStatus(r, p, aktif)
    \/ \E code \in {"INVALID_LICENSE", "VALIDATION"} : Reject(r, code)

Advance(r) ==
    \/ KeepSlot(r) \/ TakeSlot(r) \/ Refuse(r)
    \/ FreeSlot(r) \/ NothingToFree(r) \/ Count(r)
    \/ Close(r) \/ NothingToClose(r)
    \/ Fail(r) \/ Respond(r)

Next == \E r \in Requests : Begin(r) \/ Advance(r)

Spec == Init /\ [][Next]_vars
==============================================================================

----------------------- MODULE LicenseActivationTheorems -----------------------
(***************************************************************************)
(* What the inductive invariant of LicenseActivationProofs yields: the     *)
(* properties of LicenseActivation for every number of licenses, machines  *)
(* and requests, and the refinements of SeatQuota and of AtomicLicenses.   *)
(***************************************************************************)
EXTENDS LicenseActivationProofs

-----------------------------------------------------------------------------
(* The parts of the invariant that are properties.                         *)

(* Every variable keeps its type; in particular max_activations stays in   *)
(* the range of its INTEGER column, and a request finds at each step the   *)
(* local variables that the step reads (all handlers).                     *)
THEOREM TypeCorrect == Spec => []TypeOK
  <1>1. IInv => TypeOK
    BY DEF IInv
  <1>. QED
    BY <1>1, Invariance, PTL

(* The core invariant of package license: the ACTIVE rows of a license     *)
(* never outnumber its max_activations (Activate, Deactivate, RecordPurchase, *)
(* DeleteLicense, in any interleaving).                                    *)
THEOREM NeverOversold == Spec => []SeatsNeverOversold
  <1>1. IInv => SeatsNeverOversold
    BY DEF IInv
  <1>. QED
    BY <1>1, Invariance, PTL

(* What Activate read after locking the license row is true to the end of  *)
(* its transaction.                                                        *)
THEOREM ReadsAreStable == Spec => []ReadsStayTrue
  <1>1. IInv => ReadsStayTrue
    BY DEF IInv
  <1>. QED
    BY <1>1, Invariance, PTL

(* DeleteLicense leaves no activations row without its license, whichever  *)
(* Activate runs against it.                                               *)
THEOREM NoOrphans == Spec => []NoOrphanActivation
  <1>1. IInv => NoOrphanActivation
    BY DEF IInv
  <1>. QED
    BY <1>1, Invariance, PTL

(* Activate signs a license.lic only for a committed activation.           *)
THEOREM IssuedIsBacked == Spec => []IssuedLicenseIsBacked
  <1>1. IInv => IssuedLicenseIsBacked
    BY DEF IInv
  <1>. QED
    BY <1>1, Invariance, PTL

(* A reclaimed row forgets the admin who force-deactivated it (Activate,   *)
(* case 3).                                                                *)
THEOREM ReclaimForgetsReleaser == Spec => []ActiveRowHasNoReleaser
  <1>1. IInv => ActiveRowHasNoReleaser
    BY DEF IInv
  <1>. QED
    BY <1>1, Invariance, PTL

-----------------------------------------------------------------------------
(* Lock order.  Without DeleteLicense a request waits for one that is      *)
(* inside Activate; that one waits at most for an activations row, whose   *)
(* holder is past its last wait.                                           *)

(* Whoever is waited for by a request that deletes nothing is inside       *)
(* Activate, or holds the row it deletes.                                  *)
LEMMA WaitedFor ==
    ASSUME IInv, NEW r \in Requests, NEW s \in Requests,
           WaitsFor(r, s), pc[r] \notin DeletePcs, pc[s] \notin DeletePcs
    PROVE  \/ pc[r] \in {"act_lock", "pur_commit"} /\ pc[s] \in InsideActivate
           \/ pc[r] = "act_row" /\ pc[s] \in InsideActivate \ {"act_row"}
  <1>1. CASE pc[r] \in {"act_lock", "del_parent"} /\ lcLock[job[r].lic] = s
    <2>1. pc[r] = "act_lock" /\ job[r].lic \in Licenses
      BY <1>1, JobTypes DEF IInv, ActivatePcs, ActivateJob, DeletePcs
    <2>. QED
      BY <1>1, <2>1 DEF IInv, LicenseLockInv
  <1>2. CASE pc[r] = "act_row" /\ actLock[<<job[r].lic, job[r].mach>>] = s
    <2>1. <<job[r].lic, job[r].mach>> \in Activations
      BY <1>2, JobTypes DEF IInv, ActivatePcs, InsideActivate, ActivateJob, Activations
    <2>. QED
      BY <1>2, <2>1 DEF IInv, RowLockInv, MayHoldRow
  <1>3. CASE /\ pc[r] = "pur_commit"
             /\ \E l \in Licenses : Registered(job[r].acc, l) /\ lcLock[l] = s
    BY <1>3 DEF IInv, LicenseLockInv
  <1>. QED
    BY <1>1, <1>2, <1>3 DEF WaitsFor, DeletePcs

(* Activations and purchases never deadlock among themselves: every cycle  *)
(* of waits has a DeleteLicense in it (Activate locks the license row and  *)
(* then the machine's row, DeleteLicense the other way round).             *)
THEOREM DeadlockNeedsDelete == Spec => []WaitCycleNeedsDelete
  <1>1. IInv => WaitCycleNeedsDelete
    <2>. SUFFICES ASSUME IInv, NEW C \in SUBSET Requests, WaitCycle(C),
                         \A r \in C : pc[r] \notin DeletePcs
                  PROVE  FALSE
      BY DEF WaitCycleNeedsDelete
    <2>1. \A r \in C : \E s \in C :
             \/ pc[r] \in {"act_lock", "pur_commit"} /\ pc[s] \in InsideActivate
             \/ pc[r] = "act_row" /\ pc[s] \in InsideActivate \ {"act_row"}
      BY WaitedFor DEF WaitCycle
    <2>2. PICK r \in C : pc[r] \in InsideActivate
      BY <2>1 DEF WaitCycle, InsideActivate
    <2>3. PICK s \in C : pc[s] \in InsideActivate \ {"act_row"}
      BY <2>1, <2>2 DEF InsideActivate
    <2>. QED
      BY <2>1, <2>3 DEF InsideActivate
  <1>. QED
    BY <1>1, Invariance, PTL

-----------------------------------------------------------------------------
(* What no step may do.                                                    *)

(* Activate refuses only a machine without a seat, and only while no seat  *)
(* is free: what it counted and read under the license's lock is current.  *)
THEOREM RefusalsAreJustified == Spec => RefusalIsJustified
  <1>1. ASSUME IInv, NEW r \in Requests, ActivateRefuse(r)
        PROVE  /\ job[r].mach \notin Holders(job[r].lic)
               /\ Cardinality(Holders(job[r].lic)) >= lc[job[r].lic].max
    <2>1. /\ pc[r] = "act_count" /\ job[r] \in ActivateJob
          /\ ~(Cardinality(Holders(job[r].lic)) < job[r].max)
      BY <1>1, JobTypes
      DEF IInv, ActivateRefuse, HasFreeSeat, ActivatePcs, InsideActivate
    <2>2. /\ job[r].max = lc[job[r].lic].max
          /\ act[<<job[r].lic, job[r].mach>>].status # "ACTIVE"
      BY <1>1, <2>1 DEF IInv, ReadsStayTrue, FoundRowInv, InsideActivate
    <2>3. lc[job[r].lic].max \in Nat /\ Cardinality(Holders(job[r].lic)) \in Nat
      BY <1>1, <2>1, HoldersFinite, ConstantsAssumption
      DEF IInv, TypeOK, LicenseRow, ActivateJob
    <2>. QED
      BY <2>1, <2>2, <2>3 DEF Holders, HoldersIn
  <1>. DEFINE Step ==
         \A r \in Requests :
           ActivateRefuse(r) =>
               /\ job[r].mach \notin Holders(job[r].lic)
               /\ Cardinality(Holders(job[r].lic)) >= lc[job[r].lic].max
  <1>2. IInv => Step
    BY <1>1
  <1>3. RefusalIsJustified <=> [][Step]_vars
    BY DEF RefusalIsJustified
  <1>. HIDE DEF Step
  <1>. QED
    BY <1>2, <1>3, Invariance, PTL

(* ExtendSubscription counts its months from the due date on record or     *)
(* later, so a renewal adds to the time paid for and never replaces it.    *)
THEOREM RenewalsKeepPaidTime == Spec => RenewalKeepsPaidTime
  <1>1. ASSUME IInv, NEW r \in Requests, NEW l \in Licenses, NEW k \in MonthChoices,
               ExtendSubscription(r, l, k), lc[l].due # Null
        PROVE  lc'[l].due >= lc[l].due + k * Month
    <2>1. lc[l].due \in Nat /\ now \in Nat
      BY <1>1 DEF IInv, TypeOK, LicenseRow, DateOrNull
    <2>2. ExtensionBase(lc[l].due) \in Nat /\ ExtensionBase(lc[l].due) >= lc[l].due
      BY <1>1, <2>1 DEF ExtensionBase
    <2>3. k * Month \in Nat
      BY ConstantsAssumption
    <2>4. lc'[l].due = ExtensionBase(lc[l].due) + k * Month
      BY <1>1 DEF IInv, TypeOK, LicenseRow, ExtendSubscription
    <2>. HIDE DEF ExtensionBase
    <2>. QED
      BY <2>1, <2>2, <2>3, <2>4
  <1>. DEFINE Step ==
         \A r \in Requests, l \in Licenses, k \in MonthChoices :
           ExtendSubscription(r, l, k) /\ lc[l].due # Null =>
               lc'[l].due >= lc[l].due + k * Month
  <1>2. IInv => Step
    BY <1>1
  <1>3. RenewalKeepsPaidTime <=> [][Step]_vars
    BY DEF RenewalKeepsPaidTime
  <1>. HIDE DEF Step
  <1>. QED
    BY <1>2, <1>3, Invariance, PTL

-----------------------------------------------------------------------------
(* LicenseActivation implements SeatQuota.                                 *)

(* A step that changes no capacity and no holder is a stutter.             *)
LEMMA SeatsStutter ==
    ASSUME \A l \in Licenses : lc'[l].max = lc[l].max,
           \A l \in Licenses : HoldersIn(act', l) = Holders(l)
    PROVE  [Seats!Next]_(Seats!vars)
  BY DEF Seats!vars, Holders

LEMMA TablesStutter ==
    ASSUME UNCHANGED <<lc, act>>
    PROVE  [Seats!Next]_(Seats!vars)
  BY SeatsStutter DEF Holders
(* A purchase adds its seats to one license.                               *)
LEMMA SeatsAdded ==
    ASSUME NEW l \in Licenses, NEW n \in 1..MaxInt4, lc[l].max + n <= MaxInt4,
           lc'[l].max = lc[l].max + n,
           \A k \in Licenses \ {l} : lc'[k].max = lc[k].max,
           UNCHANGED act
    PROVE  [Seats!Next]_(Seats!vars)
  <1>1. Seats!AddSeats(l, n)
    BY DEF Seats!AddSeats, Holders
  <1>. QED
    BY <1>1 DEF Seats!Next

(* A commit of Activate takes the counted seat.                            *)
LEMMA SeatTaken ==
    ASSUME NEW l \in Licenses, NEW m \in Machines,
           m \notin Holders(l), Cardinality(Holders(l)) < lc[l].max,
           HoldersIn(act', l) = Holders(l) \cup {m},
           \A k \in Licenses \ {l} : HoldersIn(act', k) = Holders(k),
           UNCHANGED lc
    PROVE  [Seats!Next]_(Seats!vars)
  <1>1. Seats!TakeSeat(l, m)
    BY SameCardinality DEF Seats!TakeSeat, Holders
  <1>. QED
    BY <1>1 DEF Seats!Next

(* A release frees the seat of one machine.                                *)
LEMMA SeatFreed ==
    ASSUME NEW l \in Licenses, NEW m \in Machines, m \in Holders(l),
           HoldersIn(act', l) = Holders(l) \ {m},
           \A k \in Licenses \ {l} : HoldersIn(act', k) = Holders(k),
           UNCHANGED lc
    PROVE  [Seats!Next]_(Seats!vars)
  <1>1. Seats!FreeSeat(l, m)
    BY DEF Seats!FreeSeat, Holders
  <1>. QED
    BY <1>1 DEF Seats!Next

(* A deletion closes the license with all its seats.                       *)
LEMMA SeatsClosed ==
    ASSUME NEW l \in Licenses, lc'[l].max = 0, HoldersIn(act', l) = {},
           \A k \in Licenses \ {l} :
               lc'[k].max = lc[k].max /\ HoldersIn(act', k) = Holders(k)
    PROVE  [Seats!Next]_(Seats!vars)
  <1>1. Seats!Close(l)
    BY DEF Seats!Close, Holders
  <1>. QED
    BY <1>1 DEF Seats!Next

(* Writing one row of activations changes who holds a seat at most by that *)
(* row's machine.                                                          *)
LEMMA OneRowWritten ==
    ASSUME TypeOK, NEW l \in Licenses, NEW m \in Machines, NEW row,
           act' = [act EXCEPT ![<<l, m>>] = row]
    PROVE  /\ row.status = "ACTIVE" => HoldersIn(act', l) = Holders(l) \cup {m}
           /\ row.status # "ACTIVE" => HoldersIn(act', l) = Holders(l) \ {m}
           /\ \A k \in Licenses \ {l} : HoldersIn(act', k) = Holders(k)
  <1>1. \A k \in Licenses, x \in Machines :
           act'[<<k, x>>] = IF k = l /\ x = m THEN row ELSE act[<<k, x>>]
    BY DEF TypeOK, Activations
  <1>. QED
    BY <1>1 DEF Holders, HoldersIn

(* What a request begins: a release frees a seat, an extension moves a due *)
(* date, and nothing else changes a license or an activation.              *)
LEMMA BeginRefines ==
    ASSUME IInv, NEW r \in Requests, Begin(r)
    PROVE  [Seats!Next]_(Seats!vars)
  <1>. USE DEF tables
  <1>1. ASSUME NEW i \in Activations, NEW by \in Admins \cup {Null}, ReleaseSeat(r, i, by)
        PROVE  [Seats!Next]_(Seats!vars)
    <2>1. PICK l \in Licenses, m \in Machines : i = <<l, m>>
      BY DEF Activations
    <2>. DEFINE row == [act[i] EXCEPT !.status = "DEACTIVATED", !.by = by]
    <2>2. act' = [act EXCEPT ![<<l, m>>] = row] /\ UNCHANGED lc
      BY <1>1, <2>1 DEF IInv, TypeOK, ReleaseSeat
    <2>3. row.status = "DEACTIVATED"
      BY DEF IInv, TypeOK, ActivationRow
    <2>4. m \in Holders(l)
      BY <1>1, <2>1 DEF ReleaseSeat, Holders, HoldersIn
    <2>. HIDE DEF row
    <2>5. /\ HoldersIn(act', l) = Holders(l) \ {m}
          /\ \A k \in Licenses \ {l} : HoldersIn(act', k) = Holders(k)
      BY <2>2, <2>3, OneRowWritten DEF IInv
    <2>. QED
      BY <2>2, <2>4, <2>5, SeatFreed
  <1>2. ASSUME NEW i \in Activations, Deactivate(r, i)
        PROVE  [Seats!Next]_(Seats!vars)
    <2>1. act[i].by \in Admins \cup {Null}
      BY DEF IInv, TypeOK, ActivationRow
    <2>. QED
      BY <1>1, <1>2, <2>1, TablesStutter DEF Deactivate, ReleaseNothing
  <1>3. ASSUME NEW i \in Activations, NEW adm \in Admins, ForceDeactivate(r, i, adm)
        PROVE  [Seats!Next]_(Seats!vars)
    BY <1>1, <1>3, TablesStutter DEF ForceDeactivate, ReleaseNothing
  <1>4. ASSUME NEW l \in Licenses, NEW k \in MonthChoices, ExtendSubscription(r, l, k)
        PROVE  [Seats!Next]_(Seats!vars)
    <2>1. UNCHANGED act /\ \A x \in Licenses : lc'[x].max = lc[x].max
      BY <1>4 DEF IInv, TypeOK, LicenseRow, ExtendSubscription
    <2>. QED
      BY <2>1, SeatsStutter DEF Holders
  <1>. QED
    BY <1>2, <1>3, <1>4, TablesStutter
    DEF Begin, ActivateLookup, ActivateUnregistered, PurchaseCheck,
        PurchaseNoProduct, ExtendMissing, DeleteStart, SetProductStatus, Reject

(* What a request goes on with: the commits of Activate, RecordPurchase    *)
(* and DeleteLicense are the seat operations, every other step a stutter.  *)
LEMMA AdvanceRefines ==
    ASSUME IInv, NEW r \in Requests, Advance(r)
    PROVE  [Seats!Next]_(Seats!vars)
  <1>. USE DEF tables
  <1>1. ASSUME pc[r] \in {"act_reuse", "act_write"}
        PROVE  job[r].lic \in Licenses /\ job[r].mach \in Machines
    BY <1>1, JobTypes DEF IInv, ActivatePcs, InsideActivate, ActivateJob
  <1>2. ASSUME ActivateReuse(r) PROVE [Seats!Next]_(Seats!vars)
    <2>. DEFINE l == job[r].lic
                m == job[r].mach
                row == RefreshedRow(act[<<l, m>>], job[r].exp)
    <2>1. l \in Licenses /\ m \in Machines /\ pc[r] = "act_reuse"
      BY <1>1, <1>2 DEF ActivateReuse
    <2>2. act[<<l, m>>].status = "ACTIVE"
      BY <2>1 DEF IInv, FoundRowInv, ReadsStayTrue, InsideActivate
    <2>3. act[<<l, m>>] \in ActivationRow
      BY <2>1 DEF IInv, TypeOK, Activations
    <2>4. row.status = "ACTIVE"
      BY <2>2, <2>3 DEF ActivationRow, RefreshedRow
    <2>5. m \in Holders(l)
      BY <2>1, <2>2 DEF Holders, HoldersIn
    <2>6. act' = [act EXCEPT ![<<l, m>>] = row] /\ UNCHANGED lc
      BY <1>2 DEF ActivateReuse
    <2>. HIDE DEF l, m, row
    <2>7. /\ HoldersIn(act', l) = Holders(l) \cup {m}
          /\ \A k \in Licenses \ {l} : HoldersIn(act', k) = Holders(k)
      BY <2>1, <2>4, <2>6, OneRowWritten DEF IInv
    <2>8. \A k \in Licenses : HoldersIn(act', k) = Holders(k)
      BY <2>5, <2>7
    <2>. QED
      BY <2>6, <2>8, SeatsStutter
  <1>3. ASSUME ActivateWrite(r) PROVE [Seats!Next]_(Seats!vars)
    <2>. DEFINE l == job[r].lic
                m == job[r].mach
                row == GrantedRow(act[<<l, m>>], job[r].exp)
    <2>1. l \in Licenses /\ m \in Machines /\ pc[r] = "act_write"
      BY <1>1, <1>3 DEF ActivateWrite
    <2>2. act[<<l, m>>].status # "ACTIVE" /\ Cardinality(Holders(l)) < lc[l].max
      BY <2>1 DEF IInv, FoundRowInv, ReadsStayTrue, SeatStaysFree, InsideActivate
    <2>3. /\ row.status = "ACTIVE" /\ m \notin Holders(l)
          /\ act' = [act EXCEPT ![<<l, m>>] = row] /\ UNCHANGED lc
      BY <1>3, <2>1, <2>2 DEF ActivateWrite, CommitSeat, GrantedRow, Holders, HoldersIn
    <2>. HIDE DEF l, m, row
    <2>4. /\ HoldersIn(act', l) = Holders(l) \cup {m}
          /\ \A k \in Licenses \ {l} : HoldersIn(act', k) = Holders(k)
      BY <2>1, <2>3, OneRowWritten DEF IInv
    <2>. QED
      BY <2>1, <2>2, <2>3, <2>4, SeatTaken
  <1>4. ASSUME pc[r] = "pur_commit" PROVE job[r].seats \in 1..MaxInt4
    BY <1>4, JobTypes, ConstantsAssumption DEF IInv, PurchaseJob
  <1>5. ASSUME PurchaseAddSeats(r) PROVE [Seats!Next]_(Seats!vars)
    <2>1. PICK l \in Licenses :
             /\ FitsInt4(lc[l].max + job[r].seats)
             /\ lc' = [lc EXCEPT ![l].max = @ + job[r].seats, ![l].purchases = @ + 1]
      BY <1>5 DEF PurchaseAddSeats
    <2>2. /\ lc'[l].max = lc[l].max + job[r].seats
          /\ \A k \in Licenses \ {l} : lc'[k].max = lc[k].max
      BY <2>1 DEF IInv, TypeOK, LicenseRow
    <2>3. UNCHANGED act /\ job[r].seats \in 1..MaxInt4
      BY <1>4, <1>5 DEF PurchaseAddSeats
    <2>. QED
      BY <2>1, <2>2, <2>3, SeatsAdded DEF FitsInt4
  <1>6. ASSUME PurchaseCreate(r) PROVE [Seats!Next]_(Seats!vars)
    <2>1. PICK l \in Licenses :
             /\ lc[l].state = "unborn"
             /\ lc' = [lc EXCEPT ![l] = NewLicense(job[r].seats, job[r].months)]
      BY <1>6 DEF PurchaseCreate, LicensesOf
    <2>2. lc[l].max = 0
      BY <2>1 DEF IInv, CapacityInv, Live
    <2>3. UNCHANGED act /\ job[r].seats \in 1..MaxInt4
      BY <1>4, <1>6 DEF PurchaseCreate
    <2>4. /\ lc'[l].max = job[r].seats
          /\ \A k \in Licenses \ {l} : lc'[k].max = lc[k].max
      BY <2>1 DEF IInv, TypeOK, NewLicense
    <2>5. lc[l].max + job[r].seats = job[r].seats /\ job[r].seats <= MaxInt4
      BY <2>2, <2>3, ConstantsAssumption
    <2>. QED
      BY <2>3, <2>4, <2>5, SeatsAdded
  <1>7. ASSUME DeleteCommit(r) PROVE [Seats!Next]_(Seats!vars)
    <2>. DEFINE l == job[r].lic
    <2>1. /\ pc[r] = "del_parent"
          /\ \A m \in Machines \ job[r].gone : ~HasRow(<<l, m>>)
          /\ lc' = [lc EXCEPT ![l] = NoLicense("deleted")]
          /\ act' = [i \in Activations |->
                        IF i[1] = l /\ i[2] \in job[r].gone THEN NoActivation ELSE act[i]]
      BY <1>7 DEF DeleteCommit, ReferencedByChildren
    <2>2. l \in Licenses
      BY <2>1, JobTypes DEF IInv, DeleteJob, DeletePcs
    <2>. HIDE DEF l
    <2>3. lc'[l].max = 0 /\ \A k \in Licenses \ {l} : lc'[k].max = lc[k].max
      BY <2>1, <2>2 DEF IInv, TypeOK, NoLicense
    <2>4. \A k \in Licenses, m \in Machines :
             /\ k # l => act'[<<k, m>>] = act[<<k, m>>]
             /\ k = l => act'[<<k, m>>].status = "NONE"
      BY <2>1, <2>2 DEF Activations, HasRow, NoActivation
    <2>5. /\ HoldersIn(act', l) = {}
          /\ \A k \in Licenses \ {l} : HoldersIn(act', k) = Holders(k)
      BY <2>2, <2>4 DEF HoldersIn, Holders
    <2>. QED
      BY <2>2, <2>3, <2>5, SeatsClosed
  <1>. QED
    BY <1>2, <1>3, <1>5, <1>6, <1>7, TablesStutter
    DEF Advance, ActivateLock, ActivateGone, ActivateFindRow, ActivateCount,
        ActivateRefuse, ActivateSign, PurchaseOverflow, DeleteScan, DeleteRow,
        DeletePurchases, DeleteRefused

(* Activate, Deactivate, ForceDeactivate, RecordPurchase, ExtendSubscription *)
(* and DeleteLicense, with their transactions, locks and failures, do to    *)
(* the seats of a license only what SeatQuota allows.                       *)
THEOREM ImplementsSeatQuota == Spec => SeatsRefined
  <1>1. Init => Seats!Init
    BY DEF Init, Seats!Init, NoLicense, NoActivation, Holders, HoldersIn, Activations
  <1>2. IInv /\ [Next]_vars => [Seats!Next]_(Seats!vars)
    <2>. SUFFICES ASSUME IInv, [Next]_vars PROVE [Seats!Next]_(Seats!vars)
      OBVIOUS
    <2>1. ASSUME NEW r \in Requests, Fail(r) \/ Respond(r)
          PROVE  [Seats!Next]_(Seats!vars)
      BY <2>1, TablesStutter DEF Fail, Respond, tables
    <2>2. CASE Tick \/ UNCHANGED vars
      BY <2>2, TablesStutter DEF Tick, vars, tables
    <2>. QED
      BY <2>1, <2>2, BeginRefines, AdvanceRefines DEF Next
  <1>. QED
    BY <1>1, <1>2, Invariance, PTL DEF Spec, SeatsRefined, Seats!Spec

-----------------------------------------------------------------------------
(* LicenseActivation implements AtomicLicenses.  Locking, reading, counting *)
(* and sweeping are stutters; each transaction takes effect at its commit,  *)
(* when by IInv what it read is still so.                                   *)

(* A machine without a row has nothing left of an earlier one.             *)
NoRowIsEmpty == \A i \in Activations : ~HasRow(i) => act[i] = NoActivation

LEMMA RowsStayEmpty == IInv /\ NoRowIsEmpty /\ [Next]_vars => NoRowIsEmpty'
  <1>. SUFFICES ASSUME IInv, NoRowIsEmpty, [Next]_vars PROVE NoRowIsEmpty'
    OBVIOUS
  <1>. USE DEF tables
  <1>1. CASE UNCHANGED act
    BY <1>1 DEF NoRowIsEmpty, HasRow
  <1>2. ASSUME NEW i \in Activations, NEW row, row.status # "NONE",
               act' = [act EXCEPT ![i] = row]
        PROVE  NoRowIsEmpty'
    BY <1>2 DEF NoRowIsEmpty, HasRow, IInv, TypeOK
  <1>3. ASSUME NEW r \in Requests, ActivateReuse(r) \/ ActivateWrite(r)
        PROVE  NoRowIsEmpty'
    <2>. DEFINE i == <<job[r].lic, job[r].mach>>
    <2>1. i \in Activations
      BY <1>3, JobTypes
      DEF IInv, ActivateReuse, ActivateWrite, ActivatePcs, InsideActivate,
          ActivateJob, Activations
    <2>2. act[i] \in ActivationRow
      BY <2>1 DEF IInv, TypeOK
    <2>3. CASE ActivateReuse(r)
      <3>1. act[i].status = "ACTIVE"
        BY <2>3 DEF IInv, FoundRowInv, ReadsStayTrue, InsideActivate, ActivateReuse
      <3>2. RefreshedRow(act[i], job[r].exp).status # "NONE"
        BY <2>2, <3>1 DEF RefreshedRow, ActivationRow
      <3>3. act' = [act EXCEPT ![i] = RefreshedRow(act[i], job[r].exp)]
        BY <2>3 DEF ActivateReuse
      <3>. QED
        BY <1>2, <2>1, <3>2, <3>3
    <2>4. CASE ActivateWrite(r)
      <3>1. act' = [act EXCEPT ![i] = GrantedRow(act[i], job[r].exp)]
        BY <2>4 DEF ActivateWrite, CommitSeat
      <3>2. GrantedRow(act[i], job[r].exp).status # "NONE"
        BY DEF GrantedRow
      <3>. QED
        BY <1>2, <2>1, <3>1, <3>2
    <2>. QED
      BY <1>3, <2>3, <2>4
  <1>4. ASSUME NEW r \in Requests, NEW i \in Activations, NEW by, ReleaseSeat(r, i, by)
        PROVE  NoRowIsEmpty'
    <2>. DEFINE row == [act[i] EXCEPT !.status = "DEACTIVATED", !.by = by]
    <2>1. act' = [act EXCEPT ![i] = row]
      BY <1>4 DEF IInv, TypeOK, ReleaseSeat
    <2>2. row.status # "NONE"
      BY DEF IInv, TypeOK, ActivationRow
    <2>. HIDE DEF row
    <2>. QED
      BY <1>2, <2>1, <2>2
  <1>5. ASSUME NEW r \in Requests, DeleteCommit(r) PROVE NoRowIsEmpty'
    BY <1>5 DEF NoRowIsEmpty, HasRow, DeleteCommit
  <1>6. ASSUME NEW r \in Requests, Begin(r) PROVE NoRowIsEmpty'
    BY <1>1, <1>4, <1>6
    DEF Begin, ActivateLookup, ActivateUnregistered, PurchaseCheck, PurchaseNoProduct,
        Deactivate, ForceDeactivate, ReleaseNothing, ExtendSubscription,
        ExtendMissing, DeleteStart, SetProductStatus, Reject
  <1>7. ASSUME NEW r \in Requests, Advance(r) PROVE NoRowIsEmpty'
    BY <1>1, <1>3, <1>5, <1>7
    DEF Advance, ActivateLock, ActivateGone, ActivateFindRow, ActivateCount,
        ActivateRefuse, ActivateSign, PurchaseAddSeats, PurchaseOverflow,
        PurchaseCreate, DeleteScan, DeleteRow, DeletePurchases, DeleteRefused
  <1>8. ASSUME NEW r \in Requests, Fail(r) \/ Respond(r) PROVE NoRowIsEmpty'
    BY <1>1, <1>8 DEF Fail, Respond
  <1>9. CASE Tick \/ UNCHANGED vars
    BY <1>1, <1>9 DEF Tick, vars
  <1>. QED
    BY <1>6, <1>7, <1>8, <1>9 DEF Next

LEMMA RowsAreEmpty == Spec => []NoRowIsEmpty
  <1>1. Init => NoRowIsEmpty
    BY DEF Init, NoRowIsEmpty
  <1>. QED
    BY <1>1, RowsStayEmpty, Invariance, PTL DEF Spec

(* The stage of a request at each of its steps.                            *)
LEMMA StageAt ==
    /\ \A j : StageOf("idle", j) = Atomic!Idle
    /\ \A p \in {"act_lock", "act_row"} : \A j :
          StageOf(p, j) = Atomic!Found(j.lic, j.mach, j.due)
    /\ \A p \in {"act_reuse", "act_count", "act_write"} : \A j :
          StageOf(p, j) = Atomic!Dated(j.lic, j.mach, j.exp)
    /\ \A j : StageOf("act_sign", j) = Atomic!Seated(j.lic, j.mach)
    /\ \A j : StageOf("pur_commit", j) = Atomic!Ordered(j.acc, j.seats, j.months)
    /\ \A p \in DeletePcs : \A j : StageOf(p, j) = Atomic!Closing(j.lic)
    /\ \A j : StageOf("answer", j) = Atomic!Told(j.code)
  BY DEF StageOf, DeletePcs, Atomic!Idle, Atomic!Found, Atomic!Dated, Atomic!Seated,
         Atomic!Ordered, Atomic!Closing, Atomic!Told

(* What AtomicLicenses reads of the tables is what is in them.             *)
LEMMA SameTables ==
    /\ \A l \in Licenses : Atomic!Live(l) <=> Live(l)
    /\ \A l \in Licenses : Atomic!Holders(l) = Holders(l)
    /\ \A a \in Accounts, l \in Licenses : Atomic!Registered(a, l) <=> Registered(a, l)
    /\ \A l \in Licenses : Parents[l].state = lc[l].state
    /\ \A l \in Licenses : Parents[l].max = lc[l].max
    /\ \A l \in Licenses : Parents[l].due = lc[l].due
    /\ \A S : Atomic!Cardinality(S) = Cardinality(S)
  BY DEF Atomic!Live, Live, Atomic!Holders, Holders, HoldersIn, Atomic!Registered,
         Registered, LicensesOf, Parents, LicenseOf, Atomic!Cardinality, Cardinality,
         Atomic!IsFiniteSet, IsFiniteSet

(* A step of one request moves its stage and no other.                     *)
LEMMA StageMoves ==
    ASSUME TypeOK, NEW r \in Requests, NEW p, NEW j, Start(r, p, j)
    PROVE  Stages' = [Stages EXCEPT ![r] = StageOf(p, j)]
  BY DEF TypeOK, Stages, Start

LEMMA StageStays ==
    ASSUME TypeOK, NEW r \in Requests, NEW p, NEW j, Start(r, p, j),
           StageOf(p, j) = Stages[r], UNCHANGED <<tables, issued, now>>
    PROVE  UNCHANGED Atomic!vars
  <1>1. Stages' = Stages
    <2>1. Stages' = [Stages EXCEPT ![r] = Stages[r]]
      BY StageMoves
    <2>. QED
      BY <2>1 DEF Stages
  <1>2. Parents' = Parents
    BY DEF Parents, tables
  <1>. QED
    BY <1>1, <1>2 DEF tables, Atomic!vars

LEMMA StageOnly ==
    ASSUME TypeOK, NEW r \in Requests, NEW p, NEW j, Start(r, p, j),
           UNCHANGED <<tables, issued, now>>
    PROVE  Atomic!Only(r, Stages[r].at, StageOf(p, j))
  BY StageMoves DEF Parents, tables, Atomic!tables, Atomic!Only, Atomic!Goes

LEMMA StageGoes ==
    ASSUME TypeOK, NEW r \in Requests, NEW p, NEW j, Start(r, p, j)
    PROVE  Atomic!Goes(r, Stages[r].at, StageOf(p, j))
  BY StageMoves DEF Atomic!Goes

LEMMA ToldAt ==
    ASSUME NEW code
    PROVE  StageOf("answer", [code |-> code]) = Atomic!Told(code)
  BY StageAt

LEMMA AnswerOnly ==
    ASSUME TypeOK, NEW r \in Requests, NEW code, Answer(r, code),
           UNCHANGED <<tables, issued, now>>
    PROVE  Atomic!Only(r, Stages[r].at, Atomic!Told(code))
  BY StageOnly, ToldAt DEF Answer

LEMMA AnswerGoes ==
    ASSUME TypeOK, NEW r \in Requests, NEW code, Answer(r, code)
    PROVE  Atomic!Goes(r, Stages[r].at, Atomic!Told(code))
  BY StageGoes, ToldAt DEF Answer

LEMMA CommitDone ==
    ASSUME TypeOK, NEW r \in Requests, AnswerCommitted(r)
    PROVE  Atomic!Done(r, Stages[r].at)
  BY AnswerGoes DEF AnswerCommitted, Atomic!Done

LEMMA IdleAt ==
    ASSUME NEW r \in Requests, pc[r] = "idle"
    PROVE  Stages[r].at = "idle"
  BY StageAt DEF Stages, Atomic!Idle

(* A license row is written.                                               *)
LEMMA ParentWritten ==
    ASSUME TypeOK, NEW l \in Licenses, NEW row, lc' = [lc EXCEPT ![l] = row]
    PROVE  Parents' = [Parents EXCEPT ![l] = LicenseOf(row)]
  BY DEF TypeOK, Parents

LEMMA ParentsStay == UNCHANGED lc => UNCHANGED Parents
  BY DEF Parents

(* What a request begins.                                                  *)
LEMMA BeginActsAtomically ==
    ASSUME IInv, NEW r \in Requests, Begin(r)
    PROVE  Atomic!Begin(r)
  <1>. TypeOK
    BY DEF IInv
  <1>1. ASSUME NEW a \in Accounts, NEW m \in Machines, ActivateLookup(r, a, m)
        PROVE  Atomic!LookUp(r, a, m)
    <2>1. PICK l \in Licenses :
             /\ Registered(a, l)
             /\ Start(r, "act_lock", [lic |-> l, mach |-> m, due |-> lc[l].due,
                                      max |-> 0, found |-> "NONE", exp |-> 0])
      BY <1>1 DEF ActivateLookup
    <2>2. pc[r] = "idle" /\ productActive[ProductOf(a)] /\ UNCHANGED <<tables, issued, now>>
      BY <1>1 DEF ActivateLookup
    <2>3. Atomic!Only(r, "idle", Atomic!Found(l, m, lc[l].due))
      BY <2>1, <2>2, StageOnly, StageAt, IdleAt
    <2>. QED
      BY <2>1, <2>2, <2>3, SameTables DEF Atomic!LookUp
  <1>2. ASSUME NEW a \in Accounts, ActivateUnregistered(r, a)
        PROVE  Atomic!NotRegistered(r, a)
    BY <1>2, AnswerOnly, IdleAt, SameTables DEF ActivateUnregistered, Atomic!NotRegistered
  <1>3. ASSUME NEW a \in Accounts, NEW n \in SeatChoices, NEW k \in MonthChoices,
               PurchaseCheck(r, a, n, k)
        PROVE  Atomic!Order(r, a, n, k)
    <2>1. StageOf("pur_commit", [acc |-> a, seats |-> n, months |-> k])
             = Atomic!Ordered(a, n, k)
      BY StageAt
    <2>. QED
      BY <1>3, <2>1, StageOnly, IdleAt DEF PurchaseCheck, Atomic!Order
  <1>4. ASSUME NEW a \in Accounts, PurchaseNoProduct(r, a)
        PROVE  Atomic!NotSold(r, a)
    BY <1>4, AnswerOnly, IdleAt DEF PurchaseNoProduct, Atomic!NotSold
  <1>5. ASSUME NEW i \in Activations, NEW by, ReleaseSeat(r, i, by)
        PROVE  Atomic!FreeSeat(r, i, by)
    BY <1>5, CommitDone, IdleAt, ParentsStay DEF ReleaseSeat, Atomic!FreeSeat
  <1>6. ASSUME NEW i \in Activations, ReleaseNothing(r, i)
        PROVE  Atomic!NothingToFree(r, i)
    BY <1>6, AnswerOnly, IdleAt DEF ReleaseNothing, Atomic!NothingToFree
  <1>7. ASSUME NEW i \in Activations, Deactivate(r, i)
        PROVE  i \in Atomic!Seats /\ Atomic!Deactivate(r, i)
    <2>1. act[i].status = "ACTIVE" => act[i].by = Null
      BY DEF IInv, ActiveRowHasNoReleaser
    <2>2. ReleaseSeat(r, i, act[i].by) => ReleaseSeat(r, i, Null)
      BY <2>1 DEF ReleaseSeat
    <2>. QED
      BY <1>5, <1>6, <1>7, <2>2
      DEF Deactivate, Atomic!Deactivate, Activations, Atomic!Seats
  <1>8. ASSUME NEW i \in Activations, NEW adm \in Admins, ForceDeactivate(r, i, adm)
        PROVE  i \in Atomic!Seats /\ Atomic!ForceDeactivate(r, i, adm)
    BY <1>5, <1>6, <1>8
    DEF ForceDeactivate, Atomic!ForceDeactivate, Activations, Atomic!Seats
  <1>9. ASSUME NEW l \in Licenses, NEW k \in MonthChoices, ExtendSubscription(r, l, k)
        PROVE  k # 0 /\ Atomic!Extend(r, l, k)
    <2>. DEFINE due == ExtensionBase(lc[l].due) + k * Month
                row == [lc[l] EXCEPT !.due = due, !.extensions = lc[l].extensions + 1]
    <2>1. /\ pc[r] = "idle" /\ k > 0 /\ Live(l) /\ AnswerCommitted(r)
          /\ lc' = [lc EXCEPT ![l] = row]
          /\ UNCHANGED <<productActive, act, issued, now>>
      BY <1>9 DEF ExtendSubscription, TypeOK
    <2>2. lc[l] \in LicenseRow
      BY DEF TypeOK
    <2>3. LicenseOf(row) = [Parents[l] EXCEPT !.due = due]
      <3>. HIDE DEF due
      <3>. QED
        BY <2>2 DEF LicenseOf, LicenseRow, Parents
    <2>4. Parents' = [Parents EXCEPT ![l] = [Parents[l] EXCEPT !.due = due]]
      BY <2>1, <2>3, ParentWritten
    <2>5. due = Atomic!ExtensionBase(Parents[l].due) + k * Month
      BY SameTables DEF ExtensionBase, Atomic!ExtensionBase
    <2>. HIDE DEF due, row
    <2>6. Atomic!Done(r, "idle")
      BY <2>1, CommitDone, IdleAt
    <2>. QED
      BY <2>1, <2>4, <2>5, <2>6, SameTables DEF Atomic!Extend
  <1>10. ASSUME NEW l \in Licenses, ExtendMissing(r, l)
         PROVE  Atomic!NothingToExtend(r, l)
    BY <1>10, AnswerOnly, IdleAt, SameTables
    DEF ExtendMissing, Live, Atomic!NothingToExtend
  <1>11. ASSUME NEW l \in Licenses, DeleteStart(r, l)
         PROVE  Atomic!BeginClose(r, l)
    <2>. DEFINE j == [lic |-> l, todo |-> {}, gone |-> {},
                      purchases |-> 0, extensions |-> lc[l].extensions]
    <2>1. StageOf("del_begun", j) = Atomic!Closing(l)
      BY StageAt DEF DeletePcs
    <2>2. /\ pc[r] = "idle" /\ lc[l].state # "unborn" /\ Start(r, "del_begun", j)
          /\ UNCHANGED <<tables, issued, now>>
      BY <1>11 DEF DeleteStart
    <2>. HIDE DEF j
    <2>. QED
      BY <2>1, <2>2, StageOnly, IdleAt, SameTables DEF Atomic!BeginClose
  <1>12. ASSUME NEW p \in Products, NEW aktif \in BOOLEAN, SetProductStatus(r, p, aktif)
         PROVE  Atomic!SetProductStatus(r, p, aktif)
    BY <1>12, CommitDone, IdleAt, ParentsStay
    DEF SetProductStatus, Atomic!SetProductStatus
  <1>13. ASSUME NEW code, Reject(r, code)
         PROVE  Atomic!Reject(r, code)
    BY <1>13, AnswerOnly, IdleAt DEF Reject, Atomic!Reject
  <1>. QED
    BY <1>1, <1>2, <1>3, <1>4, <1>7, <1>8, <1>9, <1>10, <1>11, <1>12, <1>13
    DEF Begin, Atomic!Begin

(* The commits and the refusal of Activate are atomic: by ReadsStayTrue,   *)
(* SeatStaysFree and the license's lock the quota and the seats of the     *)
(* step are those that were read.                                          *)
LEMMA ActivateActsAtomically ==
    ASSUME IInv, NEW r \in Requests,
           ActivateFindRow(r) \/ ActivateReuse(r) \/ ActivateRefuse(r)
               \/ ActivateWrite(r) \/ ActivateSign(r)
    PROVE  Atomic!Advance(r)
  <1>. TypeOK
    BY DEF IInv
  <1>. DEFINE l == job[r].lic
              m == job[r].mach
  <1>1. ASSUME ActivateFindRow(r) PROVE Atomic!Date(r)
    <2>1. /\ pc[r] = "act_row" /\ job[r] \in ActivateJob
          /\ UNCHANGED <<tables, issued, now>>
      BY <1>1, JobTypes DEF ActivateFindRow, ActivatePcs, InsideActivate
    <2>2. PICK p \in {"act_reuse", "act_count"}, found \in RowStatus :
             Start(r, p, [job[r] EXCEPT !.found = found, !.exp = ExpiryOf(job[r].due)])
      <3>1. act[<<l, m>>].status \in RowStatus
        BY <2>1 DEF TypeOK, Activations, ActivationRow, ActivateJob
      <3>. QED
        BY <1>1, <3>1 DEF ActivateFindRow
    <2>. DEFINE j == [job[r] EXCEPT !.found = found, !.exp = ExpiryOf(job[r].due)]
    <2>3. j.lic = l /\ j.mach = m /\ j.exp = ExpiryOf(job[r].due)
      <3>. HIDE DEF l, m
      <3>. QED
        BY <2>1 DEF ActivateJob, l, m
    <2>4. Stages[r] = Atomic!Found(l, m, job[r].due)
      BY <2>1, StageAt DEF Stages
    <2>5. StageOf(p, j) = Atomic!Dated(l, m, ExpiryOf(job[r].due))
      BY <2>3, StageAt
    <2>6. Atomic!Only(r, Stages[r].at, StageOf(p, j))
      BY <2>1, <2>2, StageOnly
    <2>. QED
      BY <2>4, <2>5, <2>6
      DEF Atomic!Date, Atomic!Found, ExpiryOf, Atomic!Expiry
  <1>2. ASSUME pc[r] \in {"act_reuse", "act_count", "act_write"}
        PROVE  /\ Stages[r] = Atomic!Dated(l, m, job[r].exp)
               /\ l \in Licenses /\ m \in Machines
               /\ Live(l) /\ job[r].max = lc[l].max
               /\ act[<<l, m>>].status = job[r].found
    BY <1>2, StageAt, JobTypes
    DEF IInv, Stages, ReadsStayTrue, ActivatePcs, InsideActivate, ActivateJob
  <1>3. ASSUME pc[r] \in {"act_reuse", "act_write"}, NEW row,
               row = [status |-> "ACTIVE", exp |-> job[r].exp, by |-> Null],
               act' = [act EXCEPT ![<<l, m>>] = row],
               Atomic!MayHaveSeat(l, m),
               Start(r, "act_sign", [lic |-> l, mach |-> m]),
               UNCHANGED <<productActive, lc, issued, now>>
        PROVE  Atomic!TakeSeat(r)
    <2>1. Atomic!Goes(r, "dated", Atomic!Seated(l, m))
      BY <1>2, <1>3, StageGoes, StageAt DEF Atomic!Dated
    <2>2. /\ Stages[r].lic = l /\ Stages[r].mach = m /\ Stages[r].exp = job[r].exp
          /\ l \in Licenses /\ Live(l)
      BY <1>2, <1>3 DEF Atomic!Dated
    <2>. HIDE DEF l, m
    <2>. QED
      BY <1>3, <2>1, <2>2, SameTables, ParentsStay DEF Atomic!TakeSeat
  <1>4. ASSUME ActivateReuse(r) PROVE Atomic!TakeSeat(r)
    <2>1. pc[r] = "act_reuse" /\ job[r].found = "ACTIVE"
      BY <1>4 DEF ActivateReuse, IInv, FoundRowInv, InsideActivate
    <2>2. /\ act[<<l, m>>] \in ActivationRow
          /\ act[<<l, m>>].status = "ACTIVE" /\ act[<<l, m>>].by = Null
      BY <1>2, <2>1 DEF IInv, TypeOK, ActiveRowHasNoReleaser, Activations
    <2>3. RefreshedRow(act[<<l, m>>], job[r].exp)
             = [status |-> "ACTIVE", exp |-> job[r].exp, by |-> Null]
      <3>. HIDE DEF l, m
      <3>. QED
        BY <2>2 DEF RefreshedRow, ActivationRow
    <2>4. Atomic!MayHaveSeat(l, m)
      BY <1>2, <2>1, <2>2, SameTables DEF Atomic!MayHaveSeat, Holders, HoldersIn
    <2>. QED
      BY <1>3, <1>4, <2>1, <2>3, <2>4 DEF ActivateReuse
  <1>5. ASSUME ActivateWrite(r) PROVE Atomic!TakeSeat(r)
    <2>1. /\ pc[r] = "act_write"
          /\ Cardinality(Holders(l)) < lc[l].max
      BY <1>5 DEF ActivateWrite, IInv, SeatStaysFree
    <2>2. Atomic!MayHaveSeat(l, m)
      BY <1>2, <2>1, SameTables DEF Atomic!MayHaveSeat
    <2>. QED
      BY <1>3, <1>5, <2>1, <2>2 DEF ActivateWrite, CommitSeat, GrantedRow
  <1>6. ASSUME ActivateRefuse(r) PROVE Atomic!Refuse(r)
    <2>1. /\ pc[r] = "act_count" /\ job[r].found # "ACTIVE"
          /\ ~(Cardinality(Holders(l)) < job[r].max)
      BY <1>6 DEF ActivateRefuse, HasFreeSeat, IInv, FoundRowInv, InsideActivate
    <2>2. ~Atomic!MayHaveSeat(l, m)
      <3>1. /\ l \in Licenses /\ m \notin Holders(l)
            /\ ~(Cardinality(Holders(l)) < lc[l].max)
        BY <1>2, <2>1 DEF Holders, HoldersIn
      <3>. HIDE DEF l, m
      <3>. QED
        BY <3>1, SameTables DEF Atomic!MayHaveSeat
    <2>3. Atomic!Only(r, "dated", Atomic!Told("QUOTA_EXCEEDED"))
      BY <1>2, <1>6, <2>1, AnswerOnly DEF ActivateRefuse, Atomic!Dated
    <2>. QED
      BY <1>2, <2>1, <2>2, <2>3, SameTables DEF Atomic!Refuse, Atomic!Dated
  <1>7. ASSUME ActivateSign(r) PROVE Atomic!Sign(r)
    <2>1. Stages[r] = Atomic!Seated(l, m)
      BY <1>7, StageAt DEF ActivateSign, Stages
    <2>2. Atomic!Goes(r, "seated", Atomic!Told("OK"))
      BY <1>7, <2>1, AnswerGoes DEF ActivateSign, Atomic!Seated
    <2>. QED
      BY <1>7, <2>1, <2>2, ParentsStay
      DEF ActivateSign, tables, Atomic!tables, Atomic!Sign, Atomic!Seated
  <1>. QED
    BY <1>1, <1>4, <1>5, <1>6, <1>7 DEF Atomic!Advance

(* So are RecordPurchase and DeleteLicense: the foreign keys see to it     *)
(* that a deletion takes every activation or none.                         *)
LEMMA PurchaseActsAtomically ==
    ASSUME IInv, NEW r \in Requests, PurchaseAddSeats(r) \/ PurchaseCreate(r)
    PROVE  Atomic!Advance(r)
  <1>. TypeOK
    BY DEF IInv
  <1>1. /\ pc[r] = "pur_commit" /\ job[r] \in PurchaseJob
        /\ AnswerCommitted(r) /\ UNCHANGED <<productActive, act, issued, now>>
    BY JobTypes DEF PurchaseAddSeats, PurchaseCreate
  <1>2. Stages[r] = Atomic!Ordered(job[r].acc, job[r].seats, job[r].months)
    BY <1>1, StageAt DEF Stages
  <1>3. /\ Stages[r].at = "ordered" /\ Stages[r].acc = job[r].acc
        /\ Stages[r].seats = job[r].seats /\ Stages[r].months = job[r].months
    BY <1>2 DEF Atomic!Ordered
  <1>4. Atomic!Done(r, "ordered")
    BY <1>1, <1>3, CommitDone
  <1>5. job[r].acc \in Accounts
    BY <1>1 DEF PurchaseJob
  <1>6. ASSUME PurchaseAddSeats(r) PROVE Atomic!AddSeats(r)
    <2>1. PICK l \in Licenses :
             /\ Registered(job[r].acc, l)
             /\ FitsInt4(lc[l].max + job[r].seats)
             /\ lc' = [lc EXCEPT ![l].max = @ + job[r].seats, ![l].purchases = @ + 1]
      BY <1>6 DEF PurchaseAddSeats
    <2>. DEFINE max == lc[l].max + job[r].seats
                row == [lc[l] EXCEPT !.max = max, !.purchases = lc[l].purchases + 1]
    <2>2. lc' = [lc EXCEPT ![l] = row] /\ lc[l] \in LicenseRow
      BY <2>1 DEF TypeOK
    <2>3. LicenseOf(row) = [Parents[l] EXCEPT !.max = max]
      <3>. HIDE DEF max
      <3>. QED
        BY <2>2 DEF LicenseOf, LicenseRow, Parents
    <2>4. Parents' = [Parents EXCEPT ![l] = [Parents[l] EXCEPT !.max = max]]
      BY <2>2, <2>3, ParentWritten
    <2>. QED
      BY <1>1, <1>3, <1>4, <1>5, <2>1, <2>4, SameTables DEF FitsInt4, Atomic!AddSeats
  <1>7. ASSUME PurchaseCreate(r) PROVE Atomic!Open(r)
    <2>1. PICK l \in Licenses :
             /\ AccountOf(l) = job[r].acc
             /\ lc[l].state = "unborn"
             /\ lc' = [lc EXCEPT ![l] = NewLicense(job[r].seats, job[r].months)]
      BY <1>7 DEF PurchaseCreate, LicensesOf
    <2>. DEFINE row == NewLicense(job[r].seats, job[r].months)
    <2>2. LicenseOf(row) = [state |-> "live", max |-> job[r].seats,
                            due |-> IF job[r].months = 0 THEN Null
                                    ELSE now + job[r].months * Month]
      BY DEF LicenseOf, NewLicense
    <2>3. Parents' = [Parents EXCEPT ![l] = LicenseOf(row)]
      BY <2>1, ParentWritten
    <2>4. \A k \in Licenses : ~Registered(job[r].acc, k)
      BY <1>7 DEF PurchaseCreate
    <2>. HIDE DEF row
    <2>. QED
      BY <1>1, <1>3, <1>4, <1>5, <2>1, <2>2, <2>3, <2>4, SameTables DEF Atomic!Open
  <1>. QED
    BY <1>6, <1>7 DEF Atomic!Advance

LEMMA DeleteActsAtomically ==
    ASSUME IInv, NoRowIsEmpty, NEW r \in Requests, DeleteCommit(r) \/ DeleteRefused(r)
    PROVE  Atomic!Advance(r)
  <1>. TypeOK
    BY DEF IInv
  <1>. DEFINE l == job[r].lic
  <1>1. pc[r] = "del_parent" /\ l \in Licenses
    BY JobTypes DEF DeleteCommit, DeleteRefused, DeletePcs, DeleteJob
  <1>2. Stages[r] = Atomic!Closing(l)
    BY <1>1, StageAt DEF Stages, DeletePcs
  <1>3. Stages[r].at = "closing" /\ Stages[r].lic = l
    BY <1>2 DEF Atomic!Closing
  <1>4. ASSUME DeleteCommit(r) PROVE Atomic!Close(r)
    <2>1. /\ Live(l) /\ AnswerCommitted(r) /\ UNCHANGED <<productActive, issued, now>>
          /\ lc' = [lc EXCEPT ![l] = NoLicense("deleted")]
          /\ act' = [i \in Activations |->
                        IF i[1] = l /\ i[2] \in job[r].gone THEN NoActivation ELSE act[i]]
          /\ \A m \in Machines \ job[r].gone : ~HasRow(<<l, m>>)
      BY <1>4 DEF DeleteCommit, ReferencedByChildren
    <2>2. \A i \in Activations :
             i[1] = l /\ i[2] \notin job[r].gone => act[i] = NoActivation
      BY <2>1 DEF NoRowIsEmpty, Activations
    <2>3. act' = [i \in Atomic!Seats |-> IF i[1] = l THEN Atomic!NoSeat ELSE act[i]]
      <3>. HIDE DEF l
      <3>. QED
        BY <2>1, <2>2 DEF Activations, Atomic!Seats, NoActivation, Atomic!NoSeat
    <2>4. Parents' = [Parents EXCEPT ![l] = Atomic!NoLicense("deleted")]
      <3>1. LicenseOf(NoLicense("deleted")) = Atomic!NoLicense("deleted")
        BY DEF LicenseOf, NoLicense, Atomic!NoLicense
      <3>. QED
        BY <1>1, <2>1, <3>1, ParentWritten
    <2>5. Atomic!Done(r, "closing")
      BY <1>3, <2>1, CommitDone
    <2>. QED
      BY <1>1, <1>3, <2>1, <2>3, <2>4, <2>5, SameTables DEF Atomic!Close
  <1>5. ASSUME DeleteRefused(r) PROVE Atomic!NothingToClose(r) \/ Atomic!Fail(r)
    <2>1. CASE ~Live(l) /\ Answer(r, "NOT_FOUND")
      BY <1>1, <1>3, <1>5, <2>1, AnswerOnly, SameTables
      DEF DeleteRefused, Atomic!NothingToClose
    <2>2. CASE Answer(r, "INTERNAL")
      BY <1>3, <1>5, <2>2, AnswerOnly DEF DeleteRefused, Atomic!Fail
    <2>. QED
      BY <1>5, <2>1, <2>2 DEF DeleteRefused
  <1>. QED
    BY <1>4, <1>5 DEF Atomic!Advance

(* A failure, an answer, a step that locks, reads or counts.               *)
LEMMA FailsAtomically ==
    ASSUME TypeOK, NEW r \in Requests, pc[r] # "answer", Answer(r, "INTERNAL"),
           UNCHANGED <<tables, issued, now>>
    PROVE  Atomic!Fail(r)
  <1>1. pc[r] \in {"idle", "act_lock", "act_row", "act_reuse", "act_count", "act_write",
                   "act_sign", "pur_commit"} \cup DeletePcs
    BY JobTypes DEF Pcs, ActivatePcs, InsideActivate
  <1>2. Stages[r].at \in {"idle", "found", "dated", "seated", "ordered", "closing"}
    BY <1>1 DEF Stages, StageOf, DeletePcs
  <1>. QED
    BY <1>2, AnswerOnly DEF Atomic!Fail

LEMMA LocksAreUnseen ==
    ASSUME IInv, NEW r \in Requests,
           ActivateLock(r) \/ ActivateCount(r) \/ DeleteScan(r) \/ DeleteRow(r)
               \/ DeletePurchases(r)
    PROVE  UNCHANGED Atomic!vars
  <1>. TypeOK
    BY DEF IInv
  <1>1. CASE ActivateLock(r)
    <2>. DEFINE j == [job[r] EXCEPT !.max = lc[job[r].lic].max]
    <2>1. pc[r] = "act_lock" /\ job[r] \in ActivateJob
      BY <1>1, JobTypes DEF ActivateLock, ActivatePcs
    <2>2. j.lic = job[r].lic /\ j.mach = job[r].mach /\ j.due = job[r].due
      BY <2>1 DEF ActivateJob
    <2>3. Start(r, "act_row", j) /\ UNCHANGED <<tables, issued, now>>
      BY <1>1 DEF ActivateLock
    <2>. HIDE DEF j
    <2>4. StageOf("act_row", j) = Stages[r]
      BY <2>1, <2>2, StageAt DEF Stages
    <2>. QED
      BY <2>3, <2>4, StageStays
  <1>2. CASE ActivateCount(r)
    <2>1. StageOf("act_write", job[r]) = Stages[r]
      BY <1>2, StageAt DEF ActivateCount, Stages
    <2>. QED
      BY <1>2, <2>1, StageStays DEF ActivateCount
  <1>3. ASSUME pc[r] \in DeletePcs, NEW p \in DeletePcs, NEW j, j.lic = job[r].lic,
               Start(r, p, j), UNCHANGED <<tables, issued, now>>
        PROVE  UNCHANGED Atomic!vars
    <2>1. StageOf(p, j) = Stages[r]
      BY <1>3, StageAt DEF Stages
    <2>. QED
      BY <1>3, <2>1, StageStays
  <1>4. pc[r] \in DeletePcs => job[r] \in DeleteJob
    BY JobTypes
  <1>5. CASE DeleteScan(r)
    <2>. DEFINE j == [job[r] EXCEPT
                          !.todo = {m \in Machines : HasRow(<<job[r].lic, m>>)}]
    <2>1. pc[r] \in DeletePcs /\ "del_rows" \in DeletePcs /\ j.lic = job[r].lic
      BY <1>4, <1>5 DEF DeleteScan, DeletePcs, DeleteJob
    <2>2. Start(r, "del_rows", j) /\ UNCHANGED <<tables, issued, now>>
      BY <1>5 DEF DeleteScan
    <2>. HIDE DEF j
    <2>. QED
      BY <1>3, <2>1, <2>2
  <1>6. CASE DeleteRow(r)
    <2>1. PICK m \in job[r].todo :
             /\ pc[r] = "del_rows" /\ UNCHANGED <<pc, tables, issued, now>>
             /\ job' = [job EXCEPT ![r].todo = @ \ {m}, ![r].gone = @ \cup {m}]
      BY <1>6 DEF DeleteRow
    <2>. DEFINE j == [job[r] EXCEPT !.todo = job[r].todo \ {m},
                                    !.gone = job[r].gone \cup {m}]
    <2>2. pc[r] \in DeletePcs /\ "del_rows" \in DeletePcs /\ j.lic = job[r].lic
      BY <1>4, <2>1 DEF DeletePcs, DeleteJob
    <2>3. pc' = [pc EXCEPT ![r] = "del_rows"] /\ job' = [job EXCEPT ![r] = j]
      BY <2>1 DEF TypeOK
    <2>. HIDE DEF j
    <2>. QED
      BY <1>3, <2>1, <2>2, <2>3 DEF Start
  <1>7. CASE DeletePurchases(r)
    <2>. DEFINE j == [job[r] EXCEPT !.purchases = lc[job[r].lic].purchases]
    <2>1. /\ pc[r] \in DeletePcs /\ "del_parent" \in DeletePcs
          /\ j.lic = job[r].lic
      BY <1>4, <1>7 DEF DeletePurchases, DeletePcs, DeleteJob
    <2>2. Start(r, "del_parent", j) /\ UNCHANGED <<tables, issued, now>>
      BY <1>7 DEF DeletePurchases
    <2>. HIDE DEF j
    <2>. QED
      BY <1>3, <2>1, <2>2
  <1>. QED
    BY <1>1, <1>2, <1>5, <1>6, <1>7

(* Under the locks of its transactions the server does, one request after  *)
(* the other, what AtomicLicenses does: Activate, Deactivate,              *)
(* ForceDeactivate, RecordPurchase, ExtendSubscription, SetProductStatus   *)
(* and DeleteLicense are atomic, and their answers are true of the step in *)
(* which they were decided.                                                *)
THEOREM ImplementsAtomicLicenses == Spec => ActsAtomically
  <1>1. Init => Atomic!Init
    BY StageAt
    DEF Init, Atomic!Init, Stages, Parents, LicenseOf, NoLicense, Atomic!NoLicense,
        NoActivation, Atomic!NoSeat, Activations, Atomic!Seats
  <1>2. IInv /\ NoRowIsEmpty /\ [Next]_vars => [Atomic!Next]_(Atomic!vars)
    <2>. SUFFICES ASSUME IInv, NoRowIsEmpty, [Next]_vars
                  PROVE  [Atomic!Next]_(Atomic!vars)
      OBVIOUS
    <2>. TypeOK
      BY DEF IInv
    <2>1. ASSUME NEW r \in Requests, Begin(r) PROVE Atomic!Next
      BY <2>1, BeginActsAtomically DEF Atomic!Next
    <2>2. ASSUME NEW r \in Requests, Advance(r) PROVE [Atomic!Next]_(Atomic!vars)
      <3>1. CASE ActivateGone(r) \/ PurchaseOverflow(r)
        <4>1. pc[r] # "answer"
          BY <3>1 DEF ActivateGone, PurchaseOverflow
        <4>2. Atomic!Fail(r)
          BY <3>1, <4>1, FailsAtomically DEF ActivateGone, PurchaseOverflow
        <4>. QED
          BY <4>2 DEF Atomic!Next, Atomic!Advance
      <3>. QED
        BY <2>2, <3>1, ActivateActsAtomically, PurchaseActsAtomically,
           DeleteActsAtomically, LocksAreUnseen
        DEF Advance, Atomic!Next
    <2>3. ASSUME NEW r \in Requests, Fail(r) PROVE Atomic!Next
      BY <2>3, FailsAtomically DEF Fail, Atomic!Next, Atomic!Advance
    <2>4. ASSUME NEW r \in Requests, Respond(r) PROVE Atomic!Next
      <3>1. /\ Stages[r].at = "told" /\ StageOf("idle", NoJob) = Atomic!Idle
            /\ Start(r, "idle", NoJob) /\ UNCHANGED <<tables, issued, now>>
        BY <2>4, StageAt DEF Respond, Stages, Atomic!Told
      <3>2. Atomic!Respond(r)
        BY <3>1, StageOnly DEF Atomic!Respond
      <3>. QED
        BY <3>2 DEF Atomic!Next, Atomic!Advance
    <2>5. CASE Tick
      BY <2>5, ParentsStay
      DEF Tick, request, tables, Stages, Atomic!Next, Atomic!Tick, Atomic!tables
    <2>6. CASE UNCHANGED vars
      BY <2>6, ParentsStay DEF vars, Stages, Atomic!vars
    <2>. QED
      BY <2>1, <2>2, <2>3, <2>4, <2>5, <2>6 DEF Next
  <1>. QED
    BY <1>1, <1>2, Invariance, RowsAreEmpty, PTL DEF Spec, ActsAtomically, Atomic!Spec
=============================================================================

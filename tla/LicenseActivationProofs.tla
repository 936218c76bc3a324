----------------------- MODULE LicenseActivationProofs -----------------------
(***************************************************************************)
(* Proofs about LicenseActivation, for any number of licenses, machines    *)
(* and requests and any limit.                                             *)
(***************************************************************************)
EXTENDS LicenseActivation, FiniteSetTheorems, TLAPS

(* A request's record has the type of the step it is about to take, and    *)
(* moving one request leaves those of the others alone.                    *)
LEMMA StartTypes ==
    ASSUME TypeOK, NEW r \in Requests, NEW p \in Pcs, NEW j \in JobsAt(p),
           Start(r, p, j)
    PROVE  /\ pc' \in [Requests -> Pcs]
           /\ DOMAIN job' = Requests
           /\ \A s \in Requests : job'[s] \in JobsAt(pc'[s])
  BY DEF TypeOK, Start

LEMMA StartMoves ==
    ASSUME TypeOK, NEW r \in Requests, NEW p, NEW j, Start(r, p, j)
    PROVE  /\ pc'[r] = p
           /\ job'[r] = j
           /\ \A s \in Requests \ {r} : pc'[s] = pc[s] /\ job'[s] = job[s]
  BY DEF TypeOK, Start

(* The end of a transaction gives up its own locks and no others.          *)
LEMMA ReleaseFrees ==
    ASSUME TypeOK, NEW r \in Requests, ReleaseLocks(r)
    PROVE  /\ \A l \in Licenses, s \in Requests :
                 lcLock'[l] = s <=> lcLock[l] = s /\ s # r
           /\ \A i \in Activations, s \in Requests :
                 actLock'[i] = s <=> actLock[i] = s /\ s # r
  BY ConstantsAssumption DEF TypeOK, ReleaseLocks

LEMMA ReleaseTypes ==
    ASSUME TypeOK, NEW r \in Requests, ReleaseLocks(r)
    PROVE  /\ lcLock' \in [Licenses -> Requests \cup {Null}]
           /\ actLock' \in [Activations -> Requests \cup {Null}]
  BY DEF TypeOK, ReleaseLocks

(* Answering is a step of its own kind.                                    *)
LEMMA AnswerTypes ==
    ASSUME TypeOK, NEW r \in Requests, NEW code \in Codes, Answer(r, code)
    PROVE  /\ pc' \in [Requests -> Pcs]
           /\ DOMAIN job' = Requests
           /\ \A s \in Requests : job'[s] \in JobsAt(pc'[s])
  <1>1. "answer" \in Pcs /\ [code |-> code] \in JobsAt("answer")
    BY DEF Pcs, JobsAt, AnswerJob, ActivatePcs, InsideActivate, DeletePcs
  <1>2. Start(r, "answer", [code |-> code])
    BY DEF Answer
  <1>. QED
    BY <1>1, <1>2, StartTypes

(* A commit is answered with one of the codes.                             *)
LEMMA CommittedAnswer ==
    ASSUME NEW r \in Requests, AnswerCommitted(r)
    PROVE  \E code \in Codes : Answer(r, code)
  BY DEF AnswerCommitted, Codes

(* What the type of a request's record is at each of its steps.            *)
LEMMA JobTypes ==
    ASSUME TypeOK, NEW r \in Requests
    PROVE  /\ pc[r] \in Pcs
           /\ pc[r] \in ActivatePcs => job[r] \in ActivateJob
           /\ pc[r] = "act_sign" => job[r] \in SignJob
           /\ pc[r] = "pur_commit" => job[r] \in PurchaseJob
           /\ pc[r] \in DeletePcs => job[r] \in DeleteJob
  BY DEF TypeOK, JobsAt, ActivatePcs, InsideActivate, DeletePcs

-----------------------------------------------------------------------------
(* Steps that change no table.                                             *)

(* A request outside any transaction moves to a step that is outside one   *)
(* as well.  What products are active does not matter.                     *)
LEMMA QuietStep ==
    ASSUME IInv, NEW r \in Requests, NEW p \in Pcs, NEW j \in JobsAt(p),
           pc[r] \notin InsideActivate \cup DeletePcs,
           p \notin InsideActivate \cup DeletePcs \cup {"act_sign"},
           Start(r, p, j), UNCHANGED <<lc, act, locks, issued>>,
           productActive' \in [Products -> BOOLEAN], now' \in Nat
    PROVE  IInv'
  <1>. USE DEF locks
  <1>1. /\ pc'[r] = p
        /\ \A s \in Requests \ {r} : pc'[s] = pc[s] /\ job'[s] = job[s]
        /\ p # "act_write"
    BY StartMoves DEF IInv, InsideActivate
  <1>2. TypeOK'
    BY StartTypes DEF IInv, TypeOK
  <1>3. LicenseLockInv'
    BY <1>1 DEF IInv, LicenseLockInv
  <1>4. RowLockInv'
    BY <1>1 DEF IInv, RowLockInv, MayHoldRow, HasRow
  <1>5. FoundRowInv'
    BY <1>1 DEF IInv, FoundRowInv
  <1>6. DeleteBegunInv' /\ DeleteInv'
    BY <1>1 DEF IInv, DeleteBegunInv, DeleteInv, HasRow, Live
  <1>7. SeatStaysFree'
    BY <1>1 DEF IInv, SeatStaysFree, Holders
  <1>8. CapacityInv' /\ NoOrphanActivation'
    BY DEF IInv, CapacityInv, NoOrphanActivation, HasRow, Live
  <1>9. ReadsStayTrue'
    BY <1>1 DEF IInv, ReadsStayTrue, Live
  <1>10. SeatsNeverOversold'
    BY DEF IInv, SeatsNeverOversold, Seats!NeverOversold, Holders
  <1>11. SignInv'
    BY <1>1 DEF IInv, SignInv, HasRow
  <1>12. IssuedLicenseIsBacked' /\ ActiveRowHasNoReleaser'
    BY DEF IInv, IssuedLicenseIsBacked, ActiveRowHasNoReleaser, HasRow
  <1>. QED
    BY <1>2, <1>3, <1>4, <1>5, <1>6, <1>7, <1>8, <1>9, <1>10, <1>11, <1>12 DEF IInv

(* A transaction that is rolled back, from any point of it.                *)
LEMMA RollbackStep ==
    ASSUME IInv, NEW r \in Requests, NEW code \in Codes,
           ReleaseLocks(r), Answer(r, code), UNCHANGED <<tables, issued, now>>
    PROVE  IInv'
  <1>. USE DEF tables
  <1>1. /\ pc'[r] = "answer"
        /\ \A s \in Requests \ {r} : pc'[s] = pc[s] /\ job'[s] = job[s]
    BY StartMoves DEF IInv, Answer
  <1>2. /\ \A l \in Licenses, s \in Requests :
              lcLock'[l] = s <=> lcLock[l] = s /\ s # r
        /\ \A i \in Activations, s \in Requests :
              actLock'[i] = s <=> actLock[i] = s /\ s # r
    BY ReleaseFrees DEF IInv
  <1>3. TypeOK'
    BY AnswerTypes, ReleaseTypes DEF IInv, TypeOK
  <1>4. LicenseLockInv'
    BY <1>1, <1>2 DEF IInv, LicenseLockInv, InsideActivate
  <1>5. RowLockInv'
    BY <1>1, <1>2 DEF IInv, RowLockInv, MayHoldRow, HasRow
  <1>6. FoundRowInv'
    <2>. SUFFICES ASSUME NEW s \in Requests, pc'[s] \in InsideActivate \ {"act_row"}
                  PROVE  /\ job'[s].found # "NONE" =>
                               actLock'[<<job'[s].lic, job'[s].mach>>] = s
                         /\ (job'[s].found = "ACTIVE") <=> (pc'[s] = "act_reuse")
      BY DEF FoundRowInv
    <2>1. s # r /\ pc[s] \in InsideActivate \ {"act_row"} /\ job'[s] = job[s]
      BY <1>1 DEF InsideActivate
    <2>2. <<job[s].lic, job[s].mach>> \in Activations
      BY <2>1, JobTypes DEF IInv, ActivatePcs, ActivateJob, Activations
    <2>. QED
      BY <1>1, <1>2, <2>1, <2>2 DEF IInv, FoundRowInv
  <1>7. DeleteInv'
    <2>. SUFFICES ASSUME NEW s \in Requests, (pc[s] \in DeletePcs /\ Live(job[s].lic))'
                  PROVE  (/\ \A m \in job[s].todo : HasRow(<<job[s].lic, m>>)
                          /\ \A m \in job[s].gone : actLock[<<job[s].lic, m>>] = s)'
      BY DEF DeleteInv
    <2>1. s # r /\ pc[s] \in DeletePcs /\ job'[s] = job[s] /\ Live(job[s].lic)
      BY <1>1 DEF DeletePcs, Live
    <2>2. \A m \in job[s].gone : <<job[s].lic, m>> \in Activations
      BY <2>1, JobTypes DEF IInv, DeleteJob, Activations
    <2>. QED
      BY <1>2, <2>1, <2>2 DEF IInv, DeleteInv, HasRow
  <1>8. SeatStaysFree'
    BY <1>1 DEF IInv, SeatStaysFree, Holders
  <1>9. CapacityInv' /\ NoOrphanActivation' /\ DeleteBegunInv'
    BY <1>1 DEF IInv, CapacityInv, NoOrphanActivation, DeleteBegunInv, DeletePcs, HasRow, Live
  <1>10. ReadsStayTrue'
    BY <1>1 DEF IInv, ReadsStayTrue, Live, InsideActivate
  <1>11. SeatsNeverOversold'
    BY DEF IInv, SeatsNeverOversold, Seats!NeverOversold, Holders
  <1>12. SignInv'
    BY <1>1 DEF IInv, SignInv, HasRow
  <1>13. IssuedLicenseIsBacked' /\ ActiveRowHasNoReleaser'
    BY DEF IInv, IssuedLicenseIsBacked, ActiveRowHasNoReleaser, HasRow
  <1>. QED
    BY <1>3, <1>4, <1>5, <1>6, <1>7, <1>8, <1>9, <1>10, <1>11, <1>12, <1>13 DEF IInv

-----------------------------------------------------------------------------
(* The steps of Activate.                                                  *)

LEMMA StepKinds ==
    /\ \A p \in ActivatePcs : p \in Pcs /\ JobsAt(p) = ActivateJob
    /\ \A p \in DeletePcs : p \in Pcs /\ JobsAt(p) = DeleteJob
    /\ "act_sign" \in Pcs /\ JobsAt("act_sign") = SignJob
    /\ "pur_commit" \in Pcs /\ JobsAt("pur_commit") = PurchaseJob
    /\ "idle" \in Pcs /\ JobsAt("idle") = AnswerJob
    /\ "answer" \in Pcs /\ JobsAt("answer") = AnswerJob
  BY DEF Pcs, JobsAt, ActivatePcs, InsideActivate, DeletePcs

LEMMA ActivateLockStep ==
    ASSUME IInv, NEW r \in Requests, ActivateLock(r)
    PROVE  IInv'
  <1>. DEFINE l == job[r].lic
              j == [job[r] EXCEPT !.max = lc[l].max]
  <1>. USE DEF tables
  <1>1. /\ job[r] \in ActivateJob /\ l \in Licenses
        /\ l = job[r].lic /\ pc[r] = "act_lock" /\ lcLock[l] = Null /\ Live(l)
        /\ lcLock' = [lcLock EXCEPT ![l] = r]
        /\ Start(r, "act_row", j)
    BY JobTypes DEF IInv, ActivateLock, ActivatePcs, ActivateJob, LicenseRowFree
  <1>2. j \in ActivateJob /\ j.lic = l /\ j.max = lc[l].max
    BY <1>1 DEF IInv, TypeOK, LicenseRow, ActivateJob
  <1>3. /\ pc'[r] = "act_row" /\ job'[r] = j
        /\ \A s \in Requests \ {r} : pc'[s] = pc[s] /\ job'[s] = job[s]
    BY <1>1, StartMoves DEF IInv
  <1>4. UNCHANGED <<productActive, lc, act, actLock, issued, now>>
    BY DEF ActivateLock
  <1>. HIDE DEF l, j
  <1>5. TypeOK'
    <2>1. "act_row" \in Pcs /\ j \in JobsAt("act_row")
      BY <1>2, StepKinds DEF ActivatePcs, InsideActivate
    <2>. QED
      BY <1>1, <1>4, <2>1, StartTypes DEF IInv, TypeOK
  <1>6. LicenseLockInv'
    BY <1>1, <1>2, <1>3, ConstantsAssumption
    DEF IInv, TypeOK, LicenseLockInv, InsideActivate
  <1>7. RowLockInv'
    BY <1>1, <1>3, <1>4 DEF IInv, RowLockInv, MayHoldRow, HasRow, InsideActivate, DeletePcs
  <1>8. FoundRowInv'
    BY <1>3, <1>4 DEF IInv, FoundRowInv
  <1>9. DeleteBegunInv' /\ DeleteInv'
    BY <1>3, <1>4 DEF IInv, DeleteBegunInv, DeleteInv, HasRow, Live, DeletePcs
  <1>10. SeatStaysFree'
    BY <1>3, <1>4 DEF IInv, SeatStaysFree, Holders
  <1>11. CapacityInv' /\ NoOrphanActivation'
    BY <1>4 DEF IInv, CapacityInv, NoOrphanActivation, HasRow, Live
  <1>12. ReadsStayTrue'
    BY <1>1, <1>2, <1>3, <1>4 DEF IInv, ReadsStayTrue, Live, InsideActivate
  <1>13. SeatsNeverOversold'
    BY <1>4 DEF IInv, SeatsNeverOversold, Seats!NeverOversold, Holders
  <1>14. SignInv'
    BY <1>3, <1>4 DEF IInv, SignInv, HasRow
  <1>15. IssuedLicenseIsBacked' /\ ActiveRowHasNoReleaser'
    BY <1>4 DEF IInv, IssuedLicenseIsBacked, ActiveRowHasNoReleaser, HasRow
  <1>. QED
    BY <1>5, <1>6, <1>7, <1>8, <1>9, <1>10, <1>11, <1>12, <1>13, <1>14, <1>15 DEF IInv

LEMMA ActivateFindRowStep ==
    ASSUME IInv, NEW r \in Requests, ActivateFindRow(r)
    PROVE  IInv'
  <1>. DEFINE i == <<job[r].lic, job[r].mach>>
              p == IF IsReuse(act[i].status) THEN "act_reuse" ELSE "act_count"
              j == [job[r] EXCEPT !.found = act[i].status, !.exp = ExpiryOf(job[r].due)]
  <1>. USE DEF tables
  <1>1. /\ job[r] \in ActivateJob /\ i \in Activations /\ i = <<job[r].lic, job[r].mach>>
        /\ pc[r] = "act_row" /\ actLock[i] = Null
        /\ actLock' = [actLock EXCEPT ![i] = IF HasRow(i) THEN r ELSE Null]
        /\ Start(r, p, j)
    BY JobTypes
    DEF IInv, ActivateFindRow, ActivatePcs, InsideActivate, ActivateJob,
        ActivationRowFree, Activations
  <1>2. /\ j \in ActivateJob
        /\ j.lic = job[r].lic /\ j.mach = job[r].mach /\ j.max = job[r].max
        /\ j.found = act[i].status
    <2>1. ExpiryOf(job[r].due) \in Date
      BY <1>1, ConstantsAssumption DEF IInv, TypeOK, ActivateJob, ExpiryOf, DateOrNull, Date
    <2>2. act[i].status \in RowStatus
      BY <1>1 DEF IInv, TypeOK, ActivationRow
    <2>. QED
      BY <1>1, <2>1, <2>2 DEF ActivateJob
  <1>3. /\ pc'[r] = p /\ job'[r] = j
        /\ \A s \in Requests \ {r} : pc'[s] = pc[s] /\ job'[s] = job[s]
    BY <1>1, StartMoves DEF IInv
  <1>4. UNCHANGED <<productActive, lc, act, lcLock, issued, now>>
    BY DEF ActivateFindRow
  <1>5. /\ p \in InsideActivate \ {"act_row"}
        /\ p = "act_reuse" <=> j.found = "ACTIVE"
        /\ p # "act_write" /\ p # "act_sign" /\ p \notin DeletePcs
        /\ pc[r] \in InsideActivate /\ pc[r] \notin DeletePcs
    BY <1>1, <1>2 DEF InsideActivate, IsReuse, DeletePcs
  <1>. HIDE DEF i, p, j
  <1>6. \A k \in Activations, s \in Requests :
           actLock'[k] = s <=>
               \/ actLock[k] = s /\ k # i
               \/ k = i /\ s = r /\ HasRow(i)
    BY <1>1, ConstantsAssumption DEF IInv, TypeOK
  <1>7. TypeOK'
    <2>1. p \in Pcs /\ j \in JobsAt(p)
      BY <1>2, <1>5, StepKinds DEF ActivatePcs
    <2>2. actLock' \in [Activations -> Requests \cup {Null}]
      BY <1>1 DEF IInv, TypeOK
    <2>. QED
      BY <1>1, <1>4, <2>1, <2>2, StartTypes DEF IInv, TypeOK
  <1>8. LicenseLockInv'
    BY <1>2, <1>3, <1>4, <1>5 DEF IInv, LicenseLockInv
  <1>9. RowLockInv'
    BY <1>1, <1>2, <1>3, <1>4, <1>5, <1>6 DEF IInv, RowLockInv, MayHoldRow, HasRow
  <1>10. FoundRowInv'
    <2>. SUFFICES ASSUME NEW s \in Requests, (pc[s] \in InsideActivate \ {"act_row"})'
                  PROVE  (/\ job[s].found # "NONE" => actLock[<<job[s].lic, job[s].mach>>] = s
                          /\ (job[s].found = "ACTIVE") <=> (pc[s] = "act_reuse"))'
      BY DEF FoundRowInv
    <2>1. CASE s = r
      BY <1>1, <1>2, <1>3, <1>5, <1>6, <2>1 DEF HasRow
    <2>2. CASE s # r
      <3>1. <<job[s].lic, job[s].mach>> \in Activations
        BY <1>3, <2>2, JobTypes DEF IInv, ActivatePcs, ActivateJob, Activations
      <3>2. s # Null
        BY ConstantsAssumption
      <3>. QED
        BY <1>1, <1>3, <1>6, <2>2, <3>1, <3>2 DEF IInv, FoundRowInv
    <2>. QED
      BY <2>1, <2>2
  <1>11. DeleteInv'
    <2>. SUFFICES ASSUME NEW s \in Requests, (pc[s] \in DeletePcs /\ Live(job[s].lic))'
                  PROVE  (/\ \A m \in job[s].todo : HasRow(<<job[s].lic, m>>)
                          /\ \A m \in job[s].gone : actLock[<<job[s].lic, m>>] = s)'
      BY DEF DeleteInv
    <2>1. s # r /\ pc[s] \in DeletePcs /\ job'[s] = job[s] /\ Live(job[s].lic)
      BY <1>3, <1>4, <1>5 DEF Live
    <2>2. \A m \in job[s].gone : <<job[s].lic, m>> \in Activations
      BY <2>1, JobTypes DEF IInv, DeleteJob, Activations
    <2>3. s # Null
      BY ConstantsAssumption
    <2>. QED
      BY <1>1, <1>4, <1>6, <2>1, <2>2, <2>3 DEF IInv, DeleteInv, HasRow
  <1>12. SeatStaysFree'
    BY <1>3, <1>4, <1>5 DEF IInv, SeatStaysFree, Holders
  <1>13. CapacityInv' /\ NoOrphanActivation' /\ DeleteBegunInv'
    BY <1>3, <1>4, <1>5
    DEF IInv, CapacityInv, NoOrphanActivation, DeleteBegunInv, HasRow, Live
  <1>14. ReadsStayTrue'
    BY <1>1, <1>2, <1>3, <1>4, <1>5 DEF IInv, ReadsStayTrue, Live
  <1>15. SeatsNeverOversold'
    BY <1>4 DEF IInv, SeatsNeverOversold, Seats!NeverOversold, Holders
  <1>16. SignInv'
    BY <1>3, <1>4, <1>5 DEF IInv, SignInv, HasRow
  <1>17. IssuedLicenseIsBacked' /\ ActiveRowHasNoReleaser'
    BY <1>4 DEF IInv, IssuedLicenseIsBacked, ActiveRowHasNoReleaser, HasRow
  <1>. QED
    BY <1>7, <1>8, <1>9, <1>10, <1>11, <1>12, <1>13, <1>14, <1>15, <1>16, <1>17 DEF IInv

LEMMA AtMostTransitive ==
    \A a, b, c \in Nat :
        /\ a <= b /\ b <= c => a <= c
        /\ a <= b /\ b < c => a < c
  OBVIOUS

(* The machines that hold a seat are finitely many.                        *)
LEMMA HoldersFinite ==
    \A l \in Licenses : IsFiniteSet(Holders(l)) /\ Cardinality(Holders(l)) \in Nat
  BY ConstantsAssumption, FS_Subset, FS_CardinalityType DEF Holders, HoldersIn

(* The Cardinality that SeatQuota imports is the one imported here.        *)
LEMMA SameCardinality == \A S : Seats!Cardinality(S) = Cardinality(S)
  BY DEF Seats!Cardinality, Cardinality, Seats!IsFiniteSet, IsFiniteSet

(* The abstract invariant, in terms of the tables.                         *)
LEMMA NeverOversoldMeans ==
    /\ SeatsNeverOversold <=>
          \A l \in Licenses : Cardinality(Holders(l)) <= lc[l].max
    /\ SeatsNeverOversold' <=>
          \A l \in Licenses : Cardinality(HoldersIn(act', l)) <= lc'[l].max
  BY SameCardinality DEF SeatsNeverOversold, Seats!NeverOversold, Holders

(* The commit of Activate, in its three cases: the machine's row is ACTIVE *)
(* from now on.                                                            *)
LEMMA CommitStep ==
    ASSUME IInv, NEW r \in Requests, NEW i \in Activations, NEW row \in ActivationRow,
           pc[r] \in {"act_reuse", "act_write"}, i = <<job[r].lic, job[r].mach>>,
           row.status = "ACTIVE", row.by = Null,
           act' = [act EXCEPT ![i] = row], ReleaseLocks(r),
           Start(r, "act_sign", [lic |-> job[r].lic, mach |-> job[r].mach]),
           UNCHANGED <<productActive, lc, issued, now>>
    PROVE  IInv'
  <1>1. /\ job[r] \in ActivateJob /\ job[r].lic \in Licenses /\ job[r].mach \in Machines
        /\ pc[r] \in InsideActivate \ {"act_row"} /\ pc[r] \notin DeletePcs
    BY JobTypes DEF IInv, ActivatePcs, InsideActivate, ActivateJob, DeletePcs
  <1>2. /\ pc'[r] = "act_sign"
        /\ job'[r].lic = job[r].lic /\ job'[r].mach = job[r].mach
        /\ \A s \in Requests \ {r} : pc'[s] = pc[s] /\ job'[s] = job[s]
    BY StartMoves DEF IInv
  <1>3. /\ \A k \in Licenses, s \in Requests :
              lcLock'[k] = s <=> lcLock[k] = s /\ s # r
        /\ \A k \in Activations, s \in Requests :
              actLock'[k] = s <=> actLock[k] = s /\ s # r
    BY ReleaseFrees DEF IInv
  <1>4. act'[i] = row /\ \A k \in Activations \ {i} : act'[k] = act[k]
    BY DEF IInv, TypeOK
  <1>5. /\ lcLock[job[r].lic] = r
        /\ Live(job[r].lic)
        /\ \A s \in Requests \ {r} :
              pc[s] \in InsideActivate => job[s].lic # job[r].lic
    BY <1>1 DEF IInv, LicenseLockInv, ReadsStayTrue
  <1>. USE DEF Holders
  <1>6. /\ HoldersIn(act', job[r].lic) = Holders(job[r].lic) \cup {job[r].mach}
        /\ \A k \in Licenses \ {job[r].lic} : HoldersIn(act', k) = Holders(k)
    <2>1. \A k \in Licenses, m \in Machines :
             act'[<<k, m>>] = IF k = job[r].lic /\ m = job[r].mach
                              THEN row ELSE act[<<k, m>>]
      BY <1>1, <1>4 DEF Activations
    <2>. QED
      BY <1>1, <2>1 DEF HoldersIn
  <1>7. Cardinality(HoldersIn(act', job[r].lic)) <= lc[job[r].lic].max
    <2>1. CASE pc[r] = "act_reuse"
      <3>1. job[r].mach \in Holders(job[r].lic)
        BY <1>1, <2>1 DEF IInv, FoundRowInv, ReadsStayTrue, HoldersIn
      <3>2. HoldersIn(act', job[r].lic) = Holders(job[r].lic)
        BY <1>6, <3>1
      <3>. QED
        BY <1>1, <3>2, NeverOversoldMeans DEF IInv
    <2>2. CASE pc[r] = "act_write"
      <3>1. Cardinality(Holders(job[r].lic)) < lc[job[r].lic].max
        BY <2>2 DEF IInv, SeatStaysFree
      <3>2. \/ Cardinality(HoldersIn(act', job[r].lic)) = Cardinality(Holders(job[r].lic))
            \/ Cardinality(HoldersIn(act', job[r].lic)) = Cardinality(Holders(job[r].lic)) + 1
        <4>1. IsFiniteSet(Holders(job[r].lic))
          BY <1>1, HoldersFinite
        <4>. HIDE DEF Holders
        <4>. QED
          BY <1>6, <4>1, FS_AddElement
      <3>3. lc[job[r].lic].max \in Nat /\ Cardinality(Holders(job[r].lic)) \in Nat
        BY <1>1, HoldersFinite, ConstantsAssumption DEF IInv, TypeOK, LicenseRow
      <3>. QED
        BY <3>1, <3>2, <3>3
    <2>. QED
      BY <2>1, <2>2
  <1>8. TypeOK'
    <2>1. [lic |-> job[r].lic, mach |-> job[r].mach] \in JobsAt("act_sign")
      BY <1>1, StepKinds DEF SignJob
    <2>2. act' \in [Activations -> ActivationRow]
      BY DEF IInv, TypeOK
    <2>. QED
      BY <2>1, <2>2, StepKinds, StartTypes, ReleaseTypes DEF IInv, TypeOK
  <1>9. LicenseLockInv'
    BY <1>2, <1>3 DEF IInv, LicenseLockInv, InsideActivate
  <1>10. RowLockInv'
    BY <1>2, <1>3, <1>4 DEF IInv, RowLockInv, MayHoldRow, HasRow
  <1>11. FoundRowInv'
    <2>. SUFFICES ASSUME NEW s \in Requests, (pc[s] \in InsideActivate \ {"act_row"})'
                  PROVE  (/\ job[s].found # "NONE" => actLock[<<job[s].lic, job[s].mach>>] = s
                          /\ (job[s].found = "ACTIVE") <=> (pc[s] = "act_reuse"))'
      BY DEF FoundRowInv
    <2>1. s # r /\ pc[s] \in InsideActivate \ {"act_row"} /\ job'[s] = job[s]
      BY <1>2 DEF InsideActivate
    <2>2. <<job[s].lic, job[s].mach>> \in Activations
      BY <2>1, JobTypes DEF IInv, ActivatePcs, ActivateJob, Activations
    <2>. QED
      BY <1>2, <1>3, <2>1, <2>2 DEF IInv, FoundRowInv
  <1>12. DeleteInv'
    <2>. SUFFICES ASSUME NEW s \in Requests, (pc[s] \in DeletePcs /\ Live(job[s].lic))'
                  PROVE  (/\ \A m \in job[s].todo : HasRow(<<job[s].lic, m>>)
                          /\ \A m \in job[s].gone : actLock[<<job[s].lic, m>>] = s)'
      BY DEF DeleteInv
    <2>1. s # r /\ pc[s] \in DeletePcs /\ job'[s] = job[s] /\ Live(job[s].lic)
      BY <1>2 DEF DeletePcs, Live
    <2>2. \A m \in job[s].gone \cup job[s].todo : <<job[s].lic, m>> \in Activations
      BY <2>1, JobTypes DEF IInv, DeleteJob, Activations
    <2>. QED
      BY <1>3, <1>4, <2>1, <2>2 DEF IInv, DeleteInv, HasRow
  <1>13. SeatStaysFree'
    <2>. SUFFICES ASSUME NEW s \in Requests, pc'[s] = "act_write"
                  PROVE  (Cardinality(Holders(job[s].lic)) < lc[job[s].lic].max)'
      BY DEF SeatStaysFree
    <2>1. s # r /\ pc[s] = "act_write" /\ job'[s] = job[s]
      BY <1>2
    <2>2. job[s].lic \in Licenses /\ job[s].lic # job[r].lic
      BY <1>5, <2>1, JobTypes DEF IInv, ActivatePcs, InsideActivate, ActivateJob
    <2>. QED
      BY <1>6, <2>1, <2>2 DEF IInv, SeatStaysFree
  <1>14. CapacityInv' /\ DeleteBegunInv'
    BY <1>2 DEF IInv, CapacityInv, DeleteBegunInv, DeletePcs, Live
  <1>15. NoOrphanActivation'
    BY <1>4, <1>5 DEF IInv, NoOrphanActivation, HasRow, Live, Activations
  <1>16. ReadsStayTrue'
    <2>. SUFFICES ASSUME NEW s \in Requests, (pc[s] \in InsideActivate)'
                  PROVE  (/\ Live(job[s].lic) /\ job[s].max = lc[job[s].lic].max
                          /\ pc[s] \in InsideActivate \ {"act_row"} =>
                                job[s].found = act[<<job[s].lic, job[s].mach>>].status)'
      BY DEF ReadsStayTrue
    <2>1. s # r /\ pc[s] \in InsideActivate /\ pc'[s] = pc[s] /\ job'[s] = job[s]
      BY <1>2 DEF InsideActivate
    <2>2. <<job[s].lic, job[s].mach>> \in Activations /\ job[s].lic # job[r].lic
      BY <1>5, <2>1, JobTypes DEF IInv, ActivatePcs, ActivateJob, Activations
    <2>. QED
      BY <1>4, <2>1, <2>2 DEF IInv, ReadsStayTrue, Live
  <1>17. SeatsNeverOversold'
    BY <1>1, <1>6, <1>7, NeverOversoldMeans DEF IInv
  <1>18. SignInv'
    <2>. SUFFICES ASSUME NEW s \in Requests, pc'[s] = "act_sign"
                  PROVE  (\/ HasRow(<<job[s].lic, job[s].mach>>)
                          \/ lc[job[s].lic].state = "deleted")'
      BY DEF SignInv
    <2>1. CASE s = r
      BY <1>2, <1>4, <2>1 DEF HasRow
    <2>2. CASE s # r
      <3>1. <<job[s].lic, job[s].mach>> \in Activations
        BY <1>2, <2>2, JobTypes DEF IInv, SignJob, Activations
      <3>. QED
        BY <1>2, <1>4, <2>2, <3>1 DEF IInv, SignInv, HasRow
    <2>. QED
      BY <2>1, <2>2
  <1>19. IssuedLicenseIsBacked' /\ ActiveRowHasNoReleaser'
    BY <1>4 DEF IInv, TypeOK, IssuedLicenseIsBacked, ActiveRowHasNoReleaser, HasRow
  <1>. QED
    BY <1>8, <1>9, <1>10, <1>11, <1>12, <1>13, <1>14, <1>15, <1>16, <1>17, <1>18, <1>19 DEF IInv

LEMMA ActivateCountStep ==
    ASSUME IInv, NEW r \in Requests, ActivateCount(r)
    PROVE  IInv'
  <1>. USE DEF tables, locks
  <1>1. /\ pc[r] = "act_count" /\ job[r] \in ActivateJob
        /\ Start(r, "act_write", job[r])
        /\ UNCHANGED <<tables, locks, issued, now>>
    BY JobTypes DEF IInv, ActivateCount, ActivatePcs, InsideActivate
  <1>2. /\ pc'[r] = "act_write"
        /\ \A s \in Requests : job'[s] = job[s]
        /\ \A s \in Requests \ {r} : pc'[s] = pc[s]
    BY <1>1, StartMoves DEF IInv
  <1>3. Cardinality(Holders(job[r].lic)) < lc[job[r].lic].max
    BY <1>1 DEF IInv, ActivateCount, HasFreeSeat, ReadsStayTrue, InsideActivate
  <1>4. TypeOK'
    BY <1>1, StartTypes, StepKinds DEF IInv, TypeOK, ActivatePcs, InsideActivate
  <1>5. LicenseLockInv'
    BY <1>1, <1>2 DEF IInv, LicenseLockInv, InsideActivate
  <1>6. RowLockInv'
    BY <1>1, <1>2 DEF IInv, RowLockInv, MayHoldRow, HasRow, InsideActivate, DeletePcs
  <1>7. FoundRowInv'
    BY <1>1, <1>2 DEF IInv, FoundRowInv, InsideActivate
  <1>8. DeleteBegunInv' /\ DeleteInv'
    BY <1>1, <1>2 DEF IInv, DeleteBegunInv, DeleteInv, HasRow, Live, DeletePcs
  <1>9. SeatStaysFree'
    BY <1>1, <1>2, <1>3 DEF IInv, SeatStaysFree, Holders
  <1>10. CapacityInv' /\ NoOrphanActivation'
    BY <1>1 DEF IInv, CapacityInv, NoOrphanActivation, HasRow, Live
  <1>11. ReadsStayTrue'
    BY <1>1, <1>2 DEF IInv, ReadsStayTrue, Live, InsideActivate
  <1>12. SeatsNeverOversold'
    BY <1>1 DEF IInv, SeatsNeverOversold, Seats!NeverOversold, Holders
  <1>13. SignInv'
    BY <1>1, <1>2 DEF IInv, SignInv, HasRow
  <1>14. IssuedLicenseIsBacked' /\ ActiveRowHasNoReleaser'
    BY <1>1 DEF IInv, IssuedLicenseIsBacked, ActiveRowHasNoReleaser, HasRow
  <1>. QED
    BY <1>4, <1>5, <1>6, <1>7, <1>8, <1>9, <1>10, <1>11, <1>12, <1>13, <1>14 DEF IInv

LEMMA ActivateSignStep ==
    ASSUME IInv, NEW r \in Requests, ActivateSign(r)
    PROVE  IInv'
  <1>. DEFINE i == <<job[r].lic, job[r].mach>>
  <1>. USE DEF tables, locks
  <1>1. /\ pc[r] = "act_sign" /\ i \in Activations
        /\ issued' = issued \cup {i} /\ Answer(r, "OK")
        /\ UNCHANGED <<tables, locks, now>>
    BY JobTypes DEF IInv, ActivateSign, SignJob, Activations
  <1>2. /\ pc'[r] = "answer"
        /\ \A s \in Requests \ {r} : pc'[s] = pc[s] /\ job'[s] = job[s]
    BY <1>1, StartMoves DEF IInv, Answer
  <1>3. TypeOK'
    BY <1>1, AnswerTypes DEF IInv, TypeOK, Codes
  <1>4. LicenseLockInv'
    BY <1>1, <1>2 DEF IInv, LicenseLockInv, InsideActivate
  <1>5. RowLockInv'
    BY <1>1, <1>2 DEF IInv, RowLockInv, MayHoldRow, HasRow, InsideActivate, DeletePcs
  <1>6. FoundRowInv'
    BY <1>1, <1>2 DEF IInv, FoundRowInv, InsideActivate
  <1>7. DeleteBegunInv' /\ DeleteInv'
    BY <1>1, <1>2 DEF IInv, DeleteBegunInv, DeleteInv, HasRow, Live, DeletePcs
  <1>8. SeatStaysFree'
    BY <1>1, <1>2 DEF IInv, SeatStaysFree, Holders
  <1>9. CapacityInv' /\ NoOrphanActivation'
    BY <1>1 DEF IInv, CapacityInv, NoOrphanActivation, HasRow, Live
  <1>10. ReadsStayTrue'
    BY <1>1, <1>2 DEF IInv, ReadsStayTrue, Live, InsideActivate
  <1>11. SeatsNeverOversold'
    BY <1>1 DEF IInv, SeatsNeverOversold, Seats!NeverOversold, Holders
  <1>12. SignInv'
    BY <1>1, <1>2 DEF IInv, SignInv, HasRow
  <1>13. IssuedLicenseIsBacked'
    BY <1>1 DEF IInv, SignInv, IssuedLicenseIsBacked, HasRow
  <1>14. ActiveRowHasNoReleaser'
    BY <1>1 DEF IInv, ActiveRowHasNoReleaser
  <1>. QED
    BY <1>3, <1>4, <1>5, <1>6, <1>7, <1>8, <1>9, <1>10, <1>11, <1>12, <1>13, <1>14 DEF IInv

-----------------------------------------------------------------------------
(* The one-step requests.                                                  *)

(* A seat is given back, by its holder or by an admin.                     *)
LEMMA ReleaseSeatStep ==
    ASSUME IInv, NEW r \in Requests, NEW i \in Activations,
           NEW by \in Admins \cup {Null}, ReleaseSeat(r, i, by)
    PROVE  IInv'
  <1>. DEFINE row == [act[i] EXCEPT !.status = "DEACTIVATED", !.by = by]
  <1>. USE DEF locks
  <1>1. /\ pc[r] = "idle" /\ act[i].status = "ACTIVE" /\ actLock[i] = Null
        /\ act' = [act EXCEPT ![i] = row]
        /\ UNCHANGED <<productActive, lc, locks, issued, now>>
    BY DEF IInv, TypeOK, ReleaseSeat, ActivationRowFree
  <1>a. PICK code \in Codes : Answer(r, code)
    BY CommittedAnswer DEF ReleaseSeat
  <1>2. /\ pc'[r] = "answer"
        /\ \A s \in Requests \ {r} : pc'[s] = pc[s] /\ job'[s] = job[s]
    BY <1>a, StartMoves DEF IInv, Answer
  <1>3. row \in ActivationRow /\ row.status = "DEACTIVATED"
    BY DEF IInv, TypeOK, ActivationRow, RowStatus
  <1>4. act'[i] = row /\ \A k \in Activations \ {i} : act'[k] = act[k]
    BY <1>1 DEF IInv, TypeOK
  <1>. HIDE DEF row
  <1>5. \A k \in Activations : HasRow(k) <=> act'[k].status # "NONE"
    BY <1>1, <1>3, <1>4 DEF HasRow
  <1>6. \A l \in Licenses :
           /\ HoldersIn(act', l) \subseteq Holders(l)
           /\ Cardinality(HoldersIn(act', l)) \in Nat
           /\ Cardinality(HoldersIn(act', l)) <= Cardinality(Holders(l))
    <2>. TAKE l \in Licenses
    <2>1. HoldersIn(act', l) \subseteq Holders(l)
      BY <1>3, <1>4 DEF HoldersIn, Holders, Activations
    <2>. QED
      BY <2>1, HoldersFinite, FS_Subset, FS_CardinalityType
  <1>7. \A l \in Licenses : lc[l].max \in Nat /\ Cardinality(Holders(l)) \in Nat
    BY HoldersFinite, ConstantsAssumption DEF IInv, TypeOK, LicenseRow
  <1>8. TypeOK'
    BY <1>1, <1>3, <1>a, AnswerTypes DEF IInv, TypeOK
  <1>9. LicenseLockInv'
    BY <1>1, <1>2 DEF IInv, LicenseLockInv, InsideActivate
  <1>10. RowLockInv'
    BY <1>1, <1>2, <1>5 DEF IInv, RowLockInv, MayHoldRow, HasRow, InsideActivate, DeletePcs
  <1>11. FoundRowInv'
    BY <1>1, <1>2 DEF IInv, FoundRowInv, InsideActivate
  <1>12. DeleteBegunInv' /\ DeleteInv'
    <2>. SUFFICES ASSUME NEW s \in Requests, pc'[s] \in DeletePcs
                  PROVE  (/\ lc[job[s].lic].state # "unborn"
                          /\ Live(job[s].lic) =>
                                /\ \A m \in job[s].todo : HasRow(<<job[s].lic, m>>)
                                /\ \A m \in job[s].gone : actLock[<<job[s].lic, m>>] = s)'
      BY DEF DeleteBegunInv, DeleteInv
    <2>1. s # r /\ pc[s] \in DeletePcs /\ job'[s] = job[s]
      BY <1>2 DEF DeletePcs
    <2>2. \A m \in job[s].todo : <<job[s].lic, m>> \in Activations
      BY <2>1, JobTypes DEF IInv, DeleteJob, Activations
    <2>. QED
      BY <1>1, <1>5, <2>1, <2>2 DEF IInv, DeleteBegunInv, DeleteInv, HasRow, Live
  <1>13. SeatStaysFree'
    <2>. SUFFICES ASSUME NEW s \in Requests, pc'[s] = "act_write"
                  PROVE  Cardinality(HoldersIn(act', job'[s].lic)) < lc'[job'[s].lic].max
      BY DEF SeatStaysFree, Holders
    <2>1. s # r /\ pc[s] = "act_write" /\ job'[s] = job[s]
      BY <1>2
    <2>2. job[s].lic \in Licenses
      BY <2>1, JobTypes DEF IInv, ActivatePcs, InsideActivate, ActivateJob
    <2>3. Cardinality(Holders(job[s].lic)) < lc[job[s].lic].max
      BY <2>1 DEF IInv, SeatStaysFree
    <2>4. Cardinality(HoldersIn(act', job[s].lic)) < lc[job[s].lic].max
      BY <1>6, <1>7, <2>2, <2>3, AtMostTransitive
    <2>. QED
      BY <1>1, <2>1, <2>4
  <1>14. CapacityInv'
    BY <1>1 DEF IInv, CapacityInv, Live
  <1>15. NoOrphanActivation'
    BY <1>1, <1>5 DEF IInv, NoOrphanActivation, HasRow, Live, Activations
  <1>16. ReadsStayTrue'
    <2>. SUFFICES ASSUME NEW s \in Requests, (pc[s] \in InsideActivate)'
                  PROVE  (/\ Live(job[s].lic) /\ job[s].max = lc[job[s].lic].max
                          /\ pc[s] \in InsideActivate \ {"act_row"} =>
                                job[s].found = act[<<job[s].lic, job[s].mach>>].status)'
      BY DEF ReadsStayTrue
    <2>1. s # r /\ pc[s] \in InsideActivate /\ pc'[s] = pc[s] /\ job'[s] = job[s]
      BY <1>2 DEF InsideActivate
    <2>2. <<job[s].lic, job[s].mach>> \in Activations /\ s # Null
      BY <2>1, JobTypes, ConstantsAssumption DEF IInv, ActivatePcs, ActivateJob, Activations
    <2>3. pc[s] \in InsideActivate \ {"act_row"} => <<job[s].lic, job[s].mach>> # i
      BY <1>1, <2>1, <2>2 DEF IInv, FoundRowInv, ReadsStayTrue
    <2>. QED
      BY <1>1, <1>4, <2>1, <2>2, <2>3 DEF IInv, ReadsStayTrue, Live
  <1>17. SeatsNeverOversold'
    <2>1. \A l \in Licenses : Cardinality(Holders(l)) <= lc[l].max
      BY NeverOversoldMeans DEF IInv
    <2>2. ASSUME NEW l \in Licenses
          PROVE  Cardinality(HoldersIn(act', l)) <= lc'[l].max
      <3>1. Cardinality(HoldersIn(act', l)) <= lc[l].max
        BY <1>6, <1>7, <2>1, AtMostTransitive
      <3>. QED
        BY <1>1, <3>1
    <2>. QED
      BY <2>2, NeverOversoldMeans
  <1>18. SignInv'
    <2>. SUFFICES ASSUME NEW s \in Requests, pc'[s] = "act_sign"
                  PROVE  (\/ HasRow(<<job[s].lic, job[s].mach>>)
                          \/ lc[job[s].lic].state = "deleted")'
      BY DEF SignInv
    <2>1. s # r /\ pc[s] = "act_sign" /\ job'[s] = job[s]
      BY <1>2
    <2>2. <<job[s].lic, job[s].mach>> \in Activations
      BY <2>1, JobTypes DEF IInv, SignJob, Activations
    <2>. QED
      BY <1>1, <1>5, <2>1, <2>2 DEF IInv, SignInv, HasRow
  <1>19. IssuedLicenseIsBacked'
    BY <1>1, <1>5 DEF IInv, TypeOK, IssuedLicenseIsBacked, HasRow
  <1>20. ActiveRowHasNoReleaser'
    BY <1>3, <1>4 DEF IInv, ActiveRowHasNoReleaser
  <1>. QED
    BY <1>8, <1>9, <1>10, <1>11, <1>12, <1>13, <1>14, <1>15, <1>16, <1>17,
       <1>18, <1>19, <1>20
    DEF IInv

(* A license row nobody holds is created or updated, with no fewer seats.  *)
LEMMA LicenseWriteStep ==
    ASSUME IInv, NEW r \in Requests, NEW l \in Licenses, NEW row \in LicenseRow,
           pc[r] \notin InsideActivate \cup DeletePcs,
           lcLock[l] = Null, lc[l].state # "deleted",
           row.state = "live", row.max >= lc[l].max,
           lc' = [lc EXCEPT ![l] = row], AnswerCommitted(r),
           UNCHANGED <<productActive, act, locks, issued, now>>
    PROVE  IInv'
  <1>. USE DEF locks
  <1>a. PICK code \in Codes : Answer(r, code)
    BY CommittedAnswer
  <1>1. /\ pc'[r] = "answer"
        /\ \A s \in Requests \ {r} : pc'[s] = pc[s] /\ job'[s] = job[s]
    BY <1>a, StartMoves DEF IInv, Answer
  <1>2. lc'[l] = row /\ \A k \in Licenses \ {l} : lc'[k] = lc[k]
    BY DEF IInv, TypeOK
  <1>3. \A s \in Requests :
           pc[s] \in InsideActivate => job[s].lic \in Licenses \ {l}
    <2>. TAKE s \in Requests
    <2>1. pc[s] \in InsideActivate => job[s].lic \in Licenses
      BY JobTypes DEF IInv, ActivatePcs, ActivateJob
    <2>. QED
      BY <2>1, ConstantsAssumption DEF IInv, LicenseLockInv
  <1>4. \A k \in Licenses : lc[k].max \in Nat /\ Cardinality(Holders(k)) \in Nat
    BY HoldersFinite, ConstantsAssumption DEF IInv, TypeOK, LicenseRow
  <1>5. row.max \in Nat
    BY ConstantsAssumption DEF LicenseRow
  <1>6. TypeOK'
    BY <1>a, AnswerTypes DEF IInv, TypeOK
  <1>7. LicenseLockInv'
    BY <1>1 DEF IInv, LicenseLockInv, InsideActivate
  <1>8. RowLockInv'
    BY <1>1 DEF IInv, RowLockInv, MayHoldRow, HasRow, InsideActivate, DeletePcs
  <1>9. FoundRowInv'
    BY <1>1 DEF IInv, FoundRowInv, InsideActivate
  <1>10. DeleteBegunInv' /\ DeleteInv'
    <2>. SUFFICES ASSUME NEW s \in Requests, pc'[s] \in DeletePcs
                  PROVE  (/\ lc[job[s].lic].state # "unborn"
                          /\ Live(job[s].lic) =>
                                /\ \A m \in job[s].todo : HasRow(<<job[s].lic, m>>)
                                /\ \A m \in job[s].gone : actLock[<<job[s].lic, m>>] = s)'
      BY DEF DeleteBegunInv, DeleteInv
    <2>1. s # r /\ pc[s] \in DeletePcs /\ job'[s] = job[s]
      BY <1>1 DEF DeletePcs
    <2>2. job[s].lic \in Licenses
      BY <2>1, JobTypes DEF IInv, DeleteJob
    <2>3. lc[job[s].lic].state # "unborn"
      BY <2>1 DEF IInv, DeleteBegunInv
    <2>4. Live(job[s].lic)' => Live(job[s].lic)
      BY <1>2, <2>1, <2>2, <2>3 DEF IInv, TypeOK, LicenseRow, Live
    <2>. QED
      BY <1>2, <2>1, <2>2, <2>3, <2>4 DEF IInv, DeleteInv, HasRow, Live
  <1>11. SeatStaysFree'
    BY <1>1, <1>2, <1>3 DEF IInv, SeatStaysFree, Holders, InsideActivate
  <1>12. CapacityInv'
    BY <1>2 DEF IInv, CapacityInv, Live
  <1>13. NoOrphanActivation'
    BY <1>2 DEF IInv, NoOrphanActivation, HasRow, Live
  <1>14. ReadsStayTrue'
    BY <1>1, <1>2, <1>3 DEF IInv, ReadsStayTrue, Live, InsideActivate
  <1>15. SeatsNeverOversold'
    BY <1>2, <1>4, <1>5, NeverOversoldMeans DEF IInv, Holders
  <1>16. SignInv'
    <2>. SUFFICES ASSUME NEW s \in Requests, pc'[s] = "act_sign"
                  PROVE  (\/ HasRow(<<job[s].lic, job[s].mach>>)
                          \/ lc[job[s].lic].state = "deleted")'
      BY DEF SignInv
    <2>1. s # r /\ pc[s] = "act_sign" /\ job'[s] = job[s]
      BY <1>1
    <2>2. job[s].lic \in Licenses
      BY <2>1, JobTypes DEF IInv, SignJob
    <2>. QED
      BY <1>2, <2>1, <2>2 DEF IInv, SignInv, HasRow
  <1>17. IssuedLicenseIsBacked' /\ ActiveRowHasNoReleaser'
    BY <1>2 DEF IInv, TypeOK, IssuedLicenseIsBacked, ActiveRowHasNoReleaser,
                HasRow, Activations
  <1>. QED
    BY <1>6, <1>7, <1>8, <1>9, <1>10, <1>11, <1>12, <1>13, <1>14, <1>15, <1>16, <1>17
    DEF IInv

-----------------------------------------------------------------------------
(* The steps of DeleteLicense.                                             *)

LEMMA DeleteStartStep ==
    ASSUME IInv, NEW r \in Requests, NEW l \in Licenses, DeleteStart(r, l)
    PROVE  IInv'
  <1>. DEFINE j == [lic |-> l, todo |-> {}, gone |-> {},
                    purchases |-> 0, extensions |-> lc[l].extensions]
  <1>. USE DEF tables, locks
  <1>1. /\ pc[r] = "idle" /\ lc[l].state # "unborn"
        /\ Start(r, "del_begun", j)
        /\ UNCHANGED <<tables, locks, issued, now>>
    BY DEF DeleteStart
  <1>2. /\ pc'[r] = "del_begun" /\ job'[r] = j
        /\ \A s \in Requests \ {r} : pc'[s] = pc[s] /\ job'[s] = job[s]
    BY <1>1, StartMoves DEF IInv
  <1>3. TypeOK'
    <2>1. j \in JobsAt("del_begun")
      BY StepKinds DEF IInv, TypeOK, LicenseRow, DeleteJob, DeletePcs
    <2>. QED
      BY <1>1, <2>1, StartTypes, StepKinds DEF IInv, TypeOK, DeletePcs
  <1>4. LicenseLockInv'
    BY <1>1, <1>2 DEF IInv, LicenseLockInv, InsideActivate
  <1>5. RowLockInv'
    BY <1>1, <1>2 DEF IInv, RowLockInv, MayHoldRow, HasRow, InsideActivate, DeletePcs
  <1>6. FoundRowInv'
    BY <1>1, <1>2 DEF IInv, FoundRowInv, InsideActivate
  <1>7. DeleteBegunInv' /\ DeleteInv'
    <2>. SUFFICES ASSUME NEW s \in Requests, pc'[s] \in DeletePcs
                  PROVE  (/\ lc[job[s].lic].state # "unborn"
                          /\ Live(job[s].lic) =>
                                /\ \A m \in job[s].todo : HasRow(<<job[s].lic, m>>)
                                /\ \A m \in job[s].gone : actLock[<<job[s].lic, m>>] = s)'
      BY DEF DeleteBegunInv, DeleteInv
    <2>1. CASE s = r
      BY <1>1, <1>2, <2>1 DEF HasRow
    <2>2. CASE s # r
      BY <1>1, <1>2, <2>2 DEF IInv, DeleteBegunInv, DeleteInv, HasRow, Live
    <2>. QED
      BY <2>1, <2>2
  <1>8. SeatStaysFree'
    BY <1>1, <1>2 DEF IInv, SeatStaysFree, Holders
  <1>9. CapacityInv' /\ NoOrphanActivation'
    BY <1>1 DEF IInv, CapacityInv, NoOrphanActivation, HasRow, Live
  <1>10. ReadsStayTrue'
    BY <1>1, <1>2 DEF IInv, ReadsStayTrue, Live, InsideActivate
  <1>11. SeatsNeverOversold'
    BY <1>1 DEF IInv, SeatsNeverOversold, Seats!NeverOversold, Holders
  <1>12. SignInv'
    BY <1>1, <1>2 DEF IInv, SignInv, HasRow
  <1>13. IssuedLicenseIsBacked' /\ ActiveRowHasNoReleaser'
    BY <1>1 DEF IInv, IssuedLicenseIsBacked, ActiveRowHasNoReleaser, HasRow
  <1>. QED
    BY <1>3, <1>4, <1>5, <1>6, <1>7, <1>8, <1>9, <1>10, <1>11, <1>12, <1>13 DEF IInv

LEMMA DeleteRowStep ==
    ASSUME IInv, NEW r \in Requests, DeleteRow(r)
    PROVE  IInv'
  <1>. DEFINE l == job[r].lic
  <1>. USE DEF tables
  <1>1. PICK m \in job[r].todo :
           /\ pc[r] = "del_rows" /\ actLock[<<l, m>>] = Null
           /\ actLock' = [actLock EXCEPT ![<<l, m>>] = IF HasRow(<<l, m>>) THEN r ELSE Null]
           /\ job' = [job EXCEPT ![r].todo = @ \ {m}, ![r].gone = @ \cup {m}]
    BY DEF DeleteRow, ActivationRowFree
  <1>. DEFINE i == <<l, m>>
  <1>2. UNCHANGED <<productActive, lc, act, lcLock, pc, issued, now>>
    BY DEF DeleteRow
  <1>3. /\ job[r] \in DeleteJob /\ m \in Machines /\ i \in Activations
        /\ pc[r] \in DeletePcs /\ pc[r] \notin InsideActivate
        /\ pc[r] # "act_write" /\ pc[r] # "act_sign"
    BY <1>1, JobTypes DEF IInv, DeleteJob, DeletePcs, InsideActivate, Activations
  <1>4. /\ DOMAIN job' = Requests
        /\ job'[r] \in DeleteJob /\ job'[r].lic = l
        /\ job'[r].todo = job[r].todo \ {m} /\ job'[r].gone = job[r].gone \cup {m}
        /\ \A s \in Requests \ {r} : job'[s] = job[s]
    BY <1>1, <1>3 DEF IInv, TypeOK, DeleteJob
  <1>5. i = <<job[r].lic, m>> /\ i[1] = job[r].lic /\ i[2] = m
    OBVIOUS
  <1>6. actLock' = [actLock EXCEPT ![i] = IF HasRow(i) THEN r ELSE Null] /\ actLock[i] = Null
    BY <1>1
  <1>. HIDE DEF i
  <1>7. \A k \in Activations, s \in Requests :
           actLock'[k] = s <=>
               \/ actLock[k] = s /\ k # i
               \/ k = i /\ s = r /\ HasRow(i)
    BY <1>3, <1>6, ConstantsAssumption DEF IInv, TypeOK
  <1>8. TypeOK'
    <2>1. \A s \in Requests : job'[s] \in JobsAt(pc'[s])
      BY <1>2, <1>3, <1>4, StepKinds DEF IInv, TypeOK
    <2>2. actLock' \in [Activations -> Requests \cup {Null}]
      BY <1>6 DEF IInv, TypeOK
    <2>. QED
      BY <1>2, <1>4, <2>1, <2>2 DEF IInv, TypeOK
  <1>9. LicenseLockInv'
    BY <1>2, <1>3, <1>4 DEF IInv, LicenseLockInv
  <1>10. RowLockInv'
    <2>. SUFFICES ASSUME NEW k \in Activations, NEW s \in Requests, actLock'[k] = s
                  PROVE  (MayHoldRow(s, k) /\ HasRow(k))'
      BY DEF RowLockInv
    <2>1. CASE k = i /\ s = r /\ HasRow(i)
      BY <1>2, <1>3, <1>4, <1>5, <2>1 DEF MayHoldRow, HasRow
    <2>2. CASE actLock[k] = s
      BY <1>2, <1>3, <1>4, <2>2 DEF IInv, RowLockInv, MayHoldRow, HasRow
    <2>. QED
      BY <1>7, <2>1, <2>2
  <1>11. FoundRowInv'
    <2>. SUFFICES ASSUME NEW s \in Requests, (pc[s] \in InsideActivate \ {"act_row"})'
                  PROVE  (/\ job[s].found # "NONE" => actLock[<<job[s].lic, job[s].mach>>] = s
                          /\ (job[s].found = "ACTIVE") <=> (pc[s] = "act_reuse"))'
      BY DEF FoundRowInv
    <2>1. s # r /\ pc[s] \in InsideActivate \ {"act_row"} /\ job'[s] = job[s]
      BY <1>2, <1>3, <1>4
    <2>2. <<job[s].lic, job[s].mach>> \in Activations /\ s # Null
      BY <2>1, JobTypes, ConstantsAssumption DEF IInv, ActivatePcs, ActivateJob, Activations
    <2>. QED
      BY <1>2, <1>6, <1>7, <2>1, <2>2 DEF IInv, FoundRowInv
  <1>12. DeleteBegunInv'
    BY <1>2, <1>4 DEF IInv, DeleteBegunInv
  <1>13. DeleteInv'
    <2>. SUFFICES ASSUME NEW s \in Requests, (pc[s] \in DeletePcs /\ Live(job[s].lic))'
                  PROVE  (/\ \A x \in job[s].todo : HasRow(<<job[s].lic, x>>)
                          /\ \A x \in job[s].gone : actLock[<<job[s].lic, x>>] = s)'
      BY DEF DeleteInv
    <2>1. job'[s].lic = job[s].lic /\ pc[s] \in DeletePcs /\ Live(job[s].lic)
      BY <1>2, <1>4 DEF Live
    <2>2. /\ job[s].gone \subseteq Machines /\ job[s].lic \in Licenses
          /\ \A x \in Machines : <<job[s].lic, x>> \in Activations
      BY <2>1, JobTypes DEF IInv, DeleteJob, Activations
    <2>3. /\ \A x \in job[s].todo : HasRow(<<job[s].lic, x>>)
          /\ \A x \in job[s].gone : actLock[<<job[s].lic, x>>] = s
      BY <2>1 DEF IInv, DeleteInv
    <2>4. s # Null
      BY ConstantsAssumption
    <2>5. CASE s = r
      <3>1. HasRow(i)
        BY <1>1, <1>5, <2>3, <2>5
      <3>2. \A x \in job[r].gone \cup {m} : actLock'[<<job[r].lic, x>>] = r
        BY <1>3, <1>5, <1>6, <1>7, <2>2, <2>3, <2>4, <2>5, <3>1
      <3>. QED
        BY <1>2, <1>4, <2>1, <2>3, <2>5, <3>2 DEF HasRow
    <2>6. CASE s # r
      BY <1>2, <1>4, <1>6, <1>7, <2>2, <2>3, <2>4, <2>6 DEF HasRow
    <2>. QED
      BY <2>5, <2>6
  <1>14. SeatStaysFree'
    BY <1>2, <1>3, <1>4 DEF IInv, SeatStaysFree, Holders
  <1>15. CapacityInv' /\ NoOrphanActivation'
    BY <1>2 DEF IInv, CapacityInv, NoOrphanActivation, HasRow, Live
  <1>16. ReadsStayTrue'
    BY <1>2, <1>3, <1>4 DEF IInv, ReadsStayTrue, Live
  <1>17. SeatsNeverOversold'
    BY <1>2 DEF IInv, SeatsNeverOversold, Seats!NeverOversold, Holders
  <1>18. SignInv'
    BY <1>2, <1>3, <1>4 DEF IInv, SignInv, HasRow
  <1>19. IssuedLicenseIsBacked' /\ ActiveRowHasNoReleaser'
    BY <1>2 DEF IInv, IssuedLicenseIsBacked, ActiveRowHasNoReleaser, HasRow
  <1>. QED
    BY <1>8, <1>9, <1>10, <1>11, <1>12, <1>13, <1>14, <1>15, <1>16, <1>17, <1>18, <1>19
    DEF IInv

(* A step of DeleteLicense that locks nothing and changes no table.        *)
LEMMA DeleteMovesOn ==
    ASSUME IInv, NEW r \in Requests, NEW p \in DeletePcs, NEW j \in DeleteJob,
           pc[r] \in DeletePcs, j.lic = job[r].lic, j.gone = job[r].gone,
           Live(j.lic) => \A m \in j.todo : HasRow(<<j.lic, m>>),
           Start(r, p, j), UNCHANGED <<tables, locks, issued, now>>
    PROVE  IInv'
  <1>. USE DEF tables, locks
  <1>1. /\ pc'[r] = p /\ job'[r] = j
        /\ \A s \in Requests \ {r} : pc'[s] = pc[s] /\ job'[s] = job[s]
    BY StartMoves DEF IInv
  <1>2. TypeOK'
    BY StartTypes, StepKinds DEF IInv, TypeOK
  <1>3. /\ {p, pc[r]} \subseteq DeletePcs
        /\ {p, pc[r]} \cap (InsideActivate \cup {"act_write", "act_sign"}) = {}
    BY DEF InsideActivate, DeletePcs
  <1>. HIDE DEF DeletePcs, InsideActivate
  <1>4. LicenseLockInv'
    BY <1>1, <1>3 DEF IInv, LicenseLockInv
  <1>5. RowLockInv'
    BY <1>1, <1>3 DEF IInv, RowLockInv, MayHoldRow, HasRow
  <1>6. FoundRowInv'
    BY <1>1, <1>3 DEF IInv, FoundRowInv
  <1>7. DeleteBegunInv' /\ DeleteInv'
    BY <1>1, <1>3 DEF IInv, DeleteBegunInv, DeleteInv, HasRow, Live
  <1>8. SeatStaysFree'
    BY <1>1, <1>3 DEF IInv, SeatStaysFree, Holders
  <1>9. CapacityInv' /\ NoOrphanActivation'
    BY DEF IInv, CapacityInv, NoOrphanActivation, HasRow, Live
  <1>10. ReadsStayTrue'
    BY <1>1, <1>3 DEF IInv, ReadsStayTrue, Live
  <1>11. SeatsNeverOversold'
    BY DEF IInv, SeatsNeverOversold, Seats!NeverOversold, Holders
  <1>12. SignInv'
    BY <1>1, <1>3 DEF IInv, SignInv, HasRow
  <1>13. IssuedLicenseIsBacked' /\ ActiveRowHasNoReleaser'
    BY DEF IInv, IssuedLicenseIsBacked, ActiveRowHasNoReleaser, HasRow
  <1>. QED
    BY <1>2, <1>4, <1>5, <1>6, <1>7, <1>8, <1>9, <1>10, <1>11, <1>12, <1>13 DEF IInv

LEMMA DeleteScanStep ==
    ASSUME IInv, NEW r \in Requests, DeleteScan(r)
    PROVE  IInv'
  <1>. DEFINE j == [job[r] EXCEPT !.todo = {m \in Machines : HasRow(<<job[r].lic, m>>)}]
  <1>1. pc[r] \in DeletePcs /\ "del_rows" \in DeletePcs /\ job[r] \in DeleteJob
    BY JobTypes DEF IInv, DeleteScan, DeletePcs
  <1>2. /\ j \in DeleteJob /\ j.lic = job[r].lic /\ j.gone = job[r].gone
        /\ \A m \in j.todo : HasRow(<<j.lic, m>>)
    BY <1>1 DEF DeleteJob
  <1>3. Start(r, "del_rows", j) /\ UNCHANGED <<tables, locks, issued, now>>
    BY DEF DeleteScan
  <1>. HIDE DEF j
  <1>. QED
    BY <1>1, <1>2, <1>3, DeleteMovesOn

LEMMA DeletePurchasesStep ==
    ASSUME IInv, NEW r \in Requests, DeletePurchases(r)
    PROVE  IInv'
  <1>. DEFINE j == [job[r] EXCEPT !.purchases = lc[job[r].lic].purchases]
  <1>1. /\ pc[r] \in DeletePcs /\ "del_parent" \in DeletePcs /\ job[r] \in DeleteJob
        /\ job[r].todo = {}
    BY JobTypes DEF IInv, DeletePurchases, DeletePcs
  <1>2. /\ j \in DeleteJob /\ j.lic = job[r].lic /\ j.gone = job[r].gone
        /\ j.todo = {}
    BY <1>1 DEF IInv, TypeOK, LicenseRow, DeleteJob
  <1>3. Start(r, "del_parent", j) /\ UNCHANGED <<tables, locks, issued, now>>
    BY DEF DeletePurchases
  <1>. HIDE DEF j
  <1>. QED
    BY <1>1, <1>2, <1>3, DeleteMovesOn

(* The license goes with all its activations: no transaction holds any of  *)
(* them, and no row was left out of the sweep.                             *)
LEMMA DeleteCommitStep ==
    ASSUME IInv, NEW r \in Requests, DeleteCommit(r)
    PROVE  IInv'
  <1>. DEFINE l == job[r].lic
  <1>1. /\ pc[r] = "del_parent" /\ lcLock[l] = Null /\ Live(l)
        /\ \A m \in Machines \ job[r].gone : ~HasRow(<<l, m>>)
        /\ lc' = [lc EXCEPT ![l] = NoLicense("deleted")]
        /\ act' = [i \in Activations |->
                      IF i[1] = l /\ i[2] \in job[r].gone THEN NoActivation ELSE act[i]]
        /\ ReleaseLocks(r)
        /\ UNCHANGED <<productActive, issued, now>>
    BY DEF DeleteCommit, LicenseRowFree, ReferencedByChildren
  <1>2. job[r] \in DeleteJob /\ l \in Licenses /\ l = job[r].lic /\ pc[r] \in DeletePcs
    BY <1>1, JobTypes DEF IInv, DeleteJob, DeletePcs
  <1>a. PICK code \in Codes : Answer(r, code)
    BY CommittedAnswer DEF DeleteCommit
  <1>3. /\ pc'[r] = "answer"
        /\ \A s \in Requests \ {r} : pc'[s] = pc[s] /\ job'[s] = job[s]
    BY <1>a, StartMoves DEF IInv, Answer
  <1>4. /\ \A k \in Licenses, s \in Requests :
              lcLock'[k] = s <=> lcLock[k] = s /\ s # r
        /\ \A k \in Activations, s \in Requests :
              actLock'[k] = s <=> actLock[k] = s /\ s # r
    BY <1>1, ReleaseFrees DEF IInv
  <1>. HIDE DEF l
  <1>5. lc'[l] = NoLicense("deleted") /\ \A k \in Licenses \ {l} : lc'[k] = lc[k]
    BY <1>1, <1>2 DEF IInv, TypeOK
  <1>6. \A k \in Licenses, m \in Machines :
           /\ k # l => act'[<<k, m>>] = act[<<k, m>>]
           /\ k = l => act'[<<k, m>>].status = "NONE"
    BY <1>1, <1>2 DEF Activations, HasRow, NoActivation
  <1>7. \A s \in Requests : pc[s] \in InsideActivate => job[s].lic \in Licenses \ {l}
    <2>. TAKE s \in Requests
    <2>1. pc[s] \in InsideActivate => job[s].lic \in Licenses
      BY JobTypes DEF IInv, ActivatePcs, ActivateJob
    <2>. QED
      BY <1>1, <2>1, ConstantsAssumption DEF IInv, LicenseLockInv
  <1>8. /\ HoldersIn(act', l) = {}
        /\ \A k \in Licenses \ {l} : HoldersIn(act', k) = Holders(k)
    BY <1>2, <1>6 DEF HoldersIn, Holders
  <1>9. NoLicense("deleted") \in LicenseRow /\ NoActivation \in ActivationRow
    BY ConstantsAssumption
    DEF NoLicense, LicenseRow, DateOrNull, NoActivation, ActivationRow, RowStatus, Date
  <1>10. TypeOK'
    <2>1. lc' \in [Licenses -> LicenseRow]
      BY <1>1, <1>9 DEF IInv, TypeOK
    <2>2. act' \in [Activations -> ActivationRow]
      BY <1>1, <1>9 DEF IInv, TypeOK
    <2>. QED
      BY <1>1, <1>a, <2>1, <2>2, AnswerTypes, ReleaseTypes DEF IInv, TypeOK
  <1>11. LicenseLockInv'
    BY <1>3, <1>4 DEF IInv, LicenseLockInv, InsideActivate
  <1>12. RowLockInv'
    <2>. SUFFICES ASSUME NEW k \in Licenses, NEW m \in Machines, NEW s \in Requests,
                         actLock'[<<k, m>>] = s
                  PROVE  (MayHoldRow(s, <<k, m>>) /\ HasRow(<<k, m>>))'
      BY DEF RowLockInv, Activations
    <2>1. /\ actLock[<<k, m>>] = s /\ s # r
          /\ MayHoldRow(s, <<k, m>>) /\ HasRow(<<k, m>>)
      BY <1>4 DEF IInv, RowLockInv, Activations
    <2>2. k # l
      <3>. SUFFICES ASSUME k = l PROVE FALSE
        OBVIOUS
      <3>1. m \in job[r].gone
        BY <1>1, <2>1
      <3>. QED
        BY <1>1, <1>2, <2>1, <3>1 DEF IInv, DeleteInv
    <2>. QED
      BY <1>3, <1>6, <2>1, <2>2 DEF MayHoldRow, HasRow
  <1>13. FoundRowInv'
    <2>. SUFFICES ASSUME NEW s \in Requests, (pc[s] \in InsideActivate \ {"act_row"})'
                  PROVE  (/\ job[s].found # "NONE" => actLock[<<job[s].lic, job[s].mach>>] = s
                          /\ (job[s].found = "ACTIVE") <=> (pc[s] = "act_reuse"))'
      BY DEF FoundRowInv
    <2>1. s # r /\ pc[s] \in InsideActivate \ {"act_row"} /\ job'[s] = job[s]
      BY <1>3 DEF InsideActivate
    <2>2. <<job[s].lic, job[s].mach>> \in Activations
      BY <2>1, JobTypes DEF IInv, ActivatePcs, ActivateJob, Activations
    <2>. QED
      BY <1>3, <1>4, <2>1, <2>2 DEF IInv, FoundRowInv
  <1>14. DeleteBegunInv' /\ DeleteInv'
    <2>. SUFFICES ASSUME NEW s \in Requests, pc'[s] \in DeletePcs
                  PROVE  (/\ lc[job[s].lic].state # "unborn"
                          /\ Live(job[s].lic) =>
                                /\ \A m \in job[s].todo : HasRow(<<job[s].lic, m>>)
                                /\ \A m \in job[s].gone : actLock[<<job[s].lic, m>>] = s)'
      BY DEF DeleteBegunInv, DeleteInv
    <2>1. s # r /\ pc[s] \in DeletePcs /\ job'[s] = job[s]
      BY <1>3 DEF DeletePcs
    <2>2. job[s] \in DeleteJob
      BY <2>1, JobTypes DEF IInv
    <2>3. CASE job[s].lic = l
      BY <1>5, <2>1, <2>3 DEF NoLicense, Live
    <2>4. CASE job[s].lic # l
      <3>1. /\ lc[job[s].lic].state # "unborn"
            /\ Live(job[s].lic) =>
                  /\ \A m \in job[s].todo : HasRow(<<job[s].lic, m>>)
                  /\ \A m \in job[s].gone : actLock[<<job[s].lic, m>>] = s
        BY <2>1 DEF IInv, DeleteBegunInv, DeleteInv
      <3>2. /\ job[s].lic \in Licenses \ {l}
            /\ job[s].todo \subseteq Machines
            /\ \A m \in job[s].gone : <<job[s].lic, m>> \in Activations
        BY <2>2, <2>4 DEF DeleteJob, Activations
      <3>. QED
        BY <1>4, <1>5, <1>6, <2>1, <3>1, <3>2 DEF HasRow, Live
    <2>. QED
      BY <2>3, <2>4
  <1>15. SeatStaysFree'
    BY <1>3, <1>5, <1>7, <1>8 DEF IInv, SeatStaysFree, Holders, InsideActivate
  <1>16. CapacityInv'
    BY <1>5, ConstantsAssumption DEF IInv, CapacityInv, NoLicense, Live
  <1>17. NoOrphanActivation'
    BY <1>5, <1>6 DEF IInv, NoOrphanActivation, HasRow, Live
  <1>18. ReadsStayTrue'
    <2>. SUFFICES ASSUME NEW s \in Requests, (pc[s] \in InsideActivate)'
                  PROVE  (/\ Live(job[s].lic) /\ job[s].max = lc[job[s].lic].max
                          /\ pc[s] \in InsideActivate \ {"act_row"} =>
                                job[s].found = act[<<job[s].lic, job[s].mach>>].status)'
      BY DEF ReadsStayTrue
    <2>1. s # r /\ pc[s] \in InsideActivate /\ pc'[s] = pc[s] /\ job'[s] = job[s]
      BY <1>3 DEF InsideActivate
    <2>2. job[s].lic \in Licenses \ {l} /\ job[s].mach \in Machines
      BY <1>7, <2>1, JobTypes DEF IInv, ActivatePcs, ActivateJob
    <2>. QED
      BY <1>5, <1>6, <2>1, <2>2 DEF IInv, ReadsStayTrue, Live
  <1>19. SeatsNeverOversold'
    <2>1. \A k \in Licenses : Cardinality(Holders(k)) <= lc[k].max
      BY NeverOversoldMeans DEF IInv
    <2>2. ASSUME NEW k \in Licenses
          PROVE  Cardinality(HoldersIn(act', k)) <= lc'[k].max
      <3>1. CASE k = l
        BY <1>5, <1>8, <3>1, FS_EmptySet DEF NoLicense
      <3>2. CASE k # l
        BY <1>5, <1>8, <2>1, <3>2
      <3>. QED
        BY <3>1, <3>2
    <2>. QED
      BY <2>2, NeverOversoldMeans
  <1>20. SignInv'
    <2>. SUFFICES ASSUME NEW s \in Requests, pc'[s] = "act_sign"
                  PROVE  (\/ HasRow(<<job[s].lic, job[s].mach>>)
                          \/ lc[job[s].lic].state = "deleted")'
      BY DEF SignInv
    <2>1. s # r /\ pc[s] = "act_sign" /\ job'[s] = job[s]
      BY <1>3
    <2>2. job[s].lic \in Licenses /\ job[s].mach \in Machines
      BY <2>1, JobTypes DEF IInv, SignJob
    <2>. QED
      BY <1>5, <1>6, <2>1, <2>2 DEF IInv, SignInv, HasRow, NoLicense
  <1>21. IssuedLicenseIsBacked'
    BY <1>1, <1>5, <1>6
    DEF IInv, TypeOK, IssuedLicenseIsBacked, HasRow, NoLicense, Activations
  <1>22. ActiveRowHasNoReleaser'
    BY <1>6 DEF IInv, ActiveRowHasNoReleaser, Activations
  <1>. QED
    BY <1>10, <1>11, <1>12, <1>13, <1>14, <1>15, <1>16, <1>17, <1>18, <1>19,
       <1>20, <1>21, <1>22
    DEF IInv

-----------------------------------------------------------------------------
(* The inductive invariant.                                                *)

LEMMA AnswerStep ==
    ASSUME IInv, NEW r \in Requests, NEW code \in Codes,
           pc[r] \notin InsideActivate \cup DeletePcs,
           Answer(r, code), UNCHANGED <<lc, act, locks, issued>>,
           productActive' \in [Products -> BOOLEAN], now' \in Nat
    PROVE  IInv'
  <1>1. [code |-> code] \in JobsAt("answer")
    BY StepKinds DEF AnswerJob
  <1>2. "answer" \notin InsideActivate \cup DeletePcs \cup {"act_sign"}
    BY DEF InsideActivate, DeletePcs
  <1>. QED
    BY <1>1, <1>2, QuietStep, StepKinds DEF Answer

LEMMA ClockStep ==
    ASSUME IInv, UNCHANGED <<lc, act, locks, request, issued>>,
           productActive' \in [Products -> BOOLEAN], now' \in Nat
    PROVE  IInv'
  <1>. USE DEF locks, request
  <1>1. TypeOK'
    BY DEF IInv, TypeOK
  <1>2. LicenseLockInv' /\ RowLockInv' /\ FoundRowInv'
    BY DEF IInv, LicenseLockInv, RowLockInv, FoundRowInv, MayHoldRow, HasRow
  <1>3. DeleteBegunInv' /\ DeleteInv' /\ SignInv'
    BY DEF IInv, DeleteBegunInv, DeleteInv, SignInv, HasRow, Live
  <1>4. SeatStaysFree' /\ CapacityInv' /\ NoOrphanActivation' /\ ReadsStayTrue'
    BY DEF IInv, SeatStaysFree, CapacityInv, NoOrphanActivation, ReadsStayTrue,
           Holders, HasRow, Live
  <1>5. SeatsNeverOversold'
    BY DEF IInv, SeatsNeverOversold, Seats!NeverOversold, Holders
  <1>6. IssuedLicenseIsBacked' /\ ActiveRowHasNoReleaser'
    BY DEF IInv, IssuedLicenseIsBacked, ActiveRowHasNoReleaser, HasRow
  <1>. QED
    BY <1>1, <1>2, <1>3, <1>4, <1>5, <1>6 DEF IInv

LEMMA InitEstablishes == Init => IInv
  <1>. SUFFICES ASSUME Init PROVE IInv
    OBVIOUS
  <1>1. /\ NoLicense("unborn") \in LicenseRow
        /\ NoActivation \in ActivationRow
        /\ NoJob \in JobsAt("idle")
    <2>1. NoLicense("unborn") \in LicenseRow
      BY ConstantsAssumption DEF NoLicense, LicenseRow, DateOrNull
    <2>2. NoActivation \in ActivationRow
      BY DEF NoActivation, ActivationRow, RowStatus, Date
    <2>3. NoJob \in AnswerJob
      BY DEF NoJob, AnswerJob, Codes
    <2>. QED
      BY <2>1, <2>2, <2>3, StepKinds
  <1>2. TypeOK
    BY <1>1, StepKinds DEF Init, TypeOK
  <1>3. /\ \A r \in Requests : pc[r] \notin InsideActivate \cup DeletePcs \cup {"act_sign"}
        /\ \A r \in Requests : pc[r] # "act_write" /\ r # Null
    BY ConstantsAssumption DEF Init, InsideActivate, DeletePcs
  <1>4. LicenseLockInv /\ RowLockInv /\ FoundRowInv
    BY <1>3 DEF Init, LicenseLockInv, RowLockInv, FoundRowInv
  <1>5. DeleteBegunInv /\ DeleteInv /\ SeatStaysFree /\ ReadsStayTrue /\ SignInv
    BY <1>3 DEF DeleteBegunInv, DeleteInv, SeatStaysFree, ReadsStayTrue, SignInv
  <1>6. CapacityInv /\ NoOrphanActivation /\ IssuedLicenseIsBacked /\ ActiveRowHasNoReleaser
    BY DEF Init, CapacityInv, NoOrphanActivation, IssuedLicenseIsBacked,
           ActiveRowHasNoReleaser, NoLicense, NoActivation, HasRow, Live, Activations
  <1>7. SeatsNeverOversold
    <2>1. \A l \in Licenses : Holders(l) = {} /\ lc[l].max = 0
      BY DEF Init, Holders, HoldersIn, NoActivation, NoLicense, Activations
    <2>. QED
      BY <2>1, FS_EmptySet, NeverOversoldMeans
  <1>. QED
    BY <1>2, <1>4, <1>5, <1>6, <1>7 DEF IInv

(* What an idle request begins.                                            *)
LEMMA BeginStep ==
    ASSUME IInv, NEW r \in Requests, Begin(r)
    PROVE  IInv'
  <1>. USE DEF tables, locks
  <1>. DEFINE Quiet == UNCHANGED <<tables, locks, issued, now>>
  <1>0. /\ productActive \in [Products -> BOOLEAN] /\ now \in Nat
        /\ Codes = {"OK", "NOT_REGISTERED", "QUOTA_EXCEEDED", "INVALID_LICENSE",
                    "NOT_FOUND", "VALIDATION", "INTERNAL"}
        /\ "idle" \notin InsideActivate \cup DeletePcs
        /\ Null \in DateOrNull
    BY DEF IInv, TypeOK, Codes, InsideActivate, DeletePcs, DateOrNull
  <1>1. ASSUME NEW a \in Accounts, NEW m \in Machines, ActivateLookup(r, a, m)
        PROVE  IInv'
    <2>1. PICK l \in Licenses :
             Start(r, "act_lock", [lic |-> l, mach |-> m, due |-> lc[l].due,
                                   max |-> 0, found |-> "NONE", exp |-> 0])
      BY <1>1 DEF ActivateLookup
    <2>2. [lic |-> l, mach |-> m, due |-> lc[l].due, max |-> 0, found |-> "NONE", exp |-> 0]
             \in ActivateJob
      BY ConstantsAssumption DEF IInv, TypeOK, LicenseRow, ActivateJob, RowStatus, Date
    <2>3. /\ "act_lock" \in ActivatePcs
          /\ "act_lock" \notin InsideActivate \cup DeletePcs \cup {"act_sign"}
      BY DEF ActivatePcs, InsideActivate, DeletePcs
    <2>. QED
      BY <1>0, <1>1, <2>1, <2>2, <2>3, QuietStep, StepKinds DEF ActivateLookup
  <1>2. ASSUME NEW a \in Accounts, ActivateUnregistered(r, a) PROVE IInv'
    BY <1>0, <1>2, AnswerStep DEF ActivateUnregistered
  <1>3. ASSUME NEW a \in Accounts, NEW n \in SeatChoices, NEW k \in MonthChoices,
               PurchaseCheck(r, a, n, k)
        PROVE  IInv'
    <2>1. /\ [acc |-> a, seats |-> n, months |-> k] \in PurchaseJob
          /\ "pur_commit" \notin InsideActivate \cup DeletePcs \cup {"act_sign"}
      BY DEF PurchaseJob, InsideActivate, DeletePcs
    <2>. QED
      BY <1>0, <1>3, <2>1, QuietStep, StepKinds DEF PurchaseCheck
  <1>4. ASSUME NEW a \in Accounts, PurchaseNoProduct(r, a) PROVE IInv'
    BY <1>0, <1>4, AnswerStep DEF PurchaseNoProduct
  <1>5. ASSUME NEW i \in Activations, ReleaseNothing(r, i) PROVE IInv'
    BY <1>0, <1>5, AnswerStep DEF ReleaseNothing
  <1>6. ASSUME NEW i \in Activations, Deactivate(r, i) PROVE IInv'
    <2>1. act[i].by \in Admins \cup {Null}
      BY DEF IInv, TypeOK, ActivationRow
    <2>. QED
      BY <1>5, <1>6, <2>1, ReleaseSeatStep DEF Deactivate
  <1>7. ASSUME NEW i \in Activations, NEW adm \in Admins, ForceDeactivate(r, i, adm)
        PROVE  IInv'
    BY <1>5, <1>7, ReleaseSeatStep DEF ForceDeactivate
  <1>8. ASSUME NEW l \in Licenses, NEW k \in MonthChoices, ExtendSubscription(r, l, k)
        PROVE  IInv'
    <2>. DEFINE due == ExtensionBase(lc[l].due) + k * Month
                row == [lc[l] EXCEPT !.due = due, !.extensions = @ + 1]
    <2>1. due \in Nat
      <3>1. ExtensionBase(lc[l].due) \in Nat
        BY <1>0 DEF IInv, TypeOK, LicenseRow, DateOrNull, ExtensionBase
      <3>2. k * Month \in Nat
        BY ConstantsAssumption
      <3>. QED
        BY <3>1, <3>2
    <2>2. /\ row \in LicenseRow /\ row.max = lc[l].max /\ row.state = "live"
          /\ row.max >= lc[l].max
      BY <1>8, <2>1, ConstantsAssumption
      DEF IInv, TypeOK, LicenseRow, DateOrNull, ExtendSubscription, Live
    <2>3. lc' = [lc EXCEPT ![l] = row]
      BY <1>8 DEF ExtendSubscription, IInv, TypeOK
    <2>. QED
      BY <1>0, <1>8, <2>2, <2>3, LicenseWriteStep
      DEF ExtendSubscription, LicenseRowFree, Live
  <1>9. ASSUME NEW l \in Licenses, ExtendMissing(r, l) PROVE IInv'
    BY <1>0, <1>9, AnswerStep DEF ExtendMissing
  <1>10. ASSUME NEW p \in Products, NEW aktif \in BOOLEAN, SetProductStatus(r, p, aktif)
         PROVE  IInv'
    <2>1. productActive' \in [Products -> BOOLEAN]
      BY <1>0, <1>10 DEF SetProductStatus
    <2>. QED
      BY <1>0, <1>10, <2>1, CommittedAnswer, AnswerStep DEF SetProductStatus
  <1>11. ASSUME NEW code \in {"INVALID_LICENSE", "VALIDATION"}, Reject(r, code) PROVE IInv'
    BY <1>0, <1>11, AnswerStep DEF Reject
  <1>. QED
    BY <1>1, <1>2, <1>3, <1>4, <1>6, <1>7, <1>8, <1>9, <1>10, <1>11, DeleteStartStep
    DEF Begin

(* What a request in flight does next.                                     *)
LEMMA AdvanceStep ==
    ASSUME IInv, NEW r \in Requests, Advance(r)
    PROVE  IInv'
  <1>. USE DEF tables, locks
  <1>0. /\ productActive \in [Products -> BOOLEAN] /\ now \in Nat
        /\ Codes = {"OK", "NOT_REGISTERED", "QUOTA_EXCEEDED", "INVALID_LICENSE",
                    "NOT_FOUND", "VALIDATION", "INTERNAL"}
        /\ "act_lock" \notin InsideActivate \cup DeletePcs
        /\ "pur_commit" \notin InsideActivate \cup DeletePcs
    BY DEF IInv, TypeOK, Codes, InsideActivate, DeletePcs
  <1>1. ASSUME ActivateGone(r) PROVE IInv'
    BY <1>0, <1>1, AnswerStep DEF ActivateGone
  <1>2. ASSUME pc[r] \in {"act_reuse", "act_write"}
        PROVE  /\ job[r].exp \in Date
               /\ <<job[r].lic, job[r].mach>> \in Activations
    BY <1>2, JobTypes DEF IInv, ActivatePcs, InsideActivate, ActivateJob, Activations
  <1>3. ASSUME ActivateReuse(r) PROVE IInv'
    <2>. DEFINE i == <<job[r].lic, job[r].mach>>
                row == RefreshedRow(act[i], job[r].exp)
    <2>1. pc[r] = "act_reuse" /\ job[r].exp \in Date /\ i \in Activations
      BY <1>2, <1>3 DEF ActivateReuse
    <2>2. act[i].status = "ACTIVE" /\ act[i].by = Null
      BY <2>1 DEF IInv, FoundRowInv, ReadsStayTrue, ActiveRowHasNoReleaser, InsideActivate
    <2>3. row \in ActivationRow /\ row.status = "ACTIVE" /\ row.by = Null
      BY <2>1, <2>2 DEF IInv, TypeOK, ActivationRow, RefreshedRow
    <2>4. act' = [act EXCEPT ![i] = row]
      BY <1>3 DEF ActivateReuse
    <2>. QED
      BY <1>3, <2>1, <2>3, <2>4, CommitStep DEF ActivateReuse
  <1>4. ASSUME ActivateWrite(r) PROVE IInv'
    <2>. DEFINE i == <<job[r].lic, job[r].mach>>
                row == GrantedRow(act[i], job[r].exp)
    <2>1. pc[r] = "act_write" /\ job[r].exp \in Date /\ i \in Activations
      BY <1>2, <1>4 DEF ActivateWrite
    <2>2. row \in ActivationRow /\ row.status = "ACTIVE" /\ row.by = Null
      BY <2>1 DEF ActivationRow, RowStatus, GrantedRow
    <2>3. act' = [act EXCEPT ![i] = row]
      BY <1>4 DEF ActivateWrite, CommitSeat
    <2>. QED
      BY <1>4, <2>1, <2>2, <2>3, CommitStep DEF ActivateWrite
  <1>5. ASSUME ActivateRefuse(r) PROVE IInv'
    BY <1>0, <1>5, RollbackStep DEF ActivateRefuse
  <1>6. ASSUME pc[r] = "pur_commit"
        PROVE  job[r].seats \in 1..MaxInt4 /\ job[r].months \in Nat
    BY <1>6, JobTypes, ConstantsAssumption DEF IInv, PurchaseJob
  <1>7. ASSUME PurchaseAddSeats(r) PROVE IInv'
    <2>1. PICK l \in Licenses :
             /\ Registered(job[r].acc, l) /\ LicenseRowFree(l)
             /\ FitsInt4(lc[l].max + job[r].seats)
             /\ lc' = [lc EXCEPT ![l].max = @ + job[r].seats, ![l].purchases = @ + 1]
      BY <1>7 DEF PurchaseAddSeats
    <2>. DEFINE row == [lc[l] EXCEPT !.max = @ + job[r].seats, !.purchases = @ + 1]
    <2>2. lc[l] \in LicenseRow /\ lc[l].state = "live" /\ lcLock[l] = Null
      BY <2>1 DEF IInv, TypeOK, Registered, Live, LicenseRowFree
    <2>3. /\ lc[l].max + job[r].seats \in 0..MaxInt4
          /\ lc[l].max + job[r].seats >= lc[l].max
      BY <1>6, <1>7, <2>1, <2>2, ConstantsAssumption
      DEF PurchaseAddSeats, LicenseRow, FitsInt4
    <2>4. row.state = "live" /\ row.max = lc[l].max + job[r].seats
      BY <2>2 DEF LicenseRow
    <2>5. row \in LicenseRow
      <3>1. ASSUME NEW R \in LicenseRow, NEW n \in 0..MaxInt4, NEW k \in Nat
            PROVE  [R EXCEPT !.max = n, !.purchases = k] \in LicenseRow
        BY DEF LicenseRow
      <3>2. lc[l].purchases + 1 \in Nat
        BY <2>2 DEF LicenseRow
      <3>. QED
        BY <2>2, <2>3, <3>1, <3>2
    <2>6. row.max >= lc[l].max
      BY <2>3, <2>4
    <2>7. lc' = [lc EXCEPT ![l] = row]
      BY <2>1 DEF IInv, TypeOK
    <2>. HIDE DEF row
    <2>. QED
      BY <1>0, <1>7, <2>2, <2>4, <2>5, <2>6, <2>7, LicenseWriteStep DEF PurchaseAddSeats
  <1>8. ASSUME PurchaseOverflow(r) PROVE IInv'
    BY <1>0, <1>8, AnswerStep DEF PurchaseOverflow
  <1>9. ASSUME PurchaseCreate(r) PROVE IInv'
    <2>. DEFINE row == NewLicense(job[r].seats, job[r].months)
    <2>1. PICK l \in Licenses : lc[l].state = "unborn" /\ lc' = [lc EXCEPT ![l] = row]
      BY <1>9 DEF PurchaseCreate, LicensesOf
    <2>2. now + job[r].months * Month \in Nat
      <3>1. job[r].months * Month \in Nat
        BY <1>6, <1>9, ConstantsAssumption DEF PurchaseCreate
      <3>. QED
        BY <1>0, <3>1
    <2>3. /\ row \in LicenseRow /\ row.state = "live"
          /\ row.max = job[r].seats /\ row.max \in Nat
      BY <1>6, <1>9, <2>2, ConstantsAssumption
      DEF PurchaseCreate, NewLicense, LicenseRow, DateOrNull
    <2>4. row.max >= lc[l].max
      BY <2>1, <2>3 DEF IInv, CapacityInv, Live
    <2>5. lcLock[l] = Null
      <3>1. lcLock[l] \in Requests \cup {Null}
        BY DEF IInv, TypeOK
      <3>. QED
        BY <2>1, <3>1 DEF IInv, LicenseLockInv, ReadsStayTrue, Live
    <2>. QED
      BY <1>0, <1>9, <2>1, <2>3, <2>4, <2>5, LicenseWriteStep DEF PurchaseCreate
  <1>10. ASSUME DeleteRefused(r) PROVE IInv'
    BY <1>0, <1>10, RollbackStep DEF DeleteRefused
  <1>. QED
    BY <1>1, <1>3, <1>4, <1>5, <1>7, <1>8, <1>9, <1>10, ActivateLockStep,
       ActivateFindRowStep, ActivateCountStep, ActivateSignStep, DeleteScanStep,
       DeleteRowStep, DeletePurchasesStep, DeleteCommitStep
    DEF Advance

(* Every step preserves the invariant.                                     *)
THEOREM StepPreserves == IInv /\ [Next]_vars => IInv'
  <1>. SUFFICES ASSUME IInv, [Next]_vars PROVE IInv'
    OBVIOUS
  <1>0. productActive \in [Products -> BOOLEAN] /\ now \in Nat
    BY DEF IInv, TypeOK
  <1>1. ASSUME NEW r \in Requests, Fail(r) PROVE IInv'
    <2>1. "INTERNAL" \in Codes
      BY DEF Codes
    <2>. QED
      BY <1>1, <2>1, RollbackStep DEF Fail
  <1>2. ASSUME NEW r \in Requests, Respond(r) PROVE IInv'
    <2>1. /\ NoJob \in JobsAt("idle")
          /\ {"idle", "answer"} \cap (InsideActivate \cup DeletePcs \cup {"act_sign"}) = {}
      BY StepKinds DEF NoJob, AnswerJob, Codes, InsideActivate, DeletePcs
    <2>. QED
      BY <1>0, <1>2, <2>1, QuietStep, StepKinds DEF Respond, tables
  <1>3. CASE Tick
    BY <1>0, <1>3, ClockStep DEF Tick, tables
  <1>4. CASE UNCHANGED vars
    BY <1>0, <1>4, ClockStep DEF vars, locks, request
  <1>. QED
    BY <1>1, <1>2, <1>3, <1>4, BeginStep, AdvanceStep DEF Next

THEOREM Invariance == Spec => []IInv
  <1>. QED
    BY InitEstablishes, StepPreserves, PTL DEF Spec
==============================================================================

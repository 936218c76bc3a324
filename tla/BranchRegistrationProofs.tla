----------------------- MODULE BranchRegistrationProofs -----------------------
(***************************************************************************)
(* Proofs about BranchRegistration, for any number of licenses, branches   *)
(* and requests and any quotas.                                            *)
(*                                                                         *)
(* The inductive invariant is split by request: a step of one request that *)
(* changes no table leaves the others as they are (RequestMoves), and only *)
(* the four steps that change a table are looked at from the side of every *)
(* request.  Then what it yields: the properties, and the refinements of   *)
(* SeatQuota and of AtomicBranches.                                        *)
(***************************************************************************)
EXTENDS BranchRegistration, FiniteSetTheorems, TLAPS

(* What the invariant says of one request: the locks it holds, ...         *)
LocksInv(r) ==
    /\ \A l \in Licenses :
          lcLock[l] = r <=> pc[r] \in InsideRegister /\ job[r].lic = l /\ Live(l)
    /\ \A i \in BranchRows : brLock[i] = r => MayHoldRow(r, i) /\ HasRow(i)

(* ... what it found inside Register, ...                                  *)
RegisterInv(r) ==
    /\ pc[r] \in InsideRegister \ {"reg_row"} =>
          /\ job[r].found = br[<<job[r].lic, job[r].code>>].status
          /\ job[r].found # "NONE" => brLock[<<job[r].lic, job[r].code>>] = r
          /\ (job[r].found = "ACTIVE") <=> (pc[r] = "reg_reuse")
    /\ pc[r] \in RegisterPcs /\ Live(job[r].lic) => job[r].max <= peak[job[r].lic]
    /\ pc[r] = "reg_write" => job[r].count < job[r].max
    /\ pc[r] = "reg_write" /\ Live(job[r].lic) =>
          Cardinality(Holders(job[r].lic)) <= job[r].count

(* ... and what it swept inside DeleteLicense.                             *)
SweepInv(r) ==
    pc[r] \in DeletePcs /\ Live(job[r].lic) =>
        /\ \A b \in job[r].todo : HasRow(<<job[r].lic, b>>)
        /\ \A b \in job[r].gone : brLock[<<job[r].lic, b>>] = r

RequestInv(r) ==
    /\ LocksInv(r)
    /\ RegisterInv(r)
    /\ SweepInv(r)
    /\ pc[r] \in RegisterPcs \cup DeletePcs => lc[job[r].lic].state # "unborn"

(* What it says of the tables alone.                                       *)
TablesInv ==
    /\ PeakInv
    /\ NoOrphanBranch
    /\ \A l \in Licenses : Cardinality(Holders(l)) <= peak[l]
    /\ ActiveBranchHasNoReleaser

(* The Cardinality that SeatQuota imports is the one imported here.        *)
LEMMA SameCardinality == \A S : Slots!Cardinality(S) = Cardinality(S)
  BY DEF Slots!Cardinality, Cardinality, Slots!IsFiniteSet, IsFiniteSet

LEMMA IInvByRequest ==
    IInv <=> TypeOK /\ TablesInv /\ \A r \in Requests : RequestInv(r)
  <1>1. LicenseLockInv /\ RowLockInv <=> \A r \in Requests : LocksInv(r)
    BY DEF LicenseLockInv, RowLockInv, LocksInv
  <1>2. FoundRowInv /\ QuotaReadInv /\ CountStaysTrue
           <=> \A r \in Requests : RegisterInv(r)
    <2>1. "reg_write" \in InsideRegister \ {"reg_row"}
      BY DEF InsideRegister
    <2>. QED
      BY <2>1 DEF FoundRowInv, QuotaReadInv, CountStaysTrue, RegisterInv
  <1>3. DeleteInv <=> \A r \in Requests : SweepInv(r)
    BY DEF DeleteInv, SweepInv
  <1>4. ActiveWithinPeak <=> \A l \in Licenses : Cardinality(Holders(l)) <= peak[l]
    BY SameCardinality DEF ActiveWithinPeak, Slots!NeverOversold
  <1>5. (\A r \in Requests : RequestInv(r))
           <=> /\ LicenseLockInv /\ RowLockInv
               /\ FoundRowInv /\ QuotaReadInv /\ CountStaysTrue
               /\ DeleteInv /\ BegunInv
    BY <1>1, <1>2, <1>3 DEF RequestInv, BegunInv
  <1>. QED
    BY <1>4, <1>5 DEF IInv, TablesInv

LEMMA InvariantByRequest ==
    /\ IInv <=> TypeOK /\ TablesInv /\ \A r \in Requests : RequestInv(r)
    /\ IInv' <=> TypeOK' /\ TablesInv' /\ \A r \in Requests : RequestInv(r)'
  <1>. DEFINE RequestsInv == \A r \in Requests : RequestInv(r)
  <1>1. IInv <=> TypeOK /\ TablesInv /\ RequestsInv
    BY IInvByRequest
  <1>2. RequestsInv' <=> \A r \in Requests : RequestInv(r)'
    OBVIOUS
  <1>. HIDE DEF RequestsInv
  <1>3. IInv' <=> TypeOK' /\ TablesInv' /\ RequestsInv'
    BY <1>1, PTL
  <1>. QED
    BY <1>2, <1>3, IInvByRequest

-----------------------------------------------------------------------------
(* Types and locks.                                                        *)

LEMMA StepKinds ==
    /\ \A p \in RegisterPcs : p \in Pcs /\ JobsAt(p) = RegisterJob
    /\ \A p \in DeletePcs : p \in Pcs /\ JobsAt(p) = DeleteJob
    /\ "rel_update" \in Pcs /\ JobsAt("rel_update") = ReleaseJob
    /\ "count" \in Pcs /\ JobsAt("count") = CountJob
    /\ "idle" \in Pcs /\ JobsAt("idle") = AnswerJob
    /\ "answer" \in Pcs /\ JobsAt("answer") = AnswerJob
  BY DEF Pcs, JobsAt, RegisterPcs, InsideRegister, DeletePcs

LEMMA Phases ==
    /\ InsideRegister \subseteq RegisterPcs
    /\ RegisterPcs \cap DeletePcs = {}
    /\ {"idle", "answer", "count", "rel_update"} \cap (RegisterPcs \cup DeletePcs) = {}
  BY DEF RegisterPcs, InsideRegister, DeletePcs

(* What the type of a request's record is at each of its steps.            *)
LEMMA JobTypes ==
    ASSUME TypeOK, NEW r \in Requests
    PROVE  /\ pc[r] \in RegisterPcs =>
                 job[r] \in RegisterJob /\ <<job[r].lic, job[r].code>> \in BranchRows
           /\ pc[r] = "rel_update" =>
                 job[r] \in ReleaseJob /\ <<job[r].lic, job[r].code>> \in BranchRows
           /\ pc[r] = "count" => job[r] \in CountJob
           /\ pc[r] \in DeletePcs =>
                 /\ job[r] \in DeleteJob
                 /\ \A b \in Branches : <<job[r].lic, b>> \in BranchRows
  <1>1. pc[r] \in Pcs /\ job[r] \in JobsAt(pc[r])
    BY DEF TypeOK
  <1>2. /\ pc[r] \in RegisterPcs => job[r] \in RegisterJob
        /\ pc[r] = "rel_update" => job[r] \in ReleaseJob
        /\ pc[r] = "count" => job[r] \in CountJob
        /\ pc[r] \in DeletePcs => job[r] \in DeleteJob
    BY <1>1, StepKinds
  <1>. QED
    BY <1>2 DEF RegisterJob, ReleaseJob, DeleteJob, BranchRows

(* A request's record has the type of the step it is about to take, and    *)
(* moving one request leaves those of the others alone.                    *)
LEMMA StartMoves ==
    ASSUME TypeOK, NEW r \in Requests, NEW p \in Pcs, NEW j \in JobsAt(p), Start(r, p, j)
    PROVE  /\ pc' \in [Requests -> Pcs]
           /\ DOMAIN job' = Requests
           /\ \A s \in Requests : job'[s] \in JobsAt(pc'[s])
           /\ pc'[r] = p /\ job'[r] = j
           /\ \A s \in Requests \ {r} : pc'[s] = pc[s] /\ job'[s] = job[s]
  BY DEF TypeOK, Start

LEMMA AnswerJobs == \A code \in Codes : [code |-> code] \in JobsAt("answer")
  BY StepKinds DEF AnswerJob

(* A commit is answered with one of the codes.                             *)
LEMMA CommittedAnswer ==
    ASSUME NEW r \in Requests, AnswerCommitted(r)
    PROVE  \E code \in Codes : Answer(r, code)
  BY DEF AnswerCommitted, Codes

(* The end of a transaction gives up its own locks and no others.          *)
LEMMA ReleaseFrees ==
    ASSUME TypeOK, NEW r \in Requests, ReleaseLocks(r)
    PROVE  /\ lcLock' \in [Licenses -> Requests \cup {Null}]
           /\ brLock' \in [BranchRows -> Requests \cup {Null}]
           /\ \A l \in Licenses, s \in Requests :
                 lcLock'[l] = s <=> lcLock[l] = s /\ s # r
           /\ \A i \in BranchRows, s \in Requests :
                 brLock'[i] = s <=> brLock[i] = s /\ s # r
  BY BranchConstantsAssumption DEF TypeOK, ReleaseLocks

(* A lock statement gives one free row to r or to nobody.                  *)
LEMMA RowTaken ==
    ASSUME TypeOK, NEW r \in Requests, NEW i \in BranchRows, brLock[i] = Null,
           brLock' = [brLock EXCEPT ![i] = IF HasRow(i) THEN r ELSE Null]
    PROVE  /\ brLock' \in [BranchRows -> Requests \cup {Null}]
           /\ \A k \in BranchRows, s \in Requests :
                 brLock'[k] = s <=> brLock[k] = s \/ (k = i /\ s = r /\ HasRow(i))
  BY BranchConstantsAssumption DEF TypeOK

(* The branches that hold a slot are finitely many.                        *)
LEMMA HoldersFinite ==
    \A l \in Licenses :
        /\ IsFiniteSet(Holders(l))
        /\ Cardinality(Holders(l)) \in 0..Cardinality(Branches)
  <1>. TAKE l \in Licenses
  <1>1. Holders(l) \subseteq Branches
    BY DEF Holders, HoldersIn
  <1>. QED
    BY <1>1, BranchConstantsAssumption, FS_Subset, FS_CardinalityType

-----------------------------------------------------------------------------
(* Steps that change no table.                                             *)

(* The tables and the locks of the others as they were: only r is to be    *)
(* looked at.                                                              *)
LEMMA RequestMoves ==
    ASSUME IInv, NEW r \in Requests, UNCHANGED <<lc, br, peak>>,
           \A s \in Requests \ {r} :
               /\ pc'[s] = pc[s] /\ job'[s] = job[s]
               /\ \A l \in Licenses : lcLock'[l] = s <=> lcLock[l] = s
               /\ \A i \in BranchRows : brLock'[i] = s <=> brLock[i] = s,
           TypeOK', RequestInv(r)'
    PROVE  IInv'
  <1>1. TypeOK /\ TablesInv /\ \A s \in Requests : RequestInv(s)
    BY InvariantByRequest
  <1>2. ASSUME NEW s \in Requests \ {r} PROVE RequestInv(s)'
    <2>1. /\ pc'[s] = pc[s] /\ job'[s] = job[s] /\ RequestInv(s)
          /\ \A l \in Licenses : lcLock'[l] = s <=> lcLock[l] = s
          /\ \A i \in BranchRows : brLock'[i] = s <=> brLock[i] = s
      BY <1>1
    <2>2. LocksInv(s)'
      BY <2>1 DEF RequestInv, LocksInv, MayHoldRow, HasRow, Live
    <2>3. RegisterInv(s)'
      <3>1. pc[s] \in InsideRegister => <<job[s].lic, job[s].code>> \in BranchRows
        BY <1>1, JobTypes, Phases
      <3>. QED
        BY <2>1, <3>1 DEF RequestInv, RegisterInv, Live, Holders
    <2>4. SweepInv(s)'
      <3>1. pc[s] \in DeletePcs => \A b \in job[s].gone : <<job[s].lic, b>> \in BranchRows
        BY <1>1, JobTypes DEF DeleteJob
      <3>. QED
        BY <2>1, <3>1 DEF RequestInv, SweepInv, Live, HasRow
    <2>. QED
      BY <2>1, <2>2, <2>3, <2>4 DEF RequestInv
  <1>3. TablesInv'
    BY <1>1 DEF TablesInv, PeakInv, NoOrphanBranch, ActiveBranchHasNoReleaser,
                Live, HasRow, Holders
  <1>. QED
    BY <1>2, <1>3, InvariantByRequest

(* A request outside any transaction moves to a step that is outside one   *)
(* as well.  What products are active does not matter.                     *)
LEMMA QuietStep ==
    ASSUME IInv, NEW r \in Requests, NEW p \in Pcs, NEW j \in JobsAt(p),
           pc[r] \notin InsideRegister \cup DeletePcs,
           p \notin InsideRegister \cup DeletePcs,
           p = "reg_lock" => Live(j.lic) /\ j.max <= peak[j.lic],
           Start(r, p, j), UNCHANGED <<lc, br, locks, peak>>,
           productActive' \in [Products -> BOOLEAN]
    PROVE  IInv'
  <1>. USE DEF locks
  <1>1. TypeOK /\ RequestInv(r)
    BY InvariantByRequest
  <1>2. /\ pc'[r] = p /\ job'[r] = j
        /\ \A s \in Requests \ {r} : pc'[s] = pc[s] /\ job'[s] = job[s]
    BY <1>1, StartMoves
  <1>3. TypeOK'
    BY <1>1, StartMoves DEF TypeOK
  <1>4. RequestInv(r)'
    <2>1. LocksInv(r)'
      BY <1>1, <1>2 DEF RequestInv, LocksInv, MayHoldRow
    <2>2. RegisterInv(r)' /\ SweepInv(r)'
      BY <1>2 DEF RegisterInv, SweepInv, RegisterPcs, InsideRegister
    <2>3. p \in RegisterPcs \cup DeletePcs => lc[j.lic].state # "unborn"
      BY DEF RegisterPcs, Live
    <2>. QED
      BY <1>2, <2>1, <2>2, <2>3 DEF RequestInv
  <1>. QED
    BY <1>2, <1>3, <1>4, RequestMoves

LEMMA AnswerStep ==
    ASSUME IInv, NEW r \in Requests, NEW code \in Codes,
           pc[r] \notin InsideRegister \cup DeletePcs,
           Answer(r, code), UNCHANGED <<lc, br, locks, peak>>,
           productActive' \in [Products -> BOOLEAN]
    PROVE  IInv'
  BY AnswerJobs, StepKinds, Phases, QuietStep DEF Answer

(* A transaction ends without having changed a slot, from any point of it. *)
LEMMA EndStep ==
    ASSUME IInv, NEW r \in Requests, NEW p \in {"answer", "count"}, NEW j \in JobsAt(p),
           ReleaseLocks(r), Start(r, p, j), UNCHANGED tables
    PROVE  IInv'
  <1>. USE DEF tables
  <1>1. TypeOK /\ p \in Pcs /\ p \notin RegisterPcs \cup InsideRegister \cup DeletePcs
    BY InvariantByRequest, StepKinds, Phases
  <1>2. /\ pc'[r] = p
        /\ \A s \in Requests \ {r} : pc'[s] = pc[s] /\ job'[s] = job[s]
    BY <1>1, StartMoves
  <1>3. TypeOK'
    BY <1>1, StartMoves, ReleaseFrees DEF TypeOK
  <1>4. RequestInv(r)'
    <2>1. LocksInv(r)'
      BY <1>1, <1>2, ReleaseFrees DEF LocksInv
    <2>2. RegisterInv(r)' /\ SweepInv(r)'
      BY <1>1, <1>2 DEF RegisterInv, SweepInv, RegisterPcs, InsideRegister
    <2>. QED
      BY <1>1, <1>2, <2>1, <2>2 DEF RequestInv
  <1>. QED
    BY <1>1, <1>2, <1>3, <1>4, ReleaseFrees, RequestMoves

LEMMA RollbackStep ==
    ASSUME IInv, NEW r \in Requests, NEW code \in Codes,
           ReleaseLocks(r), Answer(r, code), UNCHANGED tables
    PROVE  IInv'
  BY AnswerJobs, EndStep DEF Answer

-----------------------------------------------------------------------------
(* The steps of Register up to its write.                                  *)

LEMMA RegisterLockStep ==
    ASSUME IInv, NEW r \in Requests, RegisterLock(r)
    PROVE  IInv'
  <1>. DEFINE l == job[r].lic
  <1>1. TypeOK /\ RequestInv(r)
    BY InvariantByRequest
  <1>2. /\ pc[r] = "reg_lock" /\ pc[r] \in RegisterPcs /\ pc[r] \notin DeletePcs
        /\ "reg_row" \in InsideRegister /\ "reg_row" \in RegisterPcs
        /\ "reg_row" \notin DeletePcs /\ pc[r] \notin InsideRegister
    BY DEF RegisterLock, RegisterPcs, InsideRegister, DeletePcs
  <1>3. job[r] \in RegisterJob /\ l \in Licenses
    BY <1>1, <1>2, JobTypes DEF RegisterJob
  <1>4. /\ pc'[r] = "reg_row" /\ job'[r] = job[r]
        /\ \A s \in Requests \ {r} : pc'[s] = pc[s] /\ job'[s] = job[s]
        /\ pc' \in [Requests -> Pcs] /\ DOMAIN job' = Requests
        /\ \A s \in Requests : job'[s] \in JobsAt(pc'[s])
    BY <1>1, <1>2, <1>3, StartMoves, StepKinds DEF RegisterLock
  <1>5. /\ lcLock[l] = Null /\ lcLock' = [lcLock EXCEPT ![l] = IF Live(l) THEN r ELSE Null]
        /\ UNCHANGED <<productActive, lc, br, peak, brLock>>
    BY DEF RegisterLock, LicenseRowFree, tables
  <1>6. /\ lcLock' \in [Licenses -> Requests \cup {Null}]
        /\ \A k \in Licenses, s \in Requests :
              lcLock'[k] = s <=> lcLock[k] = s \/ (k = l /\ s = r /\ Live(l))
    BY <1>1, <1>3, <1>5, BranchConstantsAssumption DEF TypeOK
  <1>7. TypeOK'
    BY <1>1, <1>4, <1>5, <1>6 DEF TypeOK
  <1>8. RequestInv(r)'
    <2>1. LocksInv(r)'
      BY <1>1, <1>2, <1>3, <1>4, <1>5, <1>6
      DEF RequestInv, LocksInv, MayHoldRow, HasRow, Live
    <2>2. RegisterInv(r)' /\ SweepInv(r)'
      BY <1>1, <1>2, <1>4, <1>5
      DEF RequestInv, RegisterInv, SweepInv, InsideRegister, Live
    <2>. QED
      BY <1>1, <1>2, <1>4, <1>5, <2>1, <2>2 DEF RequestInv
  <1>. QED
    BY <1>4, <1>5, <1>6, <1>7, <1>8, RequestMoves

LEMMA RegisterFindRowStep ==
    ASSUME IInv, NEW r \in Requests, RegisterFindRow(r)
    PROVE  IInv'
  <1>. DEFINE i == <<job[r].lic, job[r].code>>
              p == IF IsReuse(br[i].status) THEN "reg_reuse" ELSE "reg_count"
              j == [job[r] EXCEPT !.found = br[i].status]
  <1>1. TypeOK /\ RequestInv(r)
    BY InvariantByRequest
  <1>2. /\ pc[r] = "reg_row" /\ pc[r] \in InsideRegister /\ pc[r] \in RegisterPcs
        /\ pc[r] \notin DeletePcs /\ p # "reg_write"
        /\ p \in InsideRegister \ {"reg_row"} /\ p \in RegisterPcs /\ p \notin DeletePcs
        /\ p = "reg_reuse" <=> br[i].status = "ACTIVE"
    BY DEF RegisterFindRow, RegisterPcs, InsideRegister, DeletePcs, IsReuse
  <1>3. job[r] \in RegisterJob /\ i \in BranchRows /\ i = <<job[r].lic, job[r].code>>
    BY <1>1, <1>2, JobTypes
  <1>4. /\ j \in RegisterJob /\ j.lic = job[r].lic /\ j.code = job[r].code
        /\ j.max = job[r].max /\ j.found = br[i].status
    BY <1>1, <1>3 DEF TypeOK, BranchRow, RegisterJob
  <1>5. /\ brLock[i] = Null /\ brLock' = [brLock EXCEPT ![i] = IF HasRow(i) THEN r ELSE Null]
        /\ Start(r, p, j)
        /\ UNCHANGED <<productActive, lc, br, peak, lcLock>>
    BY DEF RegisterFindRow, BranchRowFree, tables
  <1>. HIDE DEF i, p, j
  <1>6. /\ pc'[r] = p /\ job'[r] = j
        /\ \A s \in Requests \ {r} : pc'[s] = pc[s] /\ job'[s] = job[s]
        /\ pc' \in [Requests -> Pcs] /\ DOMAIN job' = Requests
        /\ \A s \in Requests : job'[s] \in JobsAt(pc'[s])
    BY <1>1, <1>2, <1>4, <1>5, StartMoves, StepKinds
  <1>7. /\ brLock' \in [BranchRows -> Requests \cup {Null}]
        /\ \A k \in BranchRows, s \in Requests :
              brLock'[k] = s <=> brLock[k] = s \/ (k = i /\ s = r /\ HasRow(i))
    <2>1. /\ TypeOK /\ i \in BranchRows /\ brLock[i] = Null
          /\ brLock' = [brLock EXCEPT ![i] = IF HasRow(i) THEN r ELSE Null]
      BY <1>1, <1>3, <1>5
    <2>. QED
      BY ONLY <2>1, RowTaken, BranchConstantsAssumption, r \in Requests
  <1>8. TypeOK'
    BY <1>1, <1>5, <1>6, <1>7 DEF TypeOK
  <1>9. RequestInv(r)'
    <2>1. LocksInv(r)'
      BY <1>1, <1>2, <1>3, <1>4, <1>5, <1>6, <1>7
      DEF RequestInv, LocksInv, MayHoldRow, HasRow, Live
    <2>2. RegisterInv(r)'
      BY <1>1, <1>2, <1>3, <1>4, <1>5, <1>6, <1>7
      DEF RequestInv, RegisterInv, HasRow, Live
    <2>3. SweepInv(r)'
      BY <1>2, <1>6 DEF SweepInv
    <2>. QED
      BY <1>1, <1>2, <1>4, <1>5, <1>6, <2>1, <2>2, <2>3 DEF RequestInv
  <1>. QED
    BY <1>5, <1>6, <1>7, <1>8, <1>9, RequestMoves

LEMMA RegisterCountStep ==
    ASSUME IInv, NEW r \in Requests, RegisterCount(r)
    PROVE  IInv'
  <1>. DEFINE taken == Cardinality(Holders(job[r].lic))
              j == [job[r] EXCEPT !.count = taken]
  <1>1. TypeOK /\ RequestInv(r)
    BY InvariantByRequest
  <1>2. /\ pc[r] = "reg_count" /\ pc[r] \in InsideRegister \ {"reg_row"}
        /\ pc[r] \in RegisterPcs /\ pc[r] # "reg_reuse" /\ pc[r] \notin DeletePcs
        /\ "reg_write" \in InsideRegister \ {"reg_row"} /\ "reg_write" \in RegisterPcs
        /\ "reg_write" \notin DeletePcs
    BY DEF RegisterCount, RegisterPcs, InsideRegister, DeletePcs
  <1>3. /\ job[r] \in RegisterJob /\ job[r].lic \in Licenses
        /\ taken \in 0..Cardinality(Branches) /\ taken < job[r].max
    BY <1>1, <1>2, JobTypes, HoldersFinite DEF RegisterJob, RegisterCount, HasFreeSlot
  <1>4. /\ j \in RegisterJob /\ j.lic = job[r].lic /\ j.code = job[r].code
        /\ j.max = job[r].max /\ j.found = job[r].found /\ j.count = taken
    BY <1>3 DEF RegisterJob
  <1>5. /\ Start(r, "reg_write", j)
        /\ UNCHANGED <<productActive, lc, br, peak, lcLock, brLock>>
    BY DEF RegisterCount, tables, locks
  <1>. HIDE DEF j
  <1>6. /\ pc'[r] = "reg_write" /\ job'[r] = j
        /\ \A s \in Requests \ {r} : pc'[s] = pc[s] /\ job'[s] = job[s]
        /\ pc' \in [Requests -> Pcs] /\ DOMAIN job' = Requests
        /\ \A s \in Requests : job'[s] \in JobsAt(pc'[s])
    BY <1>1, <1>2, <1>4, <1>5, StartMoves, StepKinds
  <1>7. TypeOK'
    BY <1>1, <1>5, <1>6 DEF TypeOK
  <1>8. RequestInv(r)'
    <2>1. LocksInv(r)'
      BY <1>1, <1>2, <1>4, <1>5, <1>6 DEF RequestInv, LocksInv, MayHoldRow, HasRow, Live
    <2>2. RegisterInv(r)'
      <3>1. HoldersIn(br', job'[r].lic) = Holders(job[r].lic)
        BY <1>4, <1>5, <1>6 DEF Holders
      <3>2. /\ job'[r].count = taken /\ taken \in Nat /\ taken <= taken
            /\ job'[r].count < job'[r].max
        BY <1>3, <1>4, <1>6
      <3>3. Cardinality(Holders(job[r].lic))' <= job'[r].count
        BY <3>1, <3>2 DEF Holders
      <3>. QED
        BY <1>1, <1>2, <1>4, <1>5, <1>6, <3>2, <3>3 DEF RequestInv, RegisterInv, Live
    <2>3. SweepInv(r)'
      BY <1>2, <1>6 DEF SweepInv
    <2>. QED
      BY <1>1, <1>2, <1>4, <1>5, <1>6, <2>1, <2>2, <2>3 DEF RequestInv
  <1>. QED
    BY <1>5, <1>6, <1>7, <1>8, RequestMoves

-----------------------------------------------------------------------------
(* The steps of DeleteLicense up to its commit.                            *)

LEMMA DeleteStartStep ==
    ASSUME IInv, NEW r \in Requests, NEW l \in Licenses, DeleteStart(r, l)
    PROVE  IInv'
  <1>. DEFINE j == [lic |-> l, todo |-> {b \in Branches : HasRow(<<l, b>>)}, gone |-> {}]
  <1>1. TypeOK /\ RequestInv(r)
    BY InvariantByRequest
  <1>2. /\ pc[r] = "idle" /\ lc[l].state # "unborn"
        /\ "del_rows" \in DeletePcs /\ "del_rows" \notin RegisterPcs \cup InsideRegister
        /\ pc[r] \notin InsideRegister \cup DeletePcs
    BY DEF DeleteStart, DeletePcs, RegisterPcs, InsideRegister
  <1>3. j \in JobsAt("del_rows")
    BY <1>2, StepKinds DEF DeleteJob
  <1>4. /\ Start(r, "del_rows", j)
        /\ UNCHANGED <<productActive, lc, br, peak, lcLock, brLock>>
    BY DEF DeleteStart, tables, locks
  <1>5. /\ j.lic = l /\ j.gone = {} /\ \A b \in j.todo : HasRow(<<l, b>>)
    OBVIOUS
  <1>. HIDE DEF j
  <1>6. /\ pc'[r] = "del_rows" /\ job'[r] = j
        /\ \A s \in Requests \ {r} : pc'[s] = pc[s] /\ job'[s] = job[s]
        /\ pc' \in [Requests -> Pcs] /\ DOMAIN job' = Requests
        /\ \A s \in Requests : job'[s] \in JobsAt(pc'[s])
    BY <1>1, <1>2, <1>3, <1>4, StartMoves, StepKinds
  <1>7. TypeOK'
    BY <1>1, <1>4, <1>6 DEF TypeOK
  <1>8. RequestInv(r)'
    <2>1. LocksInv(r)'
      BY <1>1, <1>2, <1>4, <1>6 DEF RequestInv, LocksInv, MayHoldRow, InsideRegister
    <2>2. RegisterInv(r)'
      BY <1>2, <1>6 DEF RegisterInv, RegisterPcs, InsideRegister
    <2>3. SweepInv(r)'
      BY <1>4, <1>5, <1>6 DEF SweepInv, HasRow
    <2>. QED
      BY <1>2, <1>4, <1>5, <1>6, <2>1, <2>2, <2>3 DEF RequestInv
  <1>. QED
    BY <1>4, <1>6, <1>7, <1>8, RequestMoves

LEMMA DeleteRowStep ==
    ASSUME IInv, NEW r \in Requests, DeleteRow(r)
    PROVE  IInv'
  <1>. DEFINE l == job[r].lic
  <1>1. TypeOK /\ RequestInv(r)
    BY InvariantByRequest
  <1>2. PICK b \in job[r].todo :
           /\ brLock[<<l, b>>] = Null
           /\ brLock' = [brLock EXCEPT ![<<l, b>>] = IF HasRow(<<l, b>>) THEN r ELSE Null]
           /\ job' = [job EXCEPT ![r].todo = @ \ {b}, ![r].gone = @ \cup {b}]
    BY DEF DeleteRow, BranchRowFree
  <1>3. UNCHANGED <<productActive, lc, br, peak, lcLock, pc>>
    BY DEF DeleteRow, tables
  <1>4. /\ pc[r] = "del_rows" /\ pc[r] \in DeletePcs
        /\ pc[r] \notin InsideRegister \cup RegisterPcs
    BY DEF DeleteRow, DeletePcs, RegisterPcs, InsideRegister
  <1>5. /\ job[r] \in DeleteJob /\ b \in Branches
        /\ \A x \in Branches : <<l, x>> \in BranchRows
    BY <1>1, <1>2, <1>4, JobTypes DEF DeleteJob
  <1>6. /\ DOMAIN job' = Requests
        /\ job'[r] \in DeleteJob /\ job'[r].lic = l
        /\ job'[r].todo = job[r].todo \ {b} /\ job'[r].gone = job[r].gone \cup {b}
        /\ \A s \in Requests \ {r} : job'[s] = job[s]
    BY <1>1, <1>2, <1>5 DEF TypeOK, DeleteJob
  <1>. DEFINE i == <<l, b>>
  <1>7. i = <<job[r].lic, b>> /\ i[1] = job[r].lic /\ i[2] = b /\ i \in BranchRows
    BY <1>5
  <1>8. /\ brLock' \in [BranchRows -> Requests \cup {Null}]
        /\ \A k \in BranchRows, s \in Requests :
              brLock'[k] = s <=> brLock[k] = s \/ (k = i /\ s = r /\ HasRow(i))
    BY <1>1, <1>2, <1>7, RowTaken
  <1>. HIDE DEF i
  <1>9. TypeOK'
    BY <1>1, <1>3, <1>4, <1>6, <1>8, StepKinds DEF TypeOK
  <1>10. RequestInv(r)'
    <2>1. LocksInv(r)'
      BY <1>1, <1>3, <1>4, <1>6, <1>7, <1>8
      DEF RequestInv, LocksInv, MayHoldRow, HasRow, Live
    <2>2. RegisterInv(r)'
      BY <1>3, <1>4 DEF RegisterInv, InsideRegister, RegisterPcs
    <2>3. SweepInv(r)'
      <3>. SUFFICES ASSUME Live(l)
                    PROVE  /\ \A x \in job'[r].todo : HasRow(<<l, x>>)'
                           /\ \A x \in job'[r].gone : brLock'[<<l, x>>] = r
        BY <1>3, <1>6 DEF SweepInv, Live
      <3>1. /\ \A x \in job[r].todo : HasRow(<<l, x>>)
            /\ \A x \in job[r].gone : brLock[<<l, x>>] = r
        BY <1>1, <1>4 DEF RequestInv, SweepInv
      <3>2. HasRow(i) /\ job[r].gone \subseteq Branches
        BY <1>5, <1>7, <3>1 DEF DeleteJob
      <3>. QED
        BY <1>3, <1>5, <1>6, <1>7, <1>8, <3>1, <3>2 DEF HasRow
    <2>. QED
      BY <1>1, <1>3, <1>4, <1>6, <2>1, <2>2, <2>3 DEF RequestInv
  <1>. QED
    BY <1>3, <1>6, <1>8, <1>9, <1>10, RequestMoves

LEMMA DeleteSweptStep ==
    ASSUME IInv, NEW r \in Requests, DeleteSwept(r)
    PROVE  IInv'
  <1>1. TypeOK /\ RequestInv(r)
    BY InvariantByRequest
  <1>2. /\ {pc[r], "del_parent"} \subseteq DeletePcs
        /\ {pc[r], "del_parent"} \cap (InsideRegister \cup RegisterPcs) = {}
        /\ "reg_write" \in RegisterPcs
    BY DEF DeleteSwept, DeletePcs, RegisterPcs, InsideRegister
  <1>3. job[r] \in DeleteJob
    BY <1>1, <1>2, JobTypes
  <1>4. /\ Start(r, "del_parent", job[r])
        /\ UNCHANGED <<productActive, lc, br, peak, lcLock, brLock>>
    BY DEF DeleteSwept, tables, locks
  <1>5. /\ pc'[r] = "del_parent" /\ job'[r] = job[r]
        /\ \A s \in Requests \ {r} : pc'[s] = pc[s] /\ job'[s] = job[s]
        /\ pc' \in [Requests -> Pcs] /\ DOMAIN job' = Requests
        /\ \A s \in Requests : job'[s] \in JobsAt(pc'[s])
    BY <1>1, <1>2, <1>3, <1>4, StartMoves, StepKinds
  <1>6. TypeOK'
    BY <1>1, <1>4, <1>5 DEF TypeOK
  <1>7. RequestInv(r)'
    BY <1>1, <1>2, <1>4, <1>5
    DEF RequestInv, LocksInv, RegisterInv, SweepInv, MayHoldRow, HasRow, Live
  <1>. QED
    BY <1>4, <1>5, <1>6, <1>7, RequestMoves

-----------------------------------------------------------------------------
(* The steps that change a table.                                          *)

LEMMA AtMostTransitive ==
    \A x, y, z \in Nat : x <= y /\ y <= z => x <= z
  OBVIOUS

(* Writing one row of branches changes who holds a slot at most by that    *)
(* row's branch.                                                           *)
LEMMA OneRowWritten ==
    ASSUME TypeOK, NEW l \in Licenses, NEW b \in Branches, NEW row,
           br' = [br EXCEPT ![<<l, b>>] = row]
    PROVE  /\ row.status = "ACTIVE" => HoldersIn(br', l) = Holders(l) \cup {b}
           /\ row.status # "ACTIVE" => HoldersIn(br', l) = Holders(l) \ {b}
           /\ \A k \in Licenses \ {l} : HoldersIn(br', k) = Holders(k)
  <1>1. \A k \in Licenses, x \in Branches :
           br'[<<k, x>>] = IF k = l /\ x = b THEN row ELSE br[<<k, x>>]
    BY DEF TypeOK, BranchRows
  <1>. QED
    BY <1>1 DEF Holders, HoldersIn

(* While a request is inside Register with a license that is live, no      *)
(* other request is.                                                       *)
LEMMA RegisterExcludes ==
    ASSUME IInv, NEW r \in Requests, NEW s \in Requests,
           pc[r] \in InsideRegister, pc[s] \in InsideRegister,
           job[r].lic = job[s].lic, Live(job[r].lic)
    PROVE  r = s
  <1>1. TypeOK /\ RequestInv(r) /\ RequestInv(s) /\ job[r].lic \in Licenses
    BY InvariantByRequest, JobTypes, Phases DEF RegisterJob
  <1>. QED
    BY <1>1 DEF RequestInv, LocksInv

(* The count made under the license's lock still bounds the slots taken,   *)
(* so the write of Register leaves no more than the quota it read.         *)
LEMMA WriteWithinPeak ==
    ASSUME IInv, NEW r \in Requests, pc[r] = "reg_write", Live(job[r].lic)
    PROVE  /\ job[r].lic \in Licenses /\ job[r].code \in Branches
           /\ job[r].code \notin Holders(job[r].lic)
           /\ Cardinality(Holders(job[r].lic)) < peak[job[r].lic]
  <1>1. TypeOK /\ RequestInv(r)
    BY InvariantByRequest
  <1>2. pc[r] \in RegisterPcs /\ pc[r] \in InsideRegister \ {"reg_row"}
    BY DEF RegisterPcs, InsideRegister
  <1>3. /\ job[r] \in RegisterJob /\ job[r].lic \in Licenses /\ job[r].code \in Branches
        /\ job[r].count \in Nat /\ job[r].max \in Nat
        /\ Cardinality(Holders(job[r].lic)) \in Nat
    <2>1. Cardinality(Branches) \in Nat
      BY BranchConstantsAssumption, FS_CardinalityType
    <2>2. job[r] \in RegisterJob
      BY <1>1, <1>2, JobTypes
    <2>3. /\ job[r].lic \in Licenses /\ job[r].code \in Branches
          /\ job[r].count \in 0..Cardinality(Branches) /\ job[r].max \in 0..MaxQuota
      BY <2>2 DEF RegisterJob, Quota
    <2>4. Cardinality(Holders(job[r].lic)) \in 0..Cardinality(Branches)
      BY <2>3, HoldersFinite
    <2>. QED
      BY <2>1, <2>2, <2>3, <2>4, BranchConstantsAssumption
  <1>4. /\ Cardinality(Holders(job[r].lic)) <= job[r].count
        /\ job[r].count < job[r].max /\ job[r].max <= peak[job[r].lic]
        /\ br[<<job[r].lic, job[r].code>>].status # "ACTIVE"
    BY <1>1, <1>2 DEF RequestInv, RegisterInv
  <1>5. peak[job[r].lic] \in Nat
    BY <1>1, <1>3, BranchConstantsAssumption DEF TypeOK, Quota
  <1>6. Cardinality(Holders(job[r].lic)) < peak[job[r].lic]
    BY <1>3, <1>4, <1>5
  <1>. QED
    BY <1>3, <1>4, <1>6 DEF Holders, HoldersIn

LEMMA RegisterWriteStep ==
    ASSUME IInv, NEW r \in Requests, RegisterWrite(r)
    PROVE  IInv'
  <1>. DEFINE l == job[r].lic
              b == job[r].code
              row == GrantedRow(br[<<l, b>>])
  <1>1. TypeOK /\ TablesInv /\ \A s \in Requests : RequestInv(s)
    BY InvariantByRequest
  <1>2. /\ pc[r] = "reg_write" /\ pc[r] \in InsideRegister /\ pc[r] \notin DeletePcs
        /\ "answer" \notin RegisterPcs \cup InsideRegister \cup DeletePcs
        /\ "reg_write" \in RegisterPcs
    BY DEF RegisterWrite, RegisterPcs, InsideRegister, DeletePcs
  <1>3. /\ Live(l) /\ l \in Licenses /\ b \in Branches /\ b \notin Holders(l)
        /\ Cardinality(Holders(l)) < peak[l] /\ l = job[r].lic /\ b = job[r].code
    BY <1>2, WriteWithinPeak DEF RegisterWrite, ParentExists
  <1>4. row \in BranchRow /\ row.status = "ACTIVE" /\ row.by = Null
    BY DEF GrantedRow, BranchRow, RowStatus
  <1>5. /\ br' = [br EXCEPT ![<<l, b>>] = row]
        /\ ReleaseLocks(r) /\ UNCHANGED <<productActive, lc, peak>>
    BY DEF RegisterWrite, IInv, TypeOK
  <1>a. PICK code \in Codes : Answer(r, code)
    BY CommittedAnswer DEF RegisterWrite
  <1>. HIDE DEF l, b, row
  <1>6. /\ pc'[r] = "answer"
        /\ \A s \in Requests \ {r} : pc'[s] = pc[s] /\ job'[s] = job[s]
        /\ pc' \in [Requests -> Pcs] /\ DOMAIN job' = Requests
        /\ \A s \in Requests : job'[s] \in JobsAt(pc'[s])
    BY <1>1, <1>a, StartMoves, StepKinds, AnswerJobs DEF Answer
  <1>7. /\ HoldersIn(br', l) = Holders(l) \cup {b}
        /\ \A k \in Licenses \ {l} : HoldersIn(br', k) = Holders(k)
    BY <1>1, <1>3, <1>4, <1>5, OneRowWritten
  <1>8. \A k \in Licenses, x \in Branches :
           br'[<<k, x>>] = IF k = l /\ x = b THEN row ELSE br[<<k, x>>]
    BY <1>1, <1>3, <1>5 DEF TypeOK, BranchRows
  <1>9. TypeOK'
    <2>1. br' \in [BranchRows -> BranchRow]
      BY <1>1, <1>4, <1>5 DEF TypeOK
    <2>. QED
      BY <1>1, <1>5, <1>6, <2>1, ReleaseFrees DEF TypeOK
  <1>10. TablesInv'
    <2>1. ASSUME NEW k \in Licenses PROVE Cardinality(HoldersIn(br', k)) <= peak'[k]
      <3>1. CASE k = l
        <4>1. IsFiniteSet(Holders(l)) /\ Cardinality(Holders(l)) \in Nat
          BY <1>3, HoldersFinite, FS_CardinalityType
        <4>2. Cardinality(HoldersIn(br', l)) = Cardinality(Holders(l)) + 1
          BY <1>3, <1>7, <4>1, FS_AddElement
        <4>3. peak[l] \in Nat
          BY <1>1, <1>3, BranchConstantsAssumption DEF TypeOK, Quota
        <4>. QED
          BY <1>3, <1>5, <3>1, <4>1, <4>2, <4>3
      <3>2. CASE k # l
        BY <1>1, <1>5, <1>7, <3>2 DEF TablesInv
      <3>. QED
        BY <3>1, <3>2
    <2>2. PeakInv'
      BY <1>1, <1>5 DEF TablesInv, PeakInv, Live
    <2>3. NoOrphanBranch'
      BY <1>1, <1>3, <1>5, <1>8 DEF TablesInv, NoOrphanBranch, HasRow, Live
    <2>4. ActiveBranchHasNoReleaser'
      BY <1>1, <1>4, <1>8 DEF TablesInv, ActiveBranchHasNoReleaser, BranchRows
    <2>. QED
      BY <2>1, <2>2, <2>3, <2>4 DEF TablesInv, Holders
  <1>11. ASSUME NEW s \in Requests PROVE RequestInv(s)'
    <2>1. LocksInv(s)'
      <3>1. \A k \in Licenses :
               (lcLock[k] = s <=> pc[s] \in InsideRegister /\ job[s].lic = k /\ Live(k))'
        BY <1>1, <1>2, <1>5, <1>6, ReleaseFrees DEF RequestInv, LocksInv, Live
      <3>2. ASSUME NEW k \in Licenses, NEW x \in Branches, brLock'[<<k, x>>] = s
            PROVE  (MayHoldRow(s, <<k, x>>) /\ HasRow(<<k, x>>))'
        <4>1. <<k, x>> \in BranchRows
          BY DEF BranchRows
        <4>2. s # r /\ MayHoldRow(s, <<k, x>>) /\ HasRow(<<k, x>>)
          BY <1>1, <1>5, <3>2, <4>1, ReleaseFrees DEF RequestInv, LocksInv
        <4>. QED
          BY <1>4, <1>6, <1>8, <4>2 DEF MayHoldRow, HasRow
      <3>. QED
        BY <3>1, <3>2 DEF LocksInv, BranchRows
    <2>2. CASE s = r
      BY <1>2, <1>6, <2>1, <2>2 DEF RequestInv, RegisterInv, SweepInv
    <2>3. CASE s # r
      <3>1. /\ pc'[s] = pc[s] /\ job'[s] = job[s] /\ RequestInv(s)
            /\ \A k \in BranchRows : brLock'[k] = s <=> brLock[k] = s
        BY <1>1, <1>5, <1>6, <2>3, ReleaseFrees
      <3>2. RegisterInv(s)'
        <4>1. pc[s] \in RegisterPcs =>
                 /\ job[s].lic \in Licenses /\ job[s].code \in Branches
                 /\ <<job[s].lic, job[s].code>> \in BranchRows
          BY <1>1, JobTypes DEF RegisterJob
        <4>2. pc[s] \in InsideRegister => job[s].lic # l
          BY <1>2, <1>3, <2>3, RegisterExcludes
        <4>3. InsideRegister \subseteq RegisterPcs /\ "reg_write" \in InsideRegister
          BY DEF InsideRegister, RegisterPcs
        <4>. QED
          BY <1>5, <1>7, <1>8, <3>1, <4>1, <4>2, <4>3
          DEF RequestInv, RegisterInv, Live, Holders
      <3>3. SweepInv(s)'
        <4>1. pc[s] \in DeletePcs =>
                 /\ job[s].lic \in Licenses /\ job[s].todo \subseteq Branches
                 /\ \A x \in job[s].gone : <<job[s].lic, x>> \in BranchRows
          BY <1>1, JobTypes DEF DeleteJob
        <4>. QED
          BY <1>4, <1>5, <1>8, <3>1, <4>1 DEF RequestInv, SweepInv, Live, HasRow
      <3>. QED
        BY <1>5, <2>1, <3>1, <3>2, <3>3 DEF RequestInv
    <2>. QED
      BY <2>2, <2>3
  <1>. QED
    BY <1>9, <1>10, <1>11, InvariantByRequest

(* A slot is given back, by the customer or by an admin.                   *)
LEMMA FreeSlotStep ==
    ASSUME IInv, NEW r \in Requests, NEW i \in BranchRows,
           NEW by \in Admins \cup {Null}, FreeSlot(i, by),
           pc[r] \notin InsideRegister \cup DeletePcs,
           NEW p \in {"answer", "count"}, NEW j \in JobsAt(p), Start(r, p, j)
    PROVE  IInv'
  <1>. DEFINE row == [br[i] EXCEPT !.status = "DEACTIVATED", !.by = by]
  <1>1. TypeOK /\ TablesInv /\ \A s \in Requests : RequestInv(s)
    BY InvariantByRequest
  <1>2. p \in Pcs /\ p \notin RegisterPcs \cup InsideRegister \cup DeletePcs
    BY StepKinds, Phases
  <1>3. /\ br[i].status = "ACTIVE" /\ brLock[i] = Null
        /\ br' = [br EXCEPT ![i] = row]
        /\ UNCHANGED <<productActive, lc, lcLock, brLock, peak>>
    BY <1>1 DEF TypeOK, FreeSlot, BranchRowFree, locks
  <1>4. row \in BranchRow /\ row.status = "DEACTIVATED"
    BY <1>1 DEF TypeOK, BranchRow, RowStatus
  <1>. HIDE DEF row
  <1>5. /\ pc'[r] = p
        /\ \A s \in Requests \ {r} : pc'[s] = pc[s] /\ job'[s] = job[s]
        /\ pc' \in [Requests -> Pcs] /\ DOMAIN job' = Requests
        /\ \A s \in Requests : job'[s] \in JobsAt(pc'[s])
    BY <1>1, <1>2, StartMoves
  <1>6. br'[i] = row /\ \A k \in BranchRows \ {i} : br'[k] = br[k]
    BY <1>1, <1>3 DEF TypeOK
  <1>7. \A k \in BranchRows : HasRow(k) <=> br'[k].status # "NONE"
    BY <1>3, <1>4, <1>6 DEF HasRow
  <1>8. \A k \in Licenses : Cardinality(HoldersIn(br', k)) <= Cardinality(Holders(k))
    <2>. TAKE k \in Licenses
    <2>1. HoldersIn(br', k) \subseteq Holders(k)
      BY <1>4, <1>6 DEF HoldersIn, Holders, BranchRows
    <2>. QED
      BY <2>1, HoldersFinite, FS_Subset
  <1>9. \A k \in Licenses : /\ Cardinality(HoldersIn(br', k)) \in Nat
                            /\ Cardinality(Holders(k)) \in Nat
    <2>. TAKE k \in Licenses
    <2>1. HoldersIn(br', k) \subseteq Branches
      BY DEF HoldersIn
    <2>. QED
      BY <2>1, HoldersFinite, BranchConstantsAssumption, FS_Subset, FS_CardinalityType
  <1>10. TypeOK'
    BY <1>1, <1>3, <1>4, <1>5 DEF TypeOK
  <1>11. TablesInv'
    <2>1. ASSUME NEW k \in Licenses PROVE Cardinality(HoldersIn(br', k)) <= peak'[k]
      <3>1. peak[k] \in Nat /\ Cardinality(Holders(k)) <= peak[k]
        BY <1>1, BranchConstantsAssumption DEF TypeOK, TablesInv, Quota
      <3>. QED
        BY <1>3, <1>8, <1>9, <3>1, AtMostTransitive
    <2>2. PeakInv' /\ NoOrphanBranch'
      BY <1>1, <1>3, <1>7 DEF TablesInv, PeakInv, NoOrphanBranch, HasRow, Live, BranchRows
    <2>3. ActiveBranchHasNoReleaser'
      BY <1>1, <1>4, <1>6 DEF TablesInv, ActiveBranchHasNoReleaser
    <2>. QED
      BY <2>1, <2>2, <2>3 DEF TablesInv, Holders
  <1>12. ASSUME NEW s \in Requests PROVE RequestInv(s)'
    <2>1. LocksInv(s)'
      BY <1>1, <1>2, <1>3, <1>5, <1>7 DEF RequestInv, LocksInv, MayHoldRow, HasRow, Live
    <2>2. CASE s = r
      BY <1>2, <1>5, <2>1, <2>2
      DEF RequestInv, RegisterInv, SweepInv, RegisterPcs, InsideRegister
    <2>3. CASE s # r
      <3>1. pc'[s] = pc[s] /\ job'[s] = job[s] /\ RequestInv(s)
        BY <1>1, <1>5, <2>3
      <3>2. RegisterInv(s)'
        <4>1. pc[s] \in RegisterPcs =>
                 /\ job[s].lic \in Licenses /\ job[s].count \in Nat
                 /\ <<job[s].lic, job[s].code>> \in BranchRows
          <5>1. Cardinality(Branches) \in Nat
            BY BranchConstantsAssumption, FS_CardinalityType
          <5>. QED
            BY <1>1, <5>1, JobTypes DEF RegisterJob
        <4>2. /\ InsideRegister \subseteq RegisterPcs
              /\ "reg_write" \in InsideRegister \ {"reg_row"}
          BY DEF InsideRegister, RegisterPcs
        <4>3. pc[s] \in InsideRegister \ {"reg_row"} => i # <<job[s].lic, job[s].code>>
          <5>1. s # Null
            BY BranchConstantsAssumption
          <5>. QED
            BY <1>3, <3>1, <5>1 DEF RequestInv, RegisterInv
        <4>4. pc[s] = "reg_write" /\ Live(job[s].lic) =>
                 Cardinality(HoldersIn(br', job[s].lic)) <= job[s].count
          BY <1>8, <1>9, <3>1, <4>1, <4>2, AtMostTransitive DEF RequestInv, RegisterInv
        <4>. QED
          BY <1>3, <1>6, <3>1, <4>1, <4>2, <4>3, <4>4
          DEF RequestInv, RegisterInv, Live, Holders
      <3>3. SweepInv(s)'
        <4>1. pc[s] \in DeletePcs => \A x \in job[s].todo : <<job[s].lic, x>> \in BranchRows
          BY <1>1, JobTypes DEF DeleteJob
        <4>. QED
          BY <1>3, <1>7, <3>1, <4>1 DEF RequestInv, SweepInv, Live, HasRow
      <3>. QED
        BY <1>3, <2>1, <3>1, <3>2, <3>3 DEF RequestInv
    <2>. QED
      BY <2>2, <2>3
  <1>. QED
    BY <1>10, <1>11, <1>12, InvariantByRequest

(* A license is created or its quota set, to at most the new peak.         *)
LEMMA LicenseWriteStep ==
    ASSUME IInv, NEW r \in Requests, NEW l \in Licenses, NEW row \in LicenseRow,
           NEW n \in Quota, pc[r] = "idle", lc[l].state # "deleted",
           row.state = "live", row.max <= n, peak[l] <= n,
           lc' = [lc EXCEPT ![l] = row], peak' = [peak EXCEPT ![l] = n],
           AnswerCommitted(r), UNCHANGED <<productActive, br, locks>>
    PROVE  IInv'
  <1>. USE DEF locks
  <1>1. TypeOK /\ TablesInv /\ \A s \in Requests : RequestInv(s)
    BY InvariantByRequest
  <1>a. PICK code \in Codes : Answer(r, code)
    BY CommittedAnswer
  <1>2. /\ pc'[r] = "answer"
        /\ \A s \in Requests \ {r} : pc'[s] = pc[s] /\ job'[s] = job[s]
        /\ pc' \in [Requests -> Pcs] /\ DOMAIN job' = Requests
        /\ \A s \in Requests : job'[s] \in JobsAt(pc'[s])
    BY <1>1, <1>a, StartMoves, StepKinds, AnswerJobs DEF Answer
  <1>3. /\ {"idle", "answer"} \cap (RegisterPcs \cup InsideRegister \cup DeletePcs) = {}
        /\ InsideRegister \subseteq RegisterPcs /\ "reg_write" \in RegisterPcs
    BY DEF RegisterPcs, InsideRegister, DeletePcs
  <1>4. /\ lc'[l] = row /\ peak'[l] = n
        /\ \A k \in Licenses \ {l} : lc'[k] = lc[k] /\ peak'[k] = peak[k]
    BY <1>1 DEF TypeOK
  <1>5. /\ n \in Nat
        /\ \A k \in Licenses : peak[k] \in Nat /\ Cardinality(Holders(k)) \in Nat
    <2>1. Cardinality(Branches) \in Nat
      BY BranchConstantsAssumption, FS_CardinalityType
    <2>. QED
      BY <1>1, <2>1, HoldersFinite, BranchConstantsAssumption DEF TypeOK, Quota
  <1>6. lc[l].state # "unborn" => Live(l)
    BY <1>1 DEF TypeOK, LicenseRow, Live
  <1>7. TypeOK'
    BY <1>1, <1>2 DEF TypeOK
  <1>8. TablesInv'
    <2>1. ASSUME NEW k \in Licenses PROVE Cardinality(Holders(k)) <= peak'[k]
      BY <1>1, <1>4, <1>5, AtMostTransitive DEF TablesInv
    <2>2. PeakInv'
      BY <1>1, <1>4 DEF TablesInv, PeakInv, Live
    <2>3. NoOrphanBranch' /\ ActiveBranchHasNoReleaser'
      BY <1>1, <1>4 DEF TablesInv, NoOrphanBranch, ActiveBranchHasNoReleaser, HasRow, Live
    <2>. QED
      BY <2>1, <2>2, <2>3 DEF TablesInv, Holders
  <1>9. ASSUME NEW s \in Requests PROVE RequestInv(s)'
    <2>1. CASE s = r
      <3>1. /\ \A k \in Licenses : lcLock[k] # r
            /\ \A i \in BranchRows : brLock[i] # r
        BY <1>1, <1>3 DEF RequestInv, LocksInv, MayHoldRow
      <3>2. pc'[r] \notin RegisterPcs \cup InsideRegister \cup DeletePcs
        BY <1>2, <1>3
      <3>3. LocksInv(r)'
        BY <3>1, <3>2 DEF LocksInv
      <3>4. RegisterInv(r)' /\ SweepInv(r)'
        BY <1>3, <3>2 DEF RegisterInv, SweepInv
      <3>. QED
        BY <2>1, <3>2, <3>3, <3>4 DEF RequestInv
    <2>2. CASE s # r
      <3>1. pc'[s] = pc[s] /\ job'[s] = job[s] /\ RequestInv(s)
        BY <1>1, <1>2, <2>2
      <3>2. pc[s] \in RegisterPcs \cup DeletePcs =>
               /\ job[s].lic \in Licenses /\ lc[job[s].lic].state # "unborn"
               /\ Live(job[s].lic)' => Live(job[s].lic)
        <4>1. pc[s] \in RegisterPcs \cup DeletePcs => job[s].lic \in Licenses
          BY <1>1, JobTypes DEF RegisterJob, DeleteJob
        <4>. QED
          BY <1>4, <1>6, <3>1, <4>1 DEF RequestInv, Live
      <3>3. \A k \in Licenses : lc[k].state # "unborn" => (Live(k) <=> Live(k)')
        BY <1>4, <1>6 DEF Live
      <3>4. LocksInv(s)'
        <4>1. ASSUME NEW k \in Licenses, lc[k].state = "unborn"
              PROVE  (pc[s] \in InsideRegister => job[s].lic # k) /\ ~Live(k)
          BY <1>3, <3>2, <4>1 DEF Live
        <4>. QED
          BY <3>1, <3>3, <4>1 DEF RequestInv, LocksInv, MayHoldRow, HasRow
      <3>5. RegisterInv(s)'
        <4>1. pc[s] \in RegisterPcs => job[s].max \in Nat
          <5>1. pc[s] \in RegisterPcs => job[s].max \in Quota
            BY <1>1, JobTypes DEF RegisterJob
          <5>. QED
            BY <5>1, BranchConstantsAssumption DEF Quota
        <4>2. pc[s] \in RegisterPcs /\ Live(job[s].lic) => job[s].max <= peak'[job[s].lic]
          BY <1>4, <1>5, <3>1, <3>2, <4>1, AtMostTransitive DEF RequestInv, RegisterInv
        <4>. QED
          BY <1>3, <3>1, <3>2, <4>2 DEF RequestInv, RegisterInv, Holders
      <3>6. SweepInv(s)'
        BY <3>1, <3>2 DEF RequestInv, SweepInv, HasRow
      <3>7. pc[s] \in RegisterPcs \cup DeletePcs => lc'[job[s].lic].state # "unborn"
        BY <1>4, <3>2
      <3>. QED
        BY <3>1, <3>4, <3>5, <3>6, <3>7 DEF RequestInv
    <2>. QED
      BY <2>1, <2>2
  <1>. QED
    BY <1>7, <1>8, <1>9, InvariantByRequest

(* The license goes with all its branches: no request is inside Register   *)
(* with it, and no row was left out of the sweep.                          *)
LEMMA DeleteCommitStep ==
    ASSUME IInv, NEW r \in Requests, DeleteCommit(r)
    PROVE  IInv'
  <1>. DEFINE l == job[r].lic
  <1>1. TypeOK /\ TablesInv /\ \A s \in Requests : RequestInv(s)
    BY InvariantByRequest
  <1>2. /\ lcLock[l] = Null /\ Live(l)
        /\ \A b \in Branches \ job[r].gone : ~HasRow(<<l, b>>)
        /\ lc' = [lc EXCEPT ![l] = [state |-> "deleted", max |-> 0]]
        /\ peak' = [peak EXCEPT ![l] = 0]
        /\ br' = [i \in BranchRows |->
                     IF i[1] = l /\ i[2] \in job[r].gone THEN NoBranch ELSE br[i]]
        /\ ReleaseLocks(r) /\ UNCHANGED productActive
    BY DEF DeleteCommit, LicenseRowFree, ReferencedByBranches
  <1>a. PICK code \in Codes : Answer(r, code)
    BY CommittedAnswer DEF DeleteCommit
  <1>3. /\ pc[r] \in DeletePcs /\ pc[r] \notin RegisterPcs \cup InsideRegister
        /\ "answer" \notin RegisterPcs \cup InsideRegister \cup DeletePcs
        /\ InsideRegister \subseteq RegisterPcs
        /\ "reg_write" \in InsideRegister
    BY DEF DeleteCommit, RegisterPcs, InsideRegister, DeletePcs
  <1>4. /\ job[r] \in DeleteJob /\ l \in Licenses /\ l = job[r].lic
        /\ \A b \in Branches : <<l, b>> \in BranchRows
    BY <1>1, <1>3, JobTypes DEF DeleteJob
  <1>5. \A b \in job[r].gone : brLock[<<l, b>>] = r
    BY <1>1, <1>2, <1>3 DEF RequestInv, SweepInv
  <1>. HIDE DEF l
  <1>6. /\ pc'[r] = "answer"
        /\ \A s \in Requests \ {r} : pc'[s] = pc[s] /\ job'[s] = job[s]
        /\ pc' \in [Requests -> Pcs] /\ DOMAIN job' = Requests
        /\ \A s \in Requests : job'[s] \in JobsAt(pc'[s])
    BY <1>1, <1>a, StartMoves, StepKinds, AnswerJobs DEF Answer
  <1>7. /\ lc'[l] = [state |-> "deleted", max |-> 0] /\ peak'[l] = 0
        /\ \A k \in Licenses \ {l} : lc'[k] = lc[k] /\ peak'[k] = peak[k]
    BY <1>1, <1>2, <1>4 DEF TypeOK
  <1>8. \A k \in Licenses, b \in Branches :
           /\ k # l => br'[<<k, b>>] = br[<<k, b>>]
           /\ k = l => br'[<<k, b>>].status = "NONE"
    BY <1>2, <1>4 DEF BranchRows, HasRow, NoBranch
  <1>9. /\ HoldersIn(br', l) = {}
        /\ \A k \in Licenses \ {l} : HoldersIn(br', k) = Holders(k)
    BY <1>4, <1>8 DEF HoldersIn, Holders
  <1>10. TypeOK'
    <2>1. /\ [state |-> "deleted", max |-> 0] \in LicenseRow
          /\ 0 \in Quota /\ NoBranch \in BranchRow
      BY BranchConstantsAssumption DEF LicenseRow, Quota, NoBranch, BranchRow, RowStatus
    <2>2. /\ lc' \in [Licenses -> LicenseRow] /\ peak' \in [Licenses -> Quota]
          /\ br' \in [BranchRows -> BranchRow]
      BY <1>1, <1>2, <2>1 DEF TypeOK
    <2>. QED
      BY <1>1, <1>2, <1>6, <2>2, ReleaseFrees DEF TypeOK
  <1>11. TablesInv'
    <2>1. ASSUME NEW k \in Licenses PROVE Cardinality(HoldersIn(br', k)) <= peak'[k]
      <3>1. CASE k = l
        BY <1>7, <1>9, <3>1, FS_EmptySet
      <3>2. CASE k # l
        BY <1>1, <1>7, <1>9, <3>2 DEF TablesInv
      <3>. QED
        BY <3>1, <3>2
    <2>2. PeakInv'
      BY <1>1, <1>7 DEF TablesInv, PeakInv, Live
    <2>3. NoOrphanBranch'
      BY <1>1, <1>7, <1>8 DEF TablesInv, NoOrphanBranch, HasRow, Live
    <2>4. ActiveBranchHasNoReleaser'
      BY <1>1, <1>8 DEF TablesInv, ActiveBranchHasNoReleaser, BranchRows
    <2>. QED
      BY <2>1, <2>2, <2>3, <2>4 DEF TablesInv, Holders
  <1>12. ASSUME NEW s \in Requests PROVE RequestInv(s)'
    <2>1. \A k \in Licenses : lcLock'[k] = s <=> lcLock[k] = s /\ s # r
      BY <1>1, <1>2, ReleaseFrees
    <2>2. pc[s] \in InsideRegister => job[s].lic # l
      <3>1. s # Null
        BY BranchConstantsAssumption
      <3>. QED
        BY <1>1, <1>2, <1>4, <3>1 DEF RequestInv, LocksInv
    <2>3. LocksInv(s)'
      <3>1. ASSUME NEW k \in Licenses
            PROVE  (lcLock[k] = s <=> pc[s] \in InsideRegister /\ job[s].lic = k /\ Live(k))'
        <4>1. CASE s = r
          BY <1>3, <1>6, <2>1, <4>1
        <4>2. CASE s # r /\ k = l
          BY <1>1, <1>6, <1>7, <2>1, <2>2, <4>2 DEF RequestInv, LocksInv, Live
        <4>3. CASE s # r /\ k # l
          BY <1>1, <1>6, <1>7, <2>1, <4>3 DEF RequestInv, LocksInv, Live
        <4>. QED
          BY <4>1, <4>2, <4>3
      <3>2. ASSUME NEW k \in Licenses, NEW b \in Branches, brLock'[<<k, b>>] = s
            PROVE  (MayHoldRow(s, <<k, b>>) /\ HasRow(<<k, b>>))'
        <4>1. <<k, b>> \in BranchRows
          BY DEF BranchRows
        <4>2. /\ s # r /\ brLock[<<k, b>>] = s
              /\ MayHoldRow(s, <<k, b>>) /\ HasRow(<<k, b>>)
          BY <1>1, <1>2, <3>2, <4>1, ReleaseFrees DEF RequestInv, LocksInv
        <4>3. k # l
          BY <1>2, <1>5, <4>2
        <4>. QED
          BY <1>6, <1>8, <4>2, <4>3 DEF MayHoldRow, HasRow
      <3>. QED
        BY <3>1, <3>2 DEF LocksInv, BranchRows
    <2>4. CASE s = r
      BY <1>3, <1>6, <2>3, <2>4 DEF RequestInv, RegisterInv, SweepInv
    <2>5. CASE s # r
      <3>1. /\ pc'[s] = pc[s] /\ job'[s] = job[s] /\ RequestInv(s)
            /\ \A i \in BranchRows : brLock'[i] = s <=> brLock[i] = s
        BY <1>1, <1>2, <1>6, <2>5, ReleaseFrees
      <3>2. RegisterInv(s)'
        <4>1. pc[s] \in RegisterPcs =>
                 /\ job[s].lic \in Licenses /\ job[s].code \in Branches
                 /\ <<job[s].lic, job[s].code>> \in BranchRows
          BY <1>1, JobTypes DEF RegisterJob
        <4>. QED
          BY <1>3, <1>7, <1>8, <1>9, <2>2, <3>1, <4>1
          DEF RequestInv, RegisterInv, Live, Holders
      <3>3. SweepInv(s)'
        <4>1. pc[s] \in DeletePcs =>
                 /\ job[s].lic \in Licenses /\ job[s].todo \subseteq Branches
                 /\ \A b \in job[s].gone : <<job[s].lic, b>> \in BranchRows
          BY <1>1, JobTypes DEF DeleteJob
        <4>. QED
          BY <1>7, <1>8, <3>1, <4>1 DEF RequestInv, SweepInv, Live, HasRow
      <3>4. pc[s] \in RegisterPcs \cup DeletePcs => lc'[job[s].lic].state # "unborn"
        <4>1. pc[s] \in RegisterPcs \cup DeletePcs => job[s].lic \in Licenses
          BY <1>1, JobTypes DEF RegisterJob, DeleteJob
        <4>. QED
          BY <1>7, <3>1, <4>1 DEF RequestInv
      <3>. QED
        BY <2>3, <3>1, <3>2, <3>3, <3>4 DEF RequestInv
    <2>. QED
      BY <2>4, <2>5
  <1>. QED
    BY <1>10, <1>11, <1>12, InvariantByRequest

-----------------------------------------------------------------------------
(* The inductive invariant.                                                *)

LEMMA InitEstablishes == Init => IInv
  <1>. SUFFICES ASSUME Init PROVE IInv
    OBVIOUS
  <1>1. TypeOK
    <2>1. /\ [state |-> "unborn", max |-> 0] \in LicenseRow
          /\ NoBranch \in BranchRow /\ 0 \in Quota
      BY BranchConstantsAssumption DEF LicenseRow, Quota, NoBranch, BranchRow, RowStatus
    <2>2. NoJob \in AnswerJob
      BY DEF NoJob, AnswerJob, Codes
    <2>. QED
      BY <2>1, <2>2, StepKinds DEF Init, TypeOK
  <1>2. TablesInv
    <2>1. \A l \in Licenses : Holders(l) = {} /\ peak[l] = 0
      BY DEF Init, Holders, HoldersIn, NoBranch, BranchRows
    <2>2. \A l \in Licenses : Cardinality(Holders(l)) <= peak[l]
      BY <2>1, FS_EmptySet
    <2>. QED
      BY <2>2 DEF Init, TablesInv, PeakInv, NoOrphanBranch, ActiveBranchHasNoReleaser,
                  HasRow, Live, NoBranch, BranchRows
  <1>3. ASSUME NEW r \in Requests PROVE RequestInv(r)
    <2>1. /\ pc[r] \notin RegisterPcs \cup InsideRegister \cup DeletePcs
          /\ "reg_write" \in RegisterPcs /\ r # Null
      BY BranchConstantsAssumption DEF Init, RegisterPcs, InsideRegister, DeletePcs
    <2>. QED
      BY <2>1 DEF Init, RequestInv, LocksInv, RegisterInv, SweepInv
  <1>. QED
    BY <1>1, <1>2, <1>3, InvariantByRequest

(* What an idle request begins.                                            *)
LEMMA BeginStep ==
    ASSUME IInv, NEW r \in Requests, Begin(r)
    PROVE  IInv'
  <1>. USE DEF tables, locks
  <1>0. /\ TypeOK /\ TablesInv /\ productActive \in [Products -> BOOLEAN]
        /\ Codes = {"OK", "NOT_REGISTERED", "QUOTA_EXCEEDED", "INVALID_LICENSE",
                    "NOT_FOUND", "VALIDATION", "INTERNAL"}
        /\ {"idle", "reg_lock", "rel_update", "count", "answer"}
              \cap (InsideRegister \cup DeletePcs) = {}
        /\ "reg_lock" \in RegisterPcs
    BY InvariantByRequest DEF TypeOK, Codes, RegisterPcs, InsideRegister, DeletePcs
  <1>1. ASSUME NEW a \in Accounts, LookupFails(r, a) PROVE IInv'
    BY <1>0, <1>1, AnswerStep DEF LookupFails
  <1>2. ASSUME NEW a \in Accounts, Check(r, a) PROVE IInv'
    <2>1. PICK l \in Licenses : pc[r] = "idle" /\ Start(r, "count", [lic |-> l])
      BY <1>2 DEF Check, Lookup
    <2>2. [lic |-> l] \in JobsAt("count")
      BY StepKinds DEF CountJob
    <2>. QED
      BY <1>0, <1>2, <2>1, <2>2, QuietStep, StepKinds DEF Check
  <1>3. ASSUME NEW a \in Accounts, NEW b \in Branches, RegisterLookup(r, a, b)
        PROVE  IInv'
    <2>1. PICK l \in Licenses :
             /\ pc[r] = "idle" /\ Live(l)
             /\ Start(r, "reg_lock", [lic |-> l, code |-> b, max |-> lc[l].max,
                                      found |-> "NONE", count |-> 0])
      BY <1>3 DEF RegisterLookup, Lookup, Registered
    <2>. DEFINE j == [lic |-> l, code |-> b, max |-> lc[l].max, found |-> "NONE", count |-> 0]
    <2>2. j \in JobsAt("reg_lock")
      <3>1. 0 \in 0..Cardinality(Branches)
        BY BranchConstantsAssumption, FS_CardinalityType
      <3>. QED
        BY <1>0, <3>1, StepKinds DEF TypeOK, LicenseRow, RegisterJob, RowStatus
    <2>3. Live(j.lic) /\ j.max <= peak[j.lic]
      BY <1>0, <2>1 DEF TablesInv, PeakInv
    <2>. HIDE DEF j
    <2>4. Start(r, "reg_lock", j)
      BY <2>1 DEF j
    <2>. QED
      BY <1>0, <1>3, <2>1, <2>2, <2>3, <2>4, QuietStep, StepKinds DEF RegisterLookup
  <1>4. ASSUME NEW a \in Accounts, NEW b \in Branches, ReleaseLookup(r, a, b)
        PROVE  IInv'
    <2>1. PICK l \in Licenses :
             pc[r] = "idle" /\ Start(r, "rel_update", [lic |-> l, code |-> b])
      BY <1>4 DEF ReleaseLookup, Lookup
    <2>2. [lic |-> l, code |-> b] \in JobsAt("rel_update")
      BY StepKinds DEF ReleaseJob
    <2>. QED
      BY <1>0, <1>4, <2>1, <2>2, QuietStep, StepKinds DEF ReleaseLookup
  <1>5. ASSUME NEW i \in BranchRows, NEW adm \in Admins, ForceDeactivateBranch(r, i, adm)
        PROVE  IInv'
    <2>1. CASE FreeSlot(i, adm) /\ AnswerCommitted(r)
      BY <1>0, <1>5, <2>1, CommittedAnswer, FreeSlotStep, AnswerJobs
      DEF ForceDeactivateBranch, Answer
    <2>2. CASE NothingToFree(r, i)
      BY <1>0, <1>5, <2>2, AnswerStep DEF ForceDeactivateBranch, NothingToFree
    <2>. QED
      BY <1>5, <2>1, <2>2 DEF ForceDeactivateBranch
  <1>6. ASSUME NEW l \in Licenses, CreateLicense(r, l) PROVE IInv'
    <2>. DEFINE row == [state |-> "live", max |-> DefaultQuota]
    <2>1. /\ row \in LicenseRow /\ row.state = "live" /\ row.max <= DefaultQuota
          /\ DefaultQuota \in Quota /\ 0 <= DefaultQuota
      BY BranchConstantsAssumption DEF LicenseRow, Quota
    <2>2. lc[l].state = "unborn" /\ peak[l] = 0
      BY <1>0, <1>6 DEF CreateLicense, TablesInv, PeakInv, Live
    <2>3. lc' = [lc EXCEPT ![l] = row]
      BY <1>6 DEF CreateLicense
    <2>. HIDE DEF row
    <2>. QED
      BY <1>6, <2>1, <2>2, <2>3, LicenseWriteStep DEF CreateLicense
  <1>7. ASSUME NEW l \in Licenses, NEW n \in Quota, SetMaxBranches(r, l, n) PROVE IInv'
    <2>. DEFINE row == [lc[l] EXCEPT !.max = n]
                high == HigherOf(peak[l], n)
    <2>1. Live(l) /\ lc[l] \in LicenseRow /\ peak[l] \in Quota
      BY <1>0, <1>7 DEF SetMaxBranches, TypeOK
    <2>2. row \in LicenseRow /\ row.state = "live" /\ row.max = n /\ lc[l].state = "live"
      BY <2>1 DEF LicenseRow, Live
    <2>3. high \in Quota /\ n <= high /\ peak[l] <= high
      BY <2>1, BranchConstantsAssumption DEF HigherOf, Quota
    <2>4. lc' = [lc EXCEPT ![l] = row] /\ peak' = [peak EXCEPT ![l] = high]
      BY <1>0, <1>7 DEF SetMaxBranches, TypeOK
    <2>. HIDE DEF row, high
    <2>. QED
      BY <1>7, <2>2, <2>3, <2>4, LicenseWriteStep DEF SetMaxBranches
  <1>8. ASSUME NEW l \in Licenses, SetMaxMissing(r, l) PROVE IInv'
    BY <1>0, <1>8, AnswerStep DEF SetMaxMissing
  <1>9. ASSUME NEW p \in Products, NEW aktif \in BOOLEAN, SetProductStatus(r, p, aktif)
        PROVE  IInv'
    <2>1. productActive' \in [Products -> BOOLEAN]
      BY <1>0, <1>9 DEF SetProductStatus
    <2>. QED
      BY <1>0, <1>9, <2>1, CommittedAnswer, AnswerStep DEF SetProductStatus
  <1>10. ASSUME NEW code \in {"INVALID_LICENSE", "VALIDATION"}, Reject(r, code) PROVE IInv'
    BY <1>0, <1>10, AnswerStep DEF Reject
  <1>. QED
    BY <1>1, <1>2, <1>3, <1>4, <1>5, <1>6, <1>7, <1>8, <1>9, <1>10, DeleteStartStep
    DEF Begin

(* What a request in flight does next.                                     *)
LEMMA AdvanceStep ==
    ASSUME IInv, NEW r \in Requests, Advance(r)
    PROVE  IInv'
  <1>. USE DEF tables, locks
  <1>0. /\ TypeOK /\ productActive \in [Products -> BOOLEAN]
        /\ Codes = {"OK", "NOT_REGISTERED", "QUOTA_EXCEEDED", "INVALID_LICENSE",
                    "NOT_FOUND", "VALIDATION", "INTERNAL"}
        /\ {"rel_update", "count"} \cap (InsideRegister \cup DeletePcs) = {}
        /\ "reg_reuse" \in RegisterPcs
    BY InvariantByRequest DEF TypeOK, Codes, RegisterPcs, InsideRegister, DeletePcs
  <1>1. ASSUME RegisterReuse(r) PROVE IInv'
    <2>1. [lic |-> job[r].lic] \in JobsAt("count")
      BY <1>0, <1>1, JobTypes, StepKinds DEF RegisterReuse, RegisterJob, CountJob
    <2>. QED
      BY <1>1, <2>1, EndStep DEF RegisterReuse
  <1>2. ASSUME RegisterRefuse(r) PROVE IInv'
    BY <1>0, <1>2, RollbackStep DEF RegisterRefuse
  <1>3. ASSUME RegisterOrphan(r) PROVE IInv'
    BY <1>0, <1>3, RollbackStep DEF RegisterOrphan
  <1>4. ASSUME CountActive(r) PROVE IInv'
    BY <1>0, <1>4, AnswerStep DEF CountActive
  <1>5. ASSUME ReleaseUpdate(r) PROVE IInv'
    <2>. DEFINE i == <<job[r].lic, job[r].code>>
    <2>1. /\ pc[r] = "rel_update" /\ i \in BranchRows
          /\ [lic |-> job[r].lic] \in JobsAt("count")
      BY <1>0, <1>5, JobTypes, StepKinds DEF ReleaseUpdate, ReleaseJob, CountJob
    <2>a. br[i].by \in Admins \cup {Null}
      BY <1>0, <2>1 DEF TypeOK, BranchRow
    <2>2. CASE FreeSlot(i, br[i].by) /\ Start(r, "count", [lic |-> job[r].lic])
      BY <1>0, <2>1, <2>a, <2>2, FreeSlotStep
    <2>b. CASE FreeSlot(i, br[i].by) /\ Answer(r, "INTERNAL")
      BY <1>0, <2>1, <2>a, <2>b, FreeSlotStep, AnswerJobs DEF Answer
    <2>3. CASE NothingToFree(r, i)
      BY <1>0, <2>1, <2>3, AnswerStep DEF NothingToFree
    <2>. QED
      BY <1>5, <2>2, <2>b, <2>3 DEF ReleaseUpdate
  <1>6. ASSUME DeleteRefused(r) PROVE IInv'
    BY <1>0, <1>6, RollbackStep DEF DeleteRefused
  <1>. QED
    BY <1>1, <1>2, <1>3, <1>4, <1>5, <1>6, RegisterLockStep, RegisterFindRowStep,
       RegisterCountStep, RegisterWriteStep, DeleteRowStep, DeleteSweptStep,
       DeleteCommitStep
    DEF Advance

(* Every step preserves the invariant.                                     *)
THEOREM StepPreserves == IInv /\ [Next]_vars => IInv'
  <1>. SUFFICES ASSUME IInv, [Next]_vars PROVE IInv'
    OBVIOUS
  <1>1. ASSUME NEW r \in Requests, Fail(r) PROVE IInv'
    BY <1>1, RollbackStep DEF Fail, Codes
  <1>2. ASSUME NEW r \in Requests, Respond(r) PROVE IInv'
    <2>1. /\ NoJob \in JobsAt("idle") /\ productActive \in [Products -> BOOLEAN]
          /\ {"idle", "answer"} \cap (InsideRegister \cup DeletePcs) = {}
      BY InvariantByRequest, StepKinds
      DEF NoJob, AnswerJob, Codes, InsideRegister, DeletePcs, TypeOK
    <2>. QED
      BY <1>2, <2>1, QuietStep, StepKinds DEF Respond, tables, locks
  <1>3. CASE UNCHANGED vars
    <2>1. TypeOK /\ TablesInv /\ \A s \in Requests : RequestInv(s)
      BY InvariantByRequest
    <2>2. TypeOK' /\ TablesInv'
      BY <1>3, <2>1
      DEF vars, TypeOK, TablesInv, PeakInv, NoOrphanBranch, ActiveBranchHasNoReleaser,
          Live, HasRow, Holders
    <2>3. \A s \in Requests : RequestInv(s)'
      BY <1>3, <2>1
      DEF vars, RequestInv, LocksInv, RegisterInv, SweepInv, MayHoldRow, Live, HasRow, Holders
    <2>. QED
      BY <2>2, <2>3, InvariantByRequest
  <1>. QED
    BY <1>1, <1>2, <1>3, BeginStep, AdvanceStep DEF Next

(* The invariant of the branch service holds in every reachable state, for *)
(* any number of requests, licenses and branches and any quotas.           *)
THEOREM Invariance == Spec => []IInv
  <1>. QED
    BY InitEstablishes, StepPreserves, PTL DEF Spec

-----------------------------------------------------------------------------
(* The parts of the invariant that are properties.                         *)

(* However stale the quota a Register goes by, the ACTIVE branches of a    *)
(* license never outnumber the highest quota SetMaxBranches gave it.       *)
THEOREM SlotsWithinPeak == Spec => []ActiveWithinPeak
  <1>1. IInv => ActiveWithinPeak
    BY DEF IInv
  <1>. QED
    BY <1>1, Invariance, PTL

(* "this plain count is race-free": from the count of Register to its      *)
(* write no other branch of the license takes a slot.                      *)
THEOREM CountIsRaceFree == Spec => []CountStaysTrue
  <1>1. IInv => CountStaysTrue
    BY DEF IInv
  <1>. QED
    BY <1>1, Invariance, PTL

(* DeleteLicense leaves no branches row without its license, although the  *)
(* lock statement of Register does not notice that the license is gone.    *)
THEOREM NoOrphans == Spec => []NoOrphanBranch
  <1>1. IInv => NoOrphanBranch
    BY DEF IInv
  <1>. QED
    BY <1>1, Invariance, PTL

-----------------------------------------------------------------------------
(* Lock order.                                                             *)

(* Whoever is waited for by a request that deletes nothing is inside       *)
(* Register.                                                               *)
LEMMA WaitedFor ==
    ASSUME IInv, NEW r \in Requests, NEW s \in Requests,
           WaitsFor(r, s), pc[r] \notin DeletePcs, pc[s] \notin DeletePcs
    PROVE  \/ pc[r] \in {"reg_lock", "rel_update"} /\ pc[s] \in InsideRegister
           \/ pc[r] = "reg_row" /\ pc[s] \in InsideRegister \ {"reg_row"}
  <1>1. TypeOK /\ RequestInv(s)
    BY InvariantByRequest
  <1>2. CASE pc[r] \in {"reg_lock", "del_parent"} /\ lcLock[job[r].lic] = s
    <2>1. pc[r] = "reg_lock" /\ job[r].lic \in Licenses
      BY <1>1, <1>2, JobTypes DEF RegisterPcs, RegisterJob, DeletePcs
    <2>. QED
      BY <1>1, <1>2, <2>1 DEF RequestInv, LocksInv
  <1>3. CASE /\ pc[r] \in {"reg_row", "rel_update"}
             /\ brLock[<<job[r].lic, job[r].code>>] = s
    <2>1. <<job[r].lic, job[r].code>> \in BranchRows
      BY <1>1, <1>3, JobTypes DEF RegisterPcs, InsideRegister
    <2>2. pc[s] \in InsideRegister \ {"reg_row"}
      BY <1>1, <1>3, <2>1 DEF RequestInv, LocksInv, MayHoldRow
    <2>. QED
      BY <1>3, <2>2
  <1>. QED
    BY <1>2, <1>3 DEF WaitsFor, DeletePcs

(* Registrations and releases never deadlock among themselves: every cycle *)
(* of waits has a DeleteLicense in it (Register locks the license and then *)
(* the branch, DeleteLicense the other way round).                         *)
THEOREM DeadlockNeedsDelete == Spec => []WaitCycleNeedsDelete
  <1>1. IInv => WaitCycleNeedsDelete
    <2>. SUFFICES ASSUME IInv, NEW C \in SUBSET Requests, WaitCycle(C),
                         \A r \in C : pc[r] \notin DeletePcs
                  PROVE  FALSE
      BY DEF WaitCycleNeedsDelete
    <2>1. \A r \in C : \E s \in C :
             \/ pc[r] \in {"reg_lock", "rel_update"} /\ pc[s] \in InsideRegister
             \/ pc[r] = "reg_row" /\ pc[s] \in InsideRegister \ {"reg_row"}
      BY WaitedFor DEF WaitCycle
    <2>2. PICK r \in C : pc[r] \in InsideRegister
      BY <2>1 DEF WaitCycle, InsideRegister
    <2>3. PICK s \in C : pc[s] \in InsideRegister \ {"reg_row"}
      BY <2>1, <2>2 DEF InsideRegister
    <2>. QED
      BY <2>1, <2>3 DEF InsideRegister
  <1>. QED
    BY <1>1, Invariance, PTL

-----------------------------------------------------------------------------
(* What no step may do.                                                    *)

(* Registering a branch that is ACTIVE is never refused for the quota,     *)
(* also when the quota was lowered below the branches in use.              *)
THEOREM ReRegistrationIsSafe == Spec => ActiveBranchIsNotRefused
  <1>. DEFINE Step ==
         \A r \in Requests :
             RegisterRefuse(r) => job[r].code \notin Holders(job[r].lic)
  <1>1. IInv => Step
    <2>. SUFFICES ASSUME IInv, NEW r \in Requests, RegisterRefuse(r)
                  PROVE  job[r].code \notin Holders(job[r].lic)
      OBVIOUS
    <2>1. RequestInv(r) /\ pc[r] = "reg_count"
      BY InvariantByRequest DEF RegisterRefuse
    <2>2. br[<<job[r].lic, job[r].code>>].status # "ACTIVE"
      BY <2>1 DEF RequestInv, RegisterInv, InsideRegister
    <2>. QED
      BY <2>2 DEF Holders, HoldersIn
  <1>2. ActiveBranchIsNotRefused <=> [][Step]_vars
    BY DEF ActiveBranchIsNotRefused
  <1>. HIDE DEF Step
  <1>. QED
    BY <1>1, <1>2, Invariance, PTL

-----------------------------------------------------------------------------
(* BranchRegistration implements SeatQuota, with the highest quota so far  *)
(* as the capacity.                                                        *)

(* A step that changes no peak and no holder is a stutter.                 *)
LEMMA SlotsStutter ==
    ASSUME UNCHANGED peak,
           \A l \in Licenses : HoldersIn(br', l) = Holders(l)
    PROVE  [Slots!Next]_(Slots!vars)
  BY DEF Slots!vars, Holders

LEMMA TablesStutter ==
    ASSUME UNCHANGED <<br, peak>>
    PROVE  [Slots!Next]_(Slots!vars)
  BY SlotsStutter DEF Holders

(* A new license, or a quota above every earlier one, adds capacity.       *)
LEMMA PeakRaised ==
    ASSUME TypeOK, NEW l \in Licenses, NEW n \in Quota, peak[l] <= n,
           peak' = [peak EXCEPT ![l] = n], UNCHANGED br
    PROVE  [Slots!Next]_(Slots!vars)
  <1>1. peak[l] \in Nat /\ n \in Nat /\ n <= MaxQuota
    BY BranchConstantsAssumption DEF TypeOK, Quota
  <1>2. CASE peak[l] = n
    <2>1. UNCHANGED peak
      BY <1>2 DEF TypeOK
    <2>. QED
      BY <2>1, TablesStutter
  <1>3. CASE peak[l] # n
    <2>1. /\ n - peak[l] \in 1..MaxQuota
          /\ peak[l] + (n - peak[l]) = n
      BY <1>1, <1>3, BranchConstantsAssumption
    <2>2. Slots!AddSeats(l, n - peak[l])
      BY <1>1, <2>1 DEF Slots!AddSeats, Holders
    <2>. QED
      BY <2>1, <2>2 DEF Slots!Next
  <1>. QED
    BY <1>2, <1>3

(* A slot is freed, by Release or by ForceDeactivateBranch.                *)
LEMMA SlotFreed ==
    ASSUME TypeOK, NEW i \in BranchRows, NEW by, FreeSlot(i, by)
    PROVE  [Slots!Next]_(Slots!vars)
  <1>1. PICK l \in Licenses, b \in Branches : i = <<l, b>>
    BY DEF BranchRows
  <1>. DEFINE row == [br[i] EXCEPT !.status = "DEACTIVATED", !.by = by]
  <1>2. br' = [br EXCEPT ![<<l, b>>] = row] /\ UNCHANGED peak
    BY <1>1 DEF TypeOK, FreeSlot
  <1>3. row.status = "DEACTIVATED" /\ b \in Holders(l)
    BY <1>1 DEF TypeOK, BranchRow, FreeSlot, Holders, HoldersIn
  <1>. HIDE DEF row
  <1>4. /\ HoldersIn(br', l) = Holders(l) \ {b}
        /\ \A k \in Licenses \ {l} : HoldersIn(br', k) = Holders(k)
    BY <1>2, <1>3, OneRowWritten
  <1>5. Slots!FreeSeat(l, b)
    BY <1>2, <1>3, <1>4 DEF Slots!FreeSeat, Holders
  <1>. QED
    BY <1>5 DEF Slots!Next

(* The write of Register takes the slot it counted.                        *)
LEMMA SlotTaken ==
    ASSUME IInv, NEW r \in Requests, RegisterWrite(r)
    PROVE  [Slots!Next]_(Slots!vars)
  <1>. DEFINE l == job[r].lic
              b == job[r].code
              row == GrantedRow(br[<<l, b>>])
  <1>1. /\ l \in Licenses /\ b \in Branches /\ b \notin Holders(l)
        /\ Cardinality(Holders(l)) < peak[l]
    BY WriteWithinPeak DEF RegisterWrite, ParentExists
  <1>2. /\ br' = [br EXCEPT ![<<l, b>>] = row] /\ row.status = "ACTIVE"
        /\ UNCHANGED peak
    BY DEF RegisterWrite, GrantedRow, IInv, TypeOK
  <1>. HIDE DEF l, b, row
  <1>3. /\ HoldersIn(br', l) = Holders(l) \cup {b}
        /\ \A k \in Licenses \ {l} : HoldersIn(br', k) = Holders(k)
    BY <1>1, <1>2, OneRowWritten DEF IInv
  <1>4. Slots!TakeSeat(l, b)
    BY <1>1, <1>2, <1>3, SameCardinality DEF Slots!TakeSeat, Holders
  <1>. QED
    BY <1>1, <1>4 DEF Slots!Next

(* DeleteLicense closes the license with all its slots.                    *)
LEMMA SlotsClosed ==
    ASSUME IInv, NEW r \in Requests, DeleteCommit(r)
    PROVE  [Slots!Next]_(Slots!vars)
  <1>. DEFINE l == job[r].lic
  <1>1. TypeOK /\ pc[r] \in DeletePcs
    BY DEF IInv, DeleteCommit, DeletePcs
  <1>2. l \in Licenses
    BY <1>1, JobTypes DEF DeleteJob
  <1>3. /\ \A b \in Branches \ job[r].gone : ~HasRow(<<l, b>>)
        /\ peak' = [peak EXCEPT ![l] = 0]
        /\ br' = [i \in BranchRows |->
                     IF i[1] = l /\ i[2] \in job[r].gone THEN NoBranch ELSE br[i]]
    BY DEF DeleteCommit, ReferencedByBranches
  <1>. HIDE DEF l
  <1>4. \A k \in Licenses, b \in Branches :
           /\ k # l => br'[<<k, b>>] = br[<<k, b>>]
           /\ k = l => br'[<<k, b>>].status = "NONE"
    BY <1>2, <1>3 DEF BranchRows, HasRow, NoBranch
  <1>5. /\ HoldersIn(br', l) = {}
        /\ \A k \in Licenses \ {l} : HoldersIn(br', k) = Holders(k)
    BY <1>2, <1>4 DEF HoldersIn, Holders
  <1>6. Slots!Close(l)
    BY <1>3, <1>5 DEF Slots!Close, Holders
  <1>. QED
    BY <1>2, <1>6 DEF Slots!Next

(* Registrations, releases, changes of the quota and deletions, with their *)
(* transactions, locks and failures, do to the slots of a license only     *)
(* what SeatQuota allows.                                                  *)
THEOREM ImplementsSeatQuota == Spec => SlotsRefined
  <1>1. Init => Slots!Init
    BY DEF Init, Slots!Init, NoBranch, Holders, HoldersIn, BranchRows
  <1>2. IInv /\ [Next]_vars => [Slots!Next]_(Slots!vars)
    <2>. SUFFICES ASSUME IInv, [Next]_vars PROVE [Slots!Next]_(Slots!vars)
      OBVIOUS
    <2>. USE DEF tables
    <2>1. TypeOK /\ TablesInv
      BY InvariantByRequest
    <2>2. ASSUME NEW r \in Requests, NEW l \in Licenses, CreateLicense(r, l)
          PROVE  [Slots!Next]_(Slots!vars)
      <3>1. peak[l] = 0 /\ DefaultQuota \in Quota /\ peak[l] <= DefaultQuota
        BY <2>1, <2>2, BranchConstantsAssumption
        DEF CreateLicense, TablesInv, PeakInv, Live, Quota
      <3>. QED
        BY <2>1, <2>2, <3>1, PeakRaised DEF CreateLicense
    <2>3. ASSUME NEW r \in Requests, NEW l \in Licenses, NEW n \in Quota,
                 SetMaxBranches(r, l, n)
          PROVE  [Slots!Next]_(Slots!vars)
      <3>1. HigherOf(peak[l], n) \in Quota /\ peak[l] <= HigherOf(peak[l], n)
        BY <2>1, BranchConstantsAssumption DEF TypeOK, HigherOf, Quota
      <3>2. peak' = [peak EXCEPT ![l] = HigherOf(peak[l], n)] /\ UNCHANGED br
        BY <2>3 DEF SetMaxBranches
      <3>. QED
        BY <2>1, <3>1, <3>2, PeakRaised
    <2>4. ASSUME NEW r \in Requests, Begin(r) PROVE [Slots!Next]_(Slots!vars)
      BY <2>1, <2>2, <2>3, <2>4, SlotFreed, TablesStutter
      DEF Begin, LookupFails, Check, RegisterLookup, ReleaseLookup,
          ForceDeactivateBranch, NothingToFree, SetMaxMissing, DeleteStart,
          SetProductStatus, Reject
    <2>5. ASSUME NEW r \in Requests, ReleaseUpdate(r) PROVE [Slots!Next]_(Slots!vars)
      <3>1. <<job[r].lic, job[r].code>> \in BranchRows
        BY <2>1, <2>5, JobTypes DEF ReleaseUpdate
      <3>. QED
        BY <2>1, <2>5, <3>1, SlotFreed, TablesStutter DEF ReleaseUpdate, NothingToFree
    <2>6. ASSUME NEW r \in Requests, Advance(r) PROVE [Slots!Next]_(Slots!vars)
      BY <2>5, <2>6, SlotTaken, SlotsClosed, TablesStutter
      DEF Advance, RegisterLock, RegisterFindRow, RegisterReuse, RegisterCount,
          RegisterRefuse, RegisterOrphan, CountActive, DeleteRow, DeleteSwept,
          DeleteRefused
    <2>7. ASSUME NEW r \in Requests, Fail(r) \/ Respond(r)
          PROVE  [Slots!Next]_(Slots!vars)
      BY <2>7, TablesStutter DEF Fail, Respond
    <2>8. CASE UNCHANGED vars
      BY <2>8, TablesStutter DEF vars
    <2>. QED
      BY <2>4, <2>6, <2>7, <2>8 DEF Next
  <1>. QED
    BY <1>1, <1>2, Invariance, PTL DEF Spec, SlotsRefined, Slots!Spec

-----------------------------------------------------------------------------
(* BranchRegistration implements AtomicBranches.  Locking, reading and      *)
(* sweeping are stutters; each transaction takes effect at its commit, when *)
(* by IInv the branches it found and counted are still so.                  *)

(* A branch without a row has nothing left of an earlier one.              *)
NoRowIsEmpty == \A i \in BranchRows : ~HasRow(i) => br[i] = NoBranch

LEMMA RowsStayEmpty == IInv /\ NoRowIsEmpty /\ [Next]_vars => NoRowIsEmpty'
  <1>. SUFFICES ASSUME IInv, NoRowIsEmpty, [Next]_vars PROVE NoRowIsEmpty'
    OBVIOUS
  <1>. TypeOK
    BY DEF IInv
  <1>. USE DEF tables
  <1>1. CASE UNCHANGED br
    BY <1>1 DEF NoRowIsEmpty, HasRow
  <1>2. ASSUME NEW i \in BranchRows, NEW row, row.status # "NONE",
               br' = [br EXCEPT ![i] = row]
        PROVE  NoRowIsEmpty'
    BY <1>2 DEF NoRowIsEmpty, HasRow, TypeOK
  <1>3. ASSUME NEW r \in Requests, RegisterWrite(r) PROVE NoRowIsEmpty'
    <2>. DEFINE i == <<job[r].lic, job[r].code>>
    <2>1. i \in BranchRows
      BY <1>3, JobTypes DEF RegisterWrite, RegisterPcs, InsideRegister
    <2>2. br' = [br EXCEPT ![i] = GrantedRow(br[i])]
      BY <1>3 DEF RegisterWrite
    <2>3. GrantedRow(br[i]).status # "NONE"
      BY DEF GrantedRow
    <2>. QED
      BY <1>2, <2>1, <2>2, <2>3
  <1>4. ASSUME NEW i \in BranchRows, NEW by, FreeSlot(i, by) PROVE NoRowIsEmpty'
    <2>. DEFINE row == [br[i] EXCEPT !.status = "DEACTIVATED", !.by = by]
    <2>1. br' = [br EXCEPT ![i] = row]
      BY <1>4 DEF TypeOK, FreeSlot
    <2>2. row.status # "NONE"
      BY DEF TypeOK, BranchRow
    <2>. HIDE DEF row
    <2>. QED
      BY <1>2, <2>1, <2>2
  <1>5. ASSUME NEW r \in Requests, DeleteCommit(r) PROVE NoRowIsEmpty'
    BY <1>5 DEF NoRowIsEmpty, HasRow, DeleteCommit
  <1>6. ASSUME NEW r \in Requests, Begin(r) PROVE NoRowIsEmpty'
    BY <1>1, <1>4, <1>6
    DEF Begin, LookupFails, Check, RegisterLookup, ReleaseLookup,
        ForceDeactivateBranch, NothingToFree, CreateLicense, SetMaxBranches,
        SetMaxMissing, DeleteStart, SetProductStatus, Reject
  <1>7. ASSUME NEW r \in Requests, ReleaseUpdate(r) PROVE NoRowIsEmpty'
    <2>1. <<job[r].lic, job[r].code>> \in BranchRows
      BY <1>7, JobTypes DEF ReleaseUpdate
    <2>. QED
      BY <1>1, <1>4, <1>7, <2>1 DEF ReleaseUpdate, NothingToFree
  <1>8. ASSUME NEW r \in Requests, Advance(r) PROVE NoRowIsEmpty'
    BY <1>1, <1>3, <1>5, <1>7, <1>8
    DEF Advance, RegisterLock, RegisterFindRow, RegisterReuse, RegisterCount,
        RegisterRefuse, RegisterOrphan, CountActive, DeleteRow, DeleteSwept,
        DeleteRefused
  <1>9. ASSUME NEW r \in Requests, Fail(r) \/ Respond(r) PROVE NoRowIsEmpty'
    BY <1>1, <1>9 DEF Fail, Respond
  <1>10. CASE UNCHANGED vars
    BY <1>1, <1>10 DEF vars
  <1>. QED
    BY <1>6, <1>8, <1>9, <1>10 DEF Next

LEMMA RowsAreEmpty == Spec => []NoRowIsEmpty
  <1>1. Init => NoRowIsEmpty
    BY DEF Init, NoRowIsEmpty
  <1>. QED
    BY <1>1, RowsStayEmpty, Invariance, PTL DEF Spec

(* The stage of a request at each of its steps.                            *)
LEMMA StageAt ==
    /\ \A j : StageOf("idle", j) = Atomic!Idle
    /\ \A p \in RegisterPcs : \A j : StageOf(p, j) = Atomic!Found(j.lic, j.code, j.max)
    /\ \A j : StageOf("rel_update", j) = Atomic!Freeing(j.lic, j.code)
    /\ \A j : StageOf("count", j) = Atomic!Counting
    /\ \A p \in DeletePcs : \A j : StageOf(p, j) = Atomic!Closing(j.lic)
    /\ \A j : StageOf("answer", j) = Atomic!Told(j.code)
  BY Phases
  DEF StageOf, RegisterPcs, InsideRegister, DeletePcs, Atomic!Idle, Atomic!Found,
      Atomic!Freeing, Atomic!Counting, Atomic!Closing, Atomic!Told

(* What AtomicBranches reads of the tables is what is in them.             *)
LEMMA SameTables ==
    /\ \A l \in Licenses : Atomic!Live(l) <=> Live(l)
    /\ \A l \in Licenses : Atomic!Holders(l) = Holders(l)
    /\ \A a \in Accounts, l \in Licenses :
          Atomic!Sold(a, l) <=> productActive[ProductOf(a)] /\ Registered(a, l)
    /\ \A S : Atomic!Cardinality(S) = Cardinality(S)
  BY DEF Atomic!Live, Live, Atomic!Holders, Holders, HoldersIn, Atomic!Sold,
         Registered, LicensesOf, Atomic!Cardinality, Cardinality,
         Atomic!IsFiniteSet, IsFiniteSet

(* A step of one request moves its stage and no other.                     *)
LEMMA StageMoves ==
    ASSUME TypeOK, NEW r \in Requests, NEW p, NEW j, Start(r, p, j)
    PROVE  Stages' = [Stages EXCEPT ![r] = StageOf(p, j)]
  BY DEF TypeOK, Stages, Start

LEMMA StageStays ==
    ASSUME TypeOK, NEW r \in Requests, NEW p, NEW j, Start(r, p, j),
           StageOf(p, j) = Stages[r], UNCHANGED tables
    PROVE  UNCHANGED Atomic!vars
  <1>1. Stages' = [Stages EXCEPT ![r] = Stages[r]]
    BY StageMoves
  <1>2. Stages' = Stages
    BY <1>1 DEF Stages
  <1>. QED
    BY <1>2 DEF tables, Atomic!vars

LEMMA StageGoes ==
    ASSUME TypeOK, NEW r \in Requests, NEW p, NEW j, Start(r, p, j)
    PROVE  Atomic!Goes(r, Stages[r].at, StageOf(p, j))
  BY StageMoves DEF Atomic!Goes

LEMMA StageOnly ==
    ASSUME TypeOK, NEW r \in Requests, NEW p, NEW j, Start(r, p, j), UNCHANGED tables
    PROVE  Atomic!Only(r, Stages[r].at, StageOf(p, j))
  BY StageGoes DEF tables, Atomic!tables, Atomic!Only

LEMMA AnswerGoes ==
    ASSUME TypeOK, NEW r \in Requests, NEW code, Answer(r, code)
    PROVE  Atomic!Goes(r, Stages[r].at, Atomic!Told(code))
  <1>1. StageOf("answer", [code |-> code]) = Atomic!Told(code)
    BY StageAt
  <1>. QED
    BY <1>1, StageGoes DEF Answer

LEMMA AnswerOnly ==
    ASSUME TypeOK, NEW r \in Requests, NEW code, Answer(r, code), UNCHANGED tables
    PROVE  Atomic!Only(r, Stages[r].at, Atomic!Told(code))
  BY AnswerGoes DEF tables, Atomic!tables, Atomic!Only

LEMMA CommitDone ==
    ASSUME TypeOK, NEW r \in Requests, AnswerCommitted(r)
    PROVE  Atomic!Done(r, Stages[r].at)
  BY AnswerGoes DEF AnswerCommitted, Atomic!Done

LEMMA IdleAt ==
    ASSUME NEW r \in Requests, pc[r] = "idle"
    PROVE  Stages[r].at = "idle"
  BY StageAt DEF Stages, Atomic!Idle

(* What a request begins.                                                  *)
LEMMA BeginActsAtomically ==
    ASSUME IInv, NEW r \in Requests, Begin(r)
    PROVE  Atomic!Begin(r)
  <1>. TypeOK
    BY DEF IInv
  <1>1. ASSUME NEW a \in Accounts, LookupFails(r, a) PROVE Atomic!NotRegistered(r, a)
    BY <1>1, AnswerOnly, IdleAt, SameTables
    DEF LookupFails, locks, Atomic!NotRegistered
  <1>2. ASSUME NEW a \in Accounts, NEW l \in Licenses, NEW p, NEW j,
               Lookup(r, a, l), Start(r, p, j), UNCHANGED tables
        PROVE  Atomic!Sold(a, l) /\ Atomic!Only(r, "idle", StageOf(p, j))
    BY <1>2, StageOnly, IdleAt, SameTables DEF Lookup
  <1>3. ASSUME NEW a \in Accounts, Check(r, a)
        PROVE  \E l \in Licenses : Atomic!Check(r, a, l)
    <2>1. PICK l \in Licenses : Lookup(r, a, l) /\ Start(r, "count", [lic |-> l])
      BY <1>3 DEF Check
    <2>2. StageOf("count", [lic |-> l]) = Atomic!Counting /\ UNCHANGED tables
      BY <1>3, StageAt DEF Check
    <2>. QED
      BY <1>2, <2>1, <2>2 DEF Atomic!Check
  <1>4. ASSUME NEW a \in Accounts, NEW b \in Branches, RegisterLookup(r, a, b)
        PROVE  \E l \in Licenses : Atomic!LookUp(r, a, l, b)
    <2>1. PICK l \in Licenses :
             /\ Lookup(r, a, l)
             /\ Start(r, "reg_lock", [lic |-> l, code |-> b, max |-> lc[l].max,
                                      found |-> "NONE", count |-> 0])
      BY <1>4 DEF RegisterLookup
    <2>. DEFINE j == [lic |-> l, code |-> b, max |-> lc[l].max,
                      found |-> "NONE", count |-> 0]
    <2>2. StageOf("reg_lock", j) = Atomic!Found(l, b, lc[l].max) /\ UNCHANGED tables
      BY <1>4, StageAt DEF RegisterLookup, RegisterPcs
    <2>. QED
      BY <1>2, <2>1, <2>2 DEF Atomic!LookUp
  <1>5. ASSUME NEW a \in Accounts, NEW b \in Branches, ReleaseLookup(r, a, b)
        PROVE  \E l \in Licenses : Atomic!LookUpToFree(r, a, l, b)
    <2>1. PICK l \in Licenses :
             Lookup(r, a, l) /\ Start(r, "rel_update", [lic |-> l, code |-> b])
      BY <1>5 DEF ReleaseLookup
    <2>2. /\ StageOf("rel_update", [lic |-> l, code |-> b]) = Atomic!Freeing(l, b)
          /\ UNCHANGED tables
      BY <1>5, StageAt DEF ReleaseLookup
    <2>. QED
      BY <1>2, <2>1, <2>2 DEF Atomic!LookUpToFree
  <1>6. ASSUME NEW i \in BranchRows, NEW adm \in Admins, ForceDeactivateBranch(r, i, adm)
        PROVE  i \in Atomic!Slots /\ Atomic!ForceFree(r, i, adm)
    <2>1. i \in Atomic!Slots /\ pc[r] = "idle"
      BY <1>6 DEF ForceDeactivateBranch, BranchRows, Atomic!Slots
    <2>2. CASE FreeSlot(i, adm) /\ AnswerCommitted(r)
      BY <2>1, <2>2, CommitDone, IdleAt DEF FreeSlot, Atomic!ForceFree, Atomic!Free
    <2>3. CASE NothingToFree(r, i)
      BY <2>1, <2>3, AnswerOnly, IdleAt DEF NothingToFree, Atomic!ForceFree
    <2>. QED
      BY <1>6, <2>1, <2>2, <2>3 DEF ForceDeactivateBranch
  <1>7. ASSUME NEW l \in Licenses, CreateLicense(r, l) PROVE Atomic!Open(r, l)
    BY <1>7, CommitDone, IdleAt, SameTables
    DEF CreateLicense, LicensesOf, Atomic!Open
  <1>8. ASSUME NEW l \in Licenses, NEW n \in Quota, SetMaxBranches(r, l, n)
        PROVE  n \in 0..MaxQuota /\ Atomic!SetQuota(r, l, n)
    BY <1>8, CommitDone, IdleAt, SameTables
    DEF SetMaxBranches, Quota, Atomic!SetQuota
  <1>9. ASSUME NEW l \in Licenses, SetMaxMissing(r, l) PROVE Atomic!NoQuotaToSet(r, l)
    BY <1>9, AnswerOnly, IdleAt, SameTables
    DEF SetMaxMissing, Live, Atomic!NoQuotaToSet
  <1>10. ASSUME NEW l \in Licenses, DeleteStart(r, l) PROVE Atomic!BeginClose(r, l)
    <2>. DEFINE j == [lic |-> l, todo |-> {b \in Branches : HasRow(<<l, b>>)},
                      gone |-> {}]
    <2>1. StageOf("del_rows", j) = Atomic!Closing(l)
      BY StageAt DEF DeletePcs
    <2>2. /\ pc[r] = "idle" /\ lc[l].state # "unborn"
          /\ Start(r, "del_rows", j) /\ UNCHANGED tables
      BY <1>10 DEF DeleteStart
    <2>. HIDE DEF j
    <2>. QED
      BY <2>1, <2>2, StageOnly, IdleAt DEF Atomic!BeginClose
  <1>11. ASSUME NEW p \in Products, NEW aktif \in BOOLEAN, SetProductStatus(r, p, aktif)
         PROVE  Atomic!SetProductStatus(r, p, aktif)
    BY <1>11, CommitDone, IdleAt DEF SetProductStatus, Atomic!SetProductStatus
  <1>12. ASSUME NEW code, Reject(r, code) PROVE Atomic!Reject(r, code)
    BY <1>12, AnswerOnly, IdleAt DEF Reject, Atomic!Reject
  <1>. QED
    BY <1>1, <1>3, <1>4, <1>5, <1>6, <1>7, <1>8, <1>9, <1>10, <1>11, <1>12
    DEF Begin, Atomic!Begin

(* Inside Register the row found is as it was found, and a count below the *)
(* quota is still below it.                                                *)
LEMMA RegisterActsAtomically ==
    ASSUME IInv, NEW r \in Requests,
           RegisterReuse(r) \/ RegisterRefuse(r) \/ RegisterWrite(r) \/ RegisterOrphan(r)
    PROVE  Atomic!Advance(r)
  <1>. TypeOK
    BY DEF IInv
  <1>. DEFINE l == job[r].lic
              b == job[r].code
              max == job[r].max
  <1>1. /\ pc[r] \in InsideRegister \ {"reg_row"}
        /\ job[r] \in RegisterJob
    BY JobTypes
    DEF RegisterReuse, RegisterRefuse, RegisterWrite, RegisterOrphan, RegisterPcs,
        InsideRegister
  <1>2. l \in Licenses /\ b \in Branches /\ max \in Nat /\ job[r].count \in Nat
    <2>1. max \in Nat
      BY <1>1, BranchConstantsAssumption DEF RegisterJob, Quota
    <2>2. job[r].count \in Nat
      BY <1>1 DEF RegisterJob
    <2>. QED
      BY <1>1, <2>1, <2>2 DEF RegisterJob
  <1>3. /\ Stages[r] = Atomic!Found(l, b, max)
        /\ Stages[r].at = "found" /\ Stages[r].lic = l
        /\ Stages[r].code = b /\ Stages[r].max = max
    BY <1>1, StageAt DEF Stages, RegisterPcs, Atomic!Found
  <1>4. b \in Holders(l) <=> pc[r] = "reg_reuse"
    BY <1>1, <1>2 DEF IInv, FoundRowInv, Holders, HoldersIn
  <1>5. Atomic!Holders(l) = Holders(l) /\ (Atomic!Live(l) <=> Live(l))
    BY <1>2, SameTables
  <1>6. Atomic!HasFreeSlot(r) <=> Cardinality(Holders(l)) < max
    BY <1>3, <1>5, SameTables DEF Atomic!HasFreeSlot
  <1>7. CASE RegisterReuse(r)
    <2>1. Atomic!Only(r, "found", Atomic!Counting)
      BY <1>3, <1>7, StageAt, StageOnly DEF RegisterReuse
    <2>2. Atomic!KeepSlot(r)
      BY <1>3, <1>4, <1>5, <1>7, <2>1 DEF RegisterReuse, Atomic!KeepSlot
    <2>. QED
      BY <2>2 DEF Atomic!Advance
  <1>8. CASE RegisterRefuse(r)
    <2>1. Atomic!Only(r, "found", Atomic!Told("QUOTA_EXCEEDED"))
      BY <1>3, <1>8, AnswerOnly DEF RegisterRefuse
    <2>2. ~Atomic!HasFreeSlot(r) /\ b \notin Holders(l)
      BY <1>4, <1>6, <1>8 DEF RegisterRefuse, HasFreeSlot
    <2>3. Atomic!Refuse(r)
      BY <1>3, <1>5, <2>1, <2>2 DEF Atomic!Refuse
    <2>. QED
      BY <2>3 DEF Atomic!Advance
  <1>9. CASE RegisterWrite(r)
    <2>1. /\ pc[r] = "reg_write" /\ Live(l) /\ AnswerCommitted(r)
          /\ UNCHANGED <<productActive, lc>>
          /\ br' = [br EXCEPT ![<<l, b>>] = [status |-> "ACTIVE", by |-> Null]]
      BY <1>9 DEF RegisterWrite, ParentExists, GrantedRow
    <2>2. Cardinality(Holders(l)) <= job[r].count /\ job[r].count < max
      BY <2>1 DEF IInv, CountStaysTrue, QuotaReadInv
    <2>3. Cardinality(Holders(l)) \in Nat
      BY <1>2, HoldersFinite
    <2>4. Atomic!HasFreeSlot(r) /\ b \notin Holders(l)
      BY <1>2, <1>4, <1>6, <2>1, <2>2, <2>3
    <2>5. Atomic!Done(r, "found")
      BY <1>3, <2>1, CommitDone
    <2>. HIDE DEF l, b, max
    <2>6. Atomic!TakeSlot(r)
      BY <1>3, <1>5, <2>1, <2>4, <2>5 DEF Atomic!TakeSlot
    <2>. QED
      BY <2>6 DEF Atomic!Advance
  <1>10. CASE RegisterOrphan(r)
    BY <1>3, <1>10, AnswerOnly DEF RegisterOrphan, Atomic!Fail, Atomic!Advance
  <1>. QED
    BY <1>7, <1>8, <1>9, <1>10

LEMMA ReleaseActsAtomically ==
    ASSUME IInv, NEW r \in Requests, ReleaseUpdate(r)
    PROVE  Atomic!Advance(r)
  <1>. TypeOK
    BY DEF IInv
  <1>. DEFINE l == job[r].lic
              b == job[r].code
  <1>1. /\ pc[r] = "rel_update" /\ l \in Licenses /\ b \in Branches
        /\ <<l, b>> \in BranchRows
    BY JobTypes DEF ReleaseUpdate, ReleaseJob
  <1>2. /\ Stages[r].at = "freeing" /\ Stages[r].lic = l /\ Stages[r].code = b
    BY <1>1, StageAt DEF Stages, Atomic!Freeing
  <1>3. CASE /\ FreeSlot(<<l, b>>, br[<<l, b>>].by)
             /\ Start(r, "count", [lic |-> l]) \/ Answer(r, "INTERNAL")
    <2>1. br[<<l, b>>].by = Null
      BY <1>1, <1>3 DEF FreeSlot, IInv, ActiveBranchHasNoReleaser
    <2>2. Atomic!Free(<<l, b>>, Null)
      BY <1>3, <2>1 DEF FreeSlot, Atomic!Free
    <2>3. CASE Start(r, "count", [lic |-> l])
      <3>1. Atomic!Goes(r, "freeing", Atomic!Counting)
        BY <1>2, <2>3, StageAt, StageGoes
      <3>. QED
        BY <1>2, <2>2, <3>1 DEF Atomic!FreeSlot, Atomic!Advance
    <2>4. CASE Answer(r, "INTERNAL")
      BY <1>2, <2>2, <2>4, AnswerGoes DEF Atomic!FreeSlot, Atomic!Advance
    <2>. QED
      BY <1>3, <2>3, <2>4
  <1>4. CASE NothingToFree(r, <<l, b>>)
    <2>1. b \notin Holders(l) /\ Atomic!Holders(l) = Holders(l)
      BY <1>1, <1>4, SameTables DEF NothingToFree, Holders, HoldersIn
    <2>2. Atomic!Only(r, "freeing", Atomic!Told("NOT_FOUND"))
      BY <1>2, <1>4, AnswerOnly DEF NothingToFree
    <2>. QED
      BY <1>2, <2>1, <2>2 DEF Atomic!NothingToFree, Atomic!Advance
  <1>. QED
    BY <1>3, <1>4 DEF ReleaseUpdate

(* The foreign key sees to it that a deletion takes every branch or none.  *)
LEMMA DeleteActsAtomically ==
    ASSUME IInv, NoRowIsEmpty, NEW r \in Requests, DeleteCommit(r) \/ DeleteRefused(r)
    PROVE  Atomic!Advance(r)
  <1>. TypeOK
    BY DEF IInv
  <1>. DEFINE l == job[r].lic
  <1>1. pc[r] = "del_parent" /\ l \in Licenses
    BY JobTypes DEF DeleteCommit, DeleteRefused, DeletePcs, DeleteJob
  <1>2. Stages[r].at = "closing" /\ Stages[r].lic = l
    BY <1>1, StageAt DEF Stages, DeletePcs, Atomic!Closing
  <1>3. CASE DeleteCommit(r)
    <2>1. /\ Live(l) /\ AnswerCommitted(r) /\ UNCHANGED productActive
          /\ lc' = [lc EXCEPT ![l] = Atomic!NoLicense("deleted")]
          /\ br' = [i \in BranchRows |->
                       IF i[1] = l /\ i[2] \in job[r].gone THEN NoBranch ELSE br[i]]
          /\ \A b \in Branches \ job[r].gone : ~HasRow(<<l, b>>)
      BY <1>3 DEF DeleteCommit, ReferencedByBranches, Atomic!NoLicense
    <2>2. \A i \in BranchRows :
             i[1] = l /\ i[2] \notin job[r].gone => br[i] = NoBranch
      BY <2>1 DEF NoRowIsEmpty, BranchRows
    <2>3. br' = [i \in Atomic!Slots |-> IF i[1] = l THEN Atomic!NoBranch ELSE br[i]]
      <3>. HIDE DEF l
      <3>. QED
        BY <2>1, <2>2 DEF BranchRows, Atomic!Slots, NoBranch, Atomic!NoBranch
    <2>4. Atomic!Done(r, "closing")
      BY <1>2, <2>1, CommitDone
    <2>5. Atomic!Close(r)
      BY <1>1, <1>2, <2>1, <2>3, <2>4, SameTables DEF Atomic!Close
    <2>. QED
      BY <2>5 DEF Atomic!Advance
  <1>4. CASE DeleteRefused(r)
    BY <1>1, <1>2, <1>4, AnswerOnly, SameTables
    DEF DeleteRefused, Atomic!NothingToClose, Atomic!Fail, Atomic!Advance
  <1>. QED
    BY <1>3, <1>4

(* A failure, a step that locks, reads or counts.                          *)
LEMMA FailsAtomically ==
    ASSUME TypeOK, NEW r \in Requests, Fail(r)
    PROVE  Atomic!Advance(r)
  <1>1. pc[r] \in RegisterPcs \cup DeletePcs \cup {"idle", "rel_update", "count"}
    BY DEF Fail, TypeOK, Pcs
  <1>2. Stages[r].at \in {"idle", "found", "freeing", "counting", "closing"}
    BY <1>1, StageAt
    DEF Stages, Atomic!Idle, Atomic!Found, Atomic!Freeing, Atomic!Counting,
        Atomic!Closing
  <1>. QED
    BY <1>2, AnswerOnly DEF Fail, Atomic!Fail, Atomic!Advance

LEMMA LocksAreUnseen ==
    ASSUME IInv, NEW r \in Requests,
           RegisterLock(r) \/ RegisterFindRow(r) \/ RegisterCount(r)
               \/ DeleteRow(r) \/ DeleteSwept(r)
    PROVE  UNCHANGED Atomic!vars
  <1>. TypeOK
    BY DEF IInv
  <1>1. ASSUME pc[r] \in RegisterPcs, NEW p \in RegisterPcs, NEW j,
               j.lic = job[r].lic, j.code = job[r].code, j.max = job[r].max,
               Start(r, p, j), UNCHANGED tables
        PROVE  UNCHANGED Atomic!vars
    <2>1. StageOf(p, j) = Stages[r]
      BY <1>1, StageAt DEF Stages
    <2>. QED
      BY <1>1, <2>1, StageStays
  <1>2. ASSUME pc[r] \in DeletePcs, NEW p \in DeletePcs, NEW j,
               j.lic = job[r].lic, Start(r, p, j), UNCHANGED tables
        PROVE  UNCHANGED Atomic!vars
    <2>1. StageOf(p, j) = Stages[r]
      BY <1>2, StageAt DEF Stages
    <2>. QED
      BY <1>2, <2>1, StageStays
  <1>3. /\ {"reg_lock", "reg_row", "reg_reuse", "reg_count", "reg_write"} = RegisterPcs
        /\ {"del_rows", "del_parent"} = DeletePcs
        /\ pc[r] \in RegisterPcs => job[r] \in RegisterJob
        /\ pc[r] \in DeletePcs => job[r] \in DeleteJob
    BY JobTypes DEF RegisterPcs, InsideRegister, DeletePcs
  <1>4. CASE RegisterLock(r)
    BY <1>1, <1>3, <1>4 DEF RegisterLock
  <1>5. CASE RegisterFindRow(r)
    <2>1. PICK p \in {"reg_reuse", "reg_count"} : \E f :
             Start(r, p, [job[r] EXCEPT !.found = f])
      BY <1>5 DEF RegisterFindRow
    <2>2. PICK found : Start(r, p, [job[r] EXCEPT !.found = found])
      BY <2>1
    <2>. DEFINE j == [job[r] EXCEPT !.found = found]
    <2>3. pc[r] \in RegisterPcs /\ p \in RegisterPcs /\ UNCHANGED tables
      BY <1>3, <1>5 DEF RegisterFindRow
    <2>4. j.lic = job[r].lic /\ j.code = job[r].code /\ j.max = job[r].max
      BY <1>3, <2>3 DEF RegisterJob
    <2>5. Start(r, p, j)
      BY <2>2
    <2>. HIDE DEF j
    <2>. QED
      BY <1>1, <2>3, <2>4, <2>5
  <1>6. CASE RegisterCount(r)
    <2>1. PICK taken : Start(r, "reg_write", [job[r] EXCEPT !.count = taken])
      BY <1>6 DEF RegisterCount
    <2>. DEFINE j == [job[r] EXCEPT !.count = taken]
    <2>2. pc[r] \in RegisterPcs /\ "reg_write" \in RegisterPcs /\ UNCHANGED tables
      BY <1>3, <1>6 DEF RegisterCount
    <2>3. j.lic = job[r].lic /\ j.code = job[r].code /\ j.max = job[r].max
      BY <1>3, <2>2 DEF RegisterJob
    <2>4. Start(r, "reg_write", j)
      BY <2>1
    <2>. HIDE DEF j
    <2>. QED
      BY <1>1, <2>2, <2>3, <2>4
  <1>7. CASE DeleteRow(r)
    <2>1. PICK b \in job[r].todo :
             /\ pc[r] = "del_rows" /\ UNCHANGED <<pc, tables>>
             /\ job' = [job EXCEPT ![r].todo = @ \ {b}, ![r].gone = @ \cup {b}]
      BY <1>7 DEF DeleteRow
    <2>. DEFINE j == [job[r] EXCEPT !.todo = job[r].todo \ {b},
                                    !.gone = job[r].gone \cup {b}]
    <2>2. pc[r] \in DeletePcs /\ "del_rows" \in DeletePcs /\ j.lic = job[r].lic
      BY <1>3, <2>1 DEF DeleteJob
    <2>3. pc' = [pc EXCEPT ![r] = "del_rows"] /\ job' = [job EXCEPT ![r] = j]
      BY <2>1 DEF TypeOK
    <2>. HIDE DEF j
    <2>. QED
      BY <1>2, <2>1, <2>2, <2>3 DEF Start
  <1>8. CASE DeleteSwept(r)
    BY <1>2, <1>3, <1>8 DEF DeleteSwept
  <1>. QED
    BY <1>4, <1>5, <1>6, <1>7, <1>8

(* Under the locks of its transactions the server does, one request after  *)
(* the other, what AtomicBranches does: Check, Register, Release,          *)
(* ForceDeactivateBranch, SetMaxBranches, SetProductStatus and             *)
(* DeleteLicense take effect in one step or not at all, and their answers  *)
(* are true of that step.                                                  *)
THEOREM ImplementsAtomicBranches == Spec => ActsAtomically
  <1>1. Init => Atomic!Init
    BY StageAt
    DEF Init, Atomic!Init, Stages, Atomic!NoLicense, NoBranch, Atomic!NoBranch,
        BranchRows, Atomic!Slots
  <1>2. IInv /\ NoRowIsEmpty /\ [Next]_vars => [Atomic!Next]_(Atomic!vars)
    <2>. SUFFICES ASSUME IInv, NoRowIsEmpty, [Next]_vars
                  PROVE  [Atomic!Next]_(Atomic!vars)
      OBVIOUS
    <2>. TypeOK
      BY DEF IInv
    <2>1. ASSUME NEW r \in Requests, Begin(r) PROVE Atomic!Next
      BY <2>1, BeginActsAtomically DEF Atomic!Next
    <2>2. ASSUME NEW r \in Requests, Advance(r) PROVE [Atomic!Next]_(Atomic!vars)
      <3>1. CASE CountActive(r)
        <4>1. Stages[r].at = "counting"
          BY <3>1, StageAt DEF CountActive, Stages, Atomic!Counting
        <4>. QED
          BY <3>1, <4>1, AnswerOnly
          DEF CountActive, Atomic!Count, Atomic!Advance, Atomic!Next
      <3>. QED
        BY <2>2, <3>1, RegisterActsAtomically, ReleaseActsAtomically,
           DeleteActsAtomically, LocksAreUnseen
        DEF Advance, Atomic!Next
    <2>3. ASSUME NEW r \in Requests, Fail(r) PROVE Atomic!Next
      BY <2>3, FailsAtomically DEF Atomic!Next
    <2>4. ASSUME NEW r \in Requests, Respond(r) PROVE Atomic!Next
      <3>1. /\ Stages[r].at = "told" /\ StageOf("idle", NoJob) = Atomic!Idle
            /\ Start(r, "idle", NoJob) /\ UNCHANGED tables
        BY <2>4, StageAt DEF Respond, Stages, Atomic!Told
      <3>2. Atomic!Respond(r)
        BY <3>1, StageOnly DEF Atomic!Respond
      <3>. QED
        BY <3>2 DEF Atomic!Next, Atomic!Advance
    <2>5. CASE UNCHANGED vars
      BY <2>5 DEF vars, Stages, Atomic!vars
    <2>. QED
      BY <2>1, <2>2, <2>3, <2>4, <2>5 DEF Next
  <1>. QED
    BY <1>1, <1>2, Invariance, RowsAreEmpty, PTL DEF Spec, ActsAtomically, Atomic!Spec
=============================================================================

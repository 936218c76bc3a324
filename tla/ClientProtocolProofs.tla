------------------------- MODULE ClientProtocolProofs -------------------------
(***************************************************************************)
(* Proofs about ClientProtocol, for any number of machines and branches,   *)
(* of licenses bought one after the other, and of requests given up.       *)
(*                                                                         *)
(* The inductive invariant is split by unit: but for the quota, a step     *)
(* concerns one unit, or the license of all of them.  The last part shows  *)
(* that ClientProtocol implements SeatQuota.                               *)
(***************************************************************************)
EXTENDS ClientProtocol, FiniteSetTheorems, TLAPS

Slot == {"now", "late"}

UnitInv(u) ==
    LET c == call[u]["now"] IN
    /\ c.at = "none" \/ c.op = "none" => Idle(u)
    /\ c.op \in Enters => mode[u] \in {"joining", "using"}
    /\ c.op \in Releases => mode[u] = "leaving"
    /\ c.op = "deactivate" => u \in Machines
    /\ c.op = "deactivate" /\ c.at = "sent" => c.id = file[u].id
    /\ ~disturbed[u] =>
        /\ c.at = "answered" =>
            /\ c.op \in Enters /\ c.code = "OK" => Active(u)
            /\ c.op \in Enters /\ c.code = "QUOTA_EXCEEDED" => ~Active(u)
            /\ c.op = "deactivate" /\ c.code \in Released =>
                  ~Active(u) \/ file[u].id # row[u].id
            /\ c.op = "release" /\ c.code \in Released => ~Active(u)
        /\ c.op = "release" /\ c.at = "looked" /\ Active(u) => c.id = row[u].id
        /\ mode[u] = "using" => Active(u)
        /\ mode[u] \in {"left", "full"} =>
              \/ ~Active(u)
              \/ mode[u] = "left" /\ u \in Machines /\ file[u].id # row[u].id
    /\ Active(u) => live /\ row[u].id = lic

Numbered == lic + toCome.licenses <= MaxLicenses

LEMMA InvariantByUnit ==
    /\ IInv <=> TypeOK /\ Numbered /\ TakenWithinQuota /\ \A u \in Units : UnitInv(u)
    /\ IInv' <=> TypeOK' /\ Numbered' /\ TakenWithinQuota' /\ \A u \in Units : UnitInv(u)'
  <1>. USE DEF IInv, Numbered, CallServesMode, AnswersAreTrue, RowsOfLicense,
               RunningIsSeated, OutsiderHoldsNothing, UnitInv
  <1>1. IInv <=> TypeOK /\ Numbered /\ TakenWithinQuota /\ \A u \in Units : UnitInv(u)
    OBVIOUS
  <1>2. IInv' <=>
          TypeOK' /\ Numbered' /\ TakenWithinQuota' /\ \A u \in Units : UnitInv(u)'
    OBVIOUS
  <1>. QED
    BY <1>1, <1>2

-----------------------------------------------------------------------------
(* One unit moves.                                                         *)

LEMMA UnitsAreFinite ==
    \A u \in Units : IsFiniteSet(Like(u)) /\ Quota(u) \in Nat
  BY ClientAssumption DEF Like, Quota

(* The rows that are ACTIVE do not become more.                            *)
LEMMA NobodyEnters ==
    ASSUME TakenWithinQuota,
           \A u \in Units : row'[u].status = "ACTIVE" => row[u].status = "ACTIVE"
    PROVE  TakenWithinQuota'
  <1>. SUFFICES ASSUME NEW u \in Units PROVE Cardinality(Taken(u)') <= Quota(u)
    BY DEF TakenWithinQuota, Quota
  <1>1. /\ IsFiniteSet(Like(u)) /\ Quota(u) \in Nat /\ Like(u) \subseteq Units
        /\ Taken(u) \subseteq Like(u)
    BY UnitsAreFinite DEF Like, Units, Taken
  <1>2. Taken(u)' \subseteq Taken(u)
    BY <1>1 DEF Taken, Like, Active
  <1>3. /\ IsFiniteSet(Taken(u)) /\ IsFiniteSet(Taken(u)')
        /\ Cardinality(Taken(u)') <= Cardinality(Taken(u))
    BY <1>1, <1>2, FS_Subset
  <1>4. Cardinality(Taken(u)) \in Nat /\ Cardinality(Taken(u)') \in Nat
    BY <1>3, FS_CardinalityType
  <1>. QED
    BY <1>1, <1>3, <1>4 DEF TakenWithinQuota

(* One unit's row becomes ACTIVE where there is room.                      *)
LEMMA OneEnters ==
    ASSUME TakenWithinQuota, NEW u \in Units, HasRoom(u),
           \A v \in Units \ {u} : row'[v].status = row[v].status
    PROVE  TakenWithinQuota'
  <1>. SUFFICES ASSUME NEW v \in Units PROVE Cardinality(Taken(v)') <= Quota(v)
    BY DEF TakenWithinQuota, Quota
  <1>1. /\ IsFiniteSet(Like(v)) /\ Quota(v) \in Nat /\ Like(v) \subseteq Units
        /\ Taken(v) \subseteq Like(v)
    BY UnitsAreFinite DEF Like, Units, Taken
  <1>2. IsFiniteSet(Taken(v)) /\ Cardinality(Taken(v)) \in Nat
    BY <1>1, FS_Subset, FS_CardinalityType
  <1>3. CASE u \in Like(v)
    <2>1. Taken(v)' \subseteq Taken(v) \cup {u}
      BY <1>1 DEF Taken, Like, Active
    <2>2. /\ IsFiniteSet(Taken(v) \cup {u})
          /\ Cardinality(Taken(v) \cup {u}) <= Cardinality(Taken(v)) + 1
      <3>. DEFINE T == Taken(v)
      <3>1. IsFiniteSet(T) /\ Cardinality(T) \in Nat
        BY <1>2
      <3>. HIDE DEF T
      <3>2. /\ IsFiniteSet(T \cup {u})
            /\ \/ Cardinality(T \cup {u}) = Cardinality(T)
               \/ Cardinality(T \cup {u}) = Cardinality(T) + 1
        BY <3>1, FS_AddElement
      <3>3. Cardinality(T \cup {u}) <= Cardinality(T) + 1
        BY <3>1, <3>2
      <3>. QED
        BY <3>2, <3>3 DEF T
    <2>3. Like(u) = Like(v) /\ Quota(u) = Quota(v)
      BY <1>3, ClientAssumption DEF Like, Quota, Units
    <2>4. Cardinality(Taken(v)) < Quota(v)
      BY <2>3 DEF HasRoom, Taken
    <2>5. Cardinality(Taken(v)') <= Cardinality(Taken(v) \cup {u})
      BY <2>1, <2>2, FS_Subset
    <2>6. /\ Cardinality(Taken(v) \cup {u}) \in Nat /\ Cardinality(Taken(v)') \in Nat
      BY <2>1, <2>2, FS_Subset, FS_CardinalityType
    <2>. QED
      BY <1>1, <1>2, <2>2, <2>4, <2>5, <2>6
  <1>4. CASE u \notin Like(v)
    <2>1. Taken(v)' = Taken(v)
      BY <1>1, <1>4 DEF Taken, Like, Active
    <2>. QED
      BY <2>1 DEF TakenWithinQuota
  <1>. QED
    BY <1>3, <1>4

(* Everything but unit u is as it was.                                     *)
LEMMA UnitMoves ==
    ASSUME IInv, NEW u \in Units, TypeOK', Numbered', TakenWithinQuota',
           UNCHANGED <<lic, live>>,
           \A v \in Units \ {u} :
              /\ row'[v] = row[v] /\ call'[v]["now"] = call[v]["now"]
              /\ mode'[v] = mode[v] /\ disturbed'[v] = disturbed[v]
              /\ v \in Machines => file'[v] = file[v],
           UnitInv(u)'
    PROVE  IInv'
  <1>1. \A v \in Units : UnitInv(v)
    BY InvariantByUnit
  <1>2. ASSUME NEW v \in Units \ {u} PROVE UnitInv(v)'
    BY <1>1 DEF UnitInv, Idle, Active
  <1>. QED
    BY <1>2, InvariantByUnit

(* What putting a call in its slot changes.                                *)
LEMMA PutMoves ==
    ASSUME TypeOK, NEW u \in Units, NEW k \in Slot, NEW c \in Call,
           call' = [call EXCEPT ![u][k] = c]
    PROVE  /\ call' \in [Units -> [{"now", "late"} -> Call]]
           /\ call'[u][k] = c
           /\ k = "late" => call'[u]["now"] = call[u]["now"]
           /\ \A v \in Units \ {u} : call'[v] = call[v]
  BY DEF TypeOK, Slot

LEMMA NoCallIsCall == NoCall \in Call /\ NoRow \in Row /\ NoFile \in File
  BY ClientAssumption DEF NoCall, Call, Ops, Ids, Codes, NoRow, Row, NoFile, File

LEMMA AnswerMoves ==
    ASSUME TypeOK, NEW u \in Units, NEW k \in Slot, NEW code \in Codes,
           Answer(u, k, code)
    PROVE  /\ call' \in [Units -> [{"now", "late"} -> Call]]
           /\ \A v \in Units \ {u} : call'[v] = call[v]
           /\ k = "late" => call'[u]["now"] = call[u]["now"]
           /\ k = "now" => /\ call'[u]["now"].op = call[u]["now"].op
                           /\ call'[u]["now"].at = "answered"
                           /\ call'[u]["now"].code = code
  <1>. DEFINE b == IF call[u][k].op = "activate" /\ code = "OK" THEN call[u][k]
                   ELSE [NoCall EXCEPT !.op = call[u][k].op]
              c == [b EXCEPT !.at = "answered", !.code = code]
  <1>1. call[u][k] \in Call
    BY DEF TypeOK, Slot
  <1>2. b \in Call /\ b.op = call[u][k].op
    BY <1>1, NoCallIsCall DEF Call, NoCall
  <1>. HIDE DEF b
  <1>3. c \in Call /\ c.op = call[u][k].op /\ c.at = "answered" /\ c.code = code
    BY <1>2 DEF Call
  <1>4. Put(u, k, c)
    BY DEF Answer, b
  <1>. HIDE DEF c
  <1>5. call' = [call EXCEPT ![u][k] = IF k = "late" THEN NoCall ELSE c]
    BY <1>3, <1>4 DEF Put
  <1>. QED
    BY <1>3, <1>5, NoCallIsCall, PutMoves DEF Slot

-----------------------------------------------------------------------------
(* The server's steps.                                                     *)

(* A call of the unit's own is answered.                                   *)
LEMMA NowAnswered ==
    ASSUME IInv, NEW u \in Units, NEW code \in Codes, Answer(u, "now", code),
           call[u]["now"].at \in {"sent", "looked"},
           UNCHANGED <<license, client>>,
           row' \in [Units -> Row], disturbed' \in [Units -> BOOLEAN],
           \A v \in Units \ {u} : row'[v] = row[v] /\ disturbed'[v] = disturbed[v],
           TakenWithinQuota',
           row'[u].status = "ACTIVE" => live /\ row'[u].id = lic,
           \/ disturbed'[u]
           \/ /\ call[u]["now"].op \in Enters /\ (code = "OK" \/ mode[u] = "using") =>
                    row'[u].status = "ACTIVE"
              /\ call[u]["now"].op \in Enters /\ code = "QUOTA_EXCEEDED" =>
                    row'[u].status # "ACTIVE"
              /\ call[u]["now"].op \in Releases /\ code \in Released =>
                    \/ row'[u].status # "ACTIVE"
                    \/ call[u]["now"].op = "deactivate" /\ file[u].id # row'[u].id
    PROVE  IInv'
  <1>1. TypeOK /\ Numbered /\ UnitInv(u)
    BY InvariantByUnit
  <1>2. "now" \in Slot
    BY DEF Slot
  <1>3. /\ call' \in [Units -> [{"now", "late"} -> Call]]
        /\ \A v \in Units \ {u} : call'[v] = call[v]
        /\ call'[u]["now"].op = call[u]["now"].op
        /\ call'[u]["now"].at = "answered" /\ call'[u]["now"].code = code
    BY <1>1, <1>2, AnswerMoves
  <1>4. TypeOK' /\ Numbered' /\ UNCHANGED <<lic, live, mode, file>>
    BY <1>1, <1>3 DEF TypeOK, Numbered, license, client
  <1>5. /\ call[u]["now"].op \in Enters \cup Releases
        /\ call[u]["now"] \in Call
    BY <1>1 DEF TypeOK, UnitInv, Idle, NoCall, Call, Ops, Enters, Releases
  <1>6. UnitInv(u)'
    BY <1>1, <1>3, <1>4, <1>5 DEF UnitInv, Idle, Active, Enters, Releases
  <1>. QED
    BY <1>3, <1>4, <1>6, UnitMoves

(* A call given up is carried out, or an admin steps in.                   *)
LEMMA OutsideMoves ==
    ASSUME IInv, NEW u \in Units,
           call' \in [Units -> [{"now", "late"} -> Call]],
           \A v \in Units : call'[v]["now"] = call[v]["now"],
           UNCHANGED <<license, client>>,
           row' \in [Units -> Row], disturbed' \in [Units -> BOOLEAN],
           \A v \in Units \ {u} : row'[v] = row[v] /\ disturbed'[v] = disturbed[v],
           TakenWithinQuota',
           row'[u].status = "ACTIVE" => live /\ row'[u].id = lic,
           disturbed'[u] \/ (row'[u] = row[u] /\ ~disturbed[u])
    PROVE  IInv'
  <1>1. TypeOK /\ Numbered /\ UnitInv(u)
    BY InvariantByUnit
  <1>2. TypeOK' /\ Numbered' /\ UNCHANGED <<lic, live, mode, file>>
    BY <1>1 DEF TypeOK, Numbered, license, client
  <1>3. UnitInv(u)'
    BY <1>1, <1>2 DEF UnitInv, Idle, Active
  <1>. QED
    BY <1>2, <1>3, UnitMoves

(* Refused, failed, or nothing to release.                                 *)
LEMMA NothingDone ==
    ASSUME IInv, NEW u \in Units, NEW k \in Slot, NEW code \in Codes,
           Answer(u, k, code), call[u][k].at \in {"sent", "looked"},
           UNCHANGED <<license, row, client>>,
           disturbed' \in [Units -> BOOLEAN],
           \A v \in Units \ {u} : disturbed'[v] = disturbed[v],
           k = "late" \/ Active(u) => disturbed'[u] = disturbed[u],
           call[u][k].op \in Enters => code # "OK" /\ disturbed'[u] = disturbed[u],
           call[u][k].op \in Enters /\ code = "QUOTA_EXCEEDED" => ~Active(u),
           call[u][k].op \in Releases /\ code \in Released =>
              \/ ~Active(u) \/ disturbed[u]
              \/ call[u][k].op = "deactivate" /\ call[u][k].at = "sent"
                                              /\ row[u].id # call[u][k].id
    PROVE  IInv'
  <1>1. TypeOK /\ TakenWithinQuota /\ UnitInv(u)
    BY InvariantByUnit
  <1>2. /\ row' = row /\ row' \in [Units -> Row]
        /\ disturbed[u] \in BOOLEAN /\ disturbed'[u] \in BOOLEAN
        /\ row'[u].status = "ACTIVE" => live /\ row'[u].id = lic
    BY <1>1 DEF TypeOK, UnitInv, Active
  <1>3. TakenWithinQuota'
    BY <1>1, <1>2, NobodyEnters
  <1>4. CASE k = "now"
    <2>1. /\ call[u]["now"].op \in Releases => mode[u] = "leaving"
          /\ mode[u] = "using" /\ ~disturbed[u] => Active(u)
          /\ call[u]["now"].op = "deactivate" /\ call[u]["now"].at = "sent" =>
                call[u]["now"].id = file[u].id
      BY <1>1 DEF UnitInv
    <2>2. CASE call[u]["now"].op \in Enters
      <3>1. call[u]["now"].op \notin Releases
        BY <2>2 DEF Enters, Releases
      <3>. QED
        BY <1>2, <1>3, <1>4, <2>1, <2>2, <3>1, NowAnswered DEF Active
    <2>3. CASE call[u]["now"].op \notin Enters
      BY <1>2, <1>3, <1>4, <2>1, <2>3, NowAnswered DEF Active
    <2>. QED
      BY <2>2, <2>3
  <1>5. CASE k = "late"
    <2>1. /\ call' \in [Units -> [{"now", "late"} -> Call]]
          /\ \A v \in Units : call'[v]["now"] = call[v]["now"]
      BY <1>1, <1>5, AnswerMoves
    <2>2. disturbed'[u] \/ (row'[u] = row[u] /\ ~disturbed[u])
      BY <1>2, <1>5
    <2>. QED
      BY <1>2, <1>3, <2>1, <2>2, OutsideMoves
  <1>. QED
    BY <1>4, <1>5 DEF Slot

LEMMA LookupStep ==
    ASSUME IInv, NEW u \in Units, NEW k \in Slot,
           NEW op \in {"activate", "register", "release"}, Lookup(u, k, op)
    PROVE  IInv'
  <1>1. TypeOK /\ Numbered /\ TakenWithinQuota /\ UnitInv(u)
    BY InvariantByUnit
  <1>2. /\ call[u][k] \in Call /\ call[u][k].op = op /\ call[u][k].at = "sent"
        /\ lic \in Ids /\ due \in Nat
        /\ UNCHANGED <<license, row, client, disturbed>>
    BY <1>1 DEF TypeOK, Slot, Lookup, Is
  <1>. DEFINE c == [call[u][k] EXCEPT !.at = "looked", !.id = lic,
                        !.due = IF op = "activate" THEN due ELSE 0]
  <1>3. /\ c \in Call /\ c.op = op /\ c.at = "looked" /\ c.id = lic
    BY <1>2 DEF Call
  <1>4. Put(u, k, c)
    BY DEF Lookup
  <1>. HIDE DEF c
  <1>5. call' = [call EXCEPT ![u][k] = c]
    BY <1>3, <1>4 DEF Put
  <1>6. /\ call' \in [Units -> [{"now", "late"} -> Call]]
        /\ call'[u][k] = c
        /\ k = "late" => call'[u]["now"] = call[u]["now"]
        /\ \A v \in Units \ {u} : call'[v] = call[v]
    BY <1>1, <1>3, <1>5, PutMoves
  <1>7. TypeOK' /\ Numbered'
    BY <1>1, <1>2, <1>6 DEF TypeOK, Numbered, license, client
  <1>8. TakenWithinQuota'
    BY <1>1, <1>2, NobodyEnters
  <1>9. UnitInv(u)'
    <2>1. CASE k = "now"
      BY <1>1, <1>2, <1>3, <1>6, <2>1
      DEF UnitInv, Idle, Active, license, client, Enters, Releases
    <2>2. CASE k = "late"
      BY <1>1, <1>2, <1>6, <2>2 DEF UnitInv, Idle, Active, license, client
    <2>. QED
      BY <2>1, <2>2 DEF Slot
  <1>. QED
    BY <1>2, <1>6, <1>7, <1>8, <1>9, UnitMoves DEF license, client

(* A row is written: a commit of /activate or /register, a release.        *)
LEMMA RowIsSet ==
    ASSUME IInv, NEW u \in Units, NEW k \in Slot,
           NEW status \in {"ACTIVE", "DEACTIVATED"},
           NEW code \in {"OK", "INTERNAL"},
           call[u][k].at \in {"sent", "looked"},
           SetStatus(u, status), Answer(u, k, code), Settle(u, k),
           UNCHANGED <<license, client>>,
           status = "ACTIVE" => /\ live /\ call[u][k].op \in Enters
                                /\ Active(u) \/ HasRoom(u),
           status = "DEACTIVATED" => Active(u) /\ call[u][k].op \in Releases
    PROVE  IInv'
  <1>1. /\ TypeOK /\ TakenWithinQuota /\ UnitInv(u)
        /\ code \in Codes
    BY InvariantByUnit DEF Codes
  <1>2. /\ row' \in [Units -> Row]
        /\ \A v \in Units \ {u} : row'[v] = row[v]
        /\ row'[u].status = status /\ row'[u].id = lic
    BY <1>1 DEF TypeOK, SetStatus, Row
  <1>3. /\ disturbed' = [disturbed EXCEPT ![u] =
                k = "late" /\ (disturbed[u] \/ row'[u].status # row[u].status)]
        /\ disturbed \in [Units -> BOOLEAN]
    BY <1>1 DEF TypeOK, Settle
  <1>4. /\ disturbed' \in [Units -> BOOLEAN]
        /\ \A v \in Units \ {u} : disturbed'[v] = disturbed[v]
        /\ disturbed'[u] = (k = "late" /\ (disturbed[u] \/ row'[u].status # row[u].status))
    <2>. DEFINE b == k = "late" /\ (disturbed[u] \/ row'[u].status # row[u].status)
    <2>1. b \in BOOLEAN /\ disturbed' = [disturbed EXCEPT ![u] = b]
      BY <1>3
    <2>. HIDE DEF b
    <2>2. /\ disturbed' \in [Units -> BOOLEAN]
          /\ \A v \in Units \ {u} : disturbed'[v] = disturbed[v]
          /\ disturbed'[u] = b
      BY <1>3, <2>1
    <2>. QED
      BY <2>2 DEF b
  <1>5. TakenWithinQuota'
    <2>1. CASE Active(u) \/ status = "DEACTIVATED"
      BY <1>1, <1>2, <2>1, NobodyEnters DEF Active
    <2>2. CASE HasRoom(u)
      BY <1>1, <1>2, <2>2, OneEnters
    <2>. QED
      BY <2>1, <2>2
  <1>6. row'[u].status = "ACTIVE" => live /\ row'[u].id = lic
    BY <1>2
  <1>7. CASE k = "now"
    <2>1. call[u]["now"].op \in Enters <=> status = "ACTIVE"
      BY <1>7 DEF Enters, Releases
    <2>2. call[u]["now"].op \in Releases <=> status = "DEACTIVATED"
      BY <1>7 DEF Enters, Releases
    <2>. QED
      BY <1>1, <1>2, <1>4, <1>5, <1>6, <1>7, <2>1, <2>2, NowAnswered
  <1>8. CASE k = "late"
    <2>1. /\ call' \in [Units -> [{"now", "late"} -> Call]]
          /\ \A v \in Units : call'[v]["now"] = call[v]["now"]
      BY <1>1, <1>8, AnswerMoves
    <2>2. disturbed'[u] \/ (row'[u] = row[u] /\ ~disturbed[u])
      <3>1. CASE row'[u].status # row[u].status
        BY <1>4, <1>8, <3>1
      <3>2. CASE row'[u].status = row[u].status
        <4>1. Active(u)
          BY <1>2, <3>2 DEF Active
        <4>2. row[u].id = lic /\ row[u] \in Row /\ row'[u] \in Row
          BY <1>1, <1>2, <4>1 DEF UnitInv, TypeOK
        <4>3. row'[u] = row[u]
          BY <1>2, <3>2, <4>2 DEF Row
        <4>. QED
          BY <1>3, <1>4, <1>8, <4>3
      <3>. QED
        BY <3>1, <3>2
    <2>. QED
      BY <1>2, <1>4, <1>5, <1>6, <2>1, <2>2, OutsideMoves
  <1>. QED
    BY <1>7, <1>8 DEF Slot

LEMMA DecideStep ==
    ASSUME IInv, NEW u \in Units, NEW k \in Slot, NEW code \in {"OK", "INTERNAL"},
           ActivateCommit(u, k, code) \/ RegisterCommit(u, k, code)
    PROVE  IInv'
  <1>1. /\ call[u][k].at = "looked" /\ call[u][k].op \in Enters
        /\ live /\ (Active(u) \/ HasRoom(u))
        /\ SetStatus(u, "ACTIVE") /\ Answer(u, k, code) /\ Settle(u, k)
        /\ UNCHANGED <<license, client>>
    BY DEF ActivateCommit, RegisterCommit, Is, Gone, MayEnter, IsReuse, Active, Enters
  <1>. QED
    BY <1>1, RowIsSet

LEMMA RefuseStep ==
    ASSUME IInv, NEW u \in Units, NEW k \in Slot,
           \/ ActivateRefuse(u, k) \/ RegisterRefuse(u, k) \/ Fail(u, k)
           \/ \E op \in {"activate", "register", "release"} : LookupFails(u, k, op)
    PROVE  IInv'
  <1>1. TypeOK
    BY InvariantByUnit
  <1>2. PICK code \in {"QUOTA_EXCEEDED", "NOT_REGISTERED", "INTERNAL"} :
           /\ Answer(u, k, code) /\ call[u][k].at \in {"sent", "looked"}
           /\ UNCHANGED <<license, row, client, disturbed>>
           /\ code = "QUOTA_EXCEEDED" => ~Active(u)
    BY DEF ActivateRefuse, RegisterRefuse, Fail, LookupFails, Is, MayEnter, IsReuse, Active
  <1>3. code \in Codes /\ code \notin Released /\ code # "OK"
    BY DEF Codes, Released
  <1>4. disturbed' \in [Units -> BOOLEAN] /\ disturbed' = disturbed
    BY <1>1, <1>2 DEF TypeOK
  <1>. QED
    BY <1>2, <1>3, <1>4, NothingDone

LEMMA ReleaseStep ==
    ASSUME IInv, NEW u \in Units, NEW k \in Slot,
           \E code \in Codes : Deactivate(u, k, code) \/ ReleaseUpdate(u, k, code)
    PROVE  IInv'
  <1>1. TypeOK /\ UnitInv(u) /\ k \in {"now", "late"}
    BY InvariantByUnit DEF Slot
  <1>2. PICK code \in {"OK", "INTERNAL", "NOT_FOUND"} :
           /\ Answer(u, k, code)
           /\ IF Names(u, call[u][k])
              THEN SetStatus(u, "DEACTIVATED") /\ Settle(u, k) /\ code # "NOT_FOUND"
              ELSE UNCHANGED row /\ SettleNothing(u, k) /\ code = "NOT_FOUND"
           /\ UNCHANGED <<license, client>>
    BY DEF Deactivate, ReleaseUpdate, Release, NothingToRelease
  <1>3. \/ call[u][k].op = "deactivate" /\ call[u][k].at = "sent"
        \/ call[u][k].op = "release" /\ call[u][k].at = "looked"
    BY DEF Deactivate, ReleaseUpdate, Is
  <1>4. CASE Names(u, call[u][k])
    BY <1>2, <1>3, <1>4, RowIsSet DEF Names, Releases
  <1>5. CASE ~Names(u, call[u][k])
    <2>1. /\ disturbed' = [disturbed EXCEPT ![u] =
                              disturbed[u] /\ (k = "late" \/ Active(u))]
          /\ disturbed \in [Units -> BOOLEAN]
      BY <1>1, <1>2, <1>5 DEF TypeOK, SettleNothing
    <2>2. /\ disturbed' \in [Units -> BOOLEAN]
          /\ \A v \in Units \ {u} : disturbed'[v] = disturbed[v]
          /\ k = "late" \/ Active(u) => disturbed'[u] = disturbed[u]
      <3>. DEFINE b == disturbed[u] /\ (k = "late" \/ Active(u))
      <3>1. disturbed[u] \in BOOLEAN /\ disturbed' = [disturbed EXCEPT ![u] = b]
        BY <2>1
      <3>2. b \in BOOLEAN /\ (k = "late" \/ Active(u) => b = disturbed[u])
        BY <3>1
      <3>. HIDE DEF b
      <3>. QED
        BY <2>1, <3>1, <3>2
    <2>3. /\ Answer(u, k, "NOT_FOUND") /\ "NOT_FOUND" \in Codes
          /\ UNCHANGED <<license, row, client>>
      BY <1>2, <1>5 DEF Codes
    <2>4. /\ call[u][k].op \notin Enters /\ call[u][k].at \in {"sent", "looked"}
      BY <1>3 DEF Enters
    <2>5. \/ ~Active(u) \/ row[u].id # call[u][k].id
      BY <1>5 DEF Names
    <2>6. CASE \/ ~Active(u) \/ disturbed[u]
               \/ call[u][k].op = "deactivate" /\ row[u].id # call[u][k].id
      BY <1>3, <2>2, <2>3, <2>4, <2>6, NothingDone
    <2>7. CASE Active(u) /\ ~disturbed[u] /\ call[u][k].op = "release"
      <3>1. k = "late"
        BY <1>1, <1>3, <2>5, <2>7 DEF UnitInv
      <3>2. /\ call' \in [Units -> [{"now", "late"} -> Call]]
            /\ \A v \in Units : call'[v]["now"] = call[v]["now"]
        BY <1>1, <2>3, <3>1, AnswerMoves
      <3>3. /\ row' \in [Units -> Row] /\ TakenWithinQuota'
            /\ row'[u].status = "ACTIVE" => live /\ row'[u].id = lic
        BY <1>1, <2>3, InvariantByUnit, NobodyEnters DEF TypeOK, UnitInv, Active
      <3>. QED
        BY <2>2, <2>3, <2>7, <3>1, <3>2, <3>3, OutsideMoves
    <2>. QED
      BY <1>3, <2>5, <2>6, <2>7
  <1>. QED
    BY <1>4, <1>5

LEMMA ServerStep ==
    ASSUME IInv, NEW u \in Units, NEW k \in Slot, Server(u, k)
    PROVE  IInv'
  <1>1. \A code \in {"OK", "INTERNAL", NothingToRelease} : code \in Codes
    BY DEF Codes, NothingToRelease
  <1>2. CASE LookUp(u, k)
    BY <1>2, LookupStep, RefuseStep DEF LookUp, ActivateLookup, RegisterLookup, ReleaseLookup
  <1>3. CASE Decide(u, k)
    BY <1>1, <1>3, DecideStep, RefuseStep, ReleaseStep DEF Decide
  <1>4. CASE DecideUntold(u, k)
    BY <1>1, <1>4, DecideStep, ReleaseStep DEF DecideUntold
  <1>5. CASE Fail(u, k)
    BY <1>5, RefuseStep
  <1>. QED
    BY <1>2, <1>3, <1>4, <1>5 DEF Server

-----------------------------------------------------------------------------
(* The caller's steps.                                                     *)

(* A step that touches no row.                                             *)
LEMMA CallerMoves ==
    ASSUME IInv, NEW u \in Units, UNCHANGED <<license, row, disturbed>>,
           call' \in [Units -> [{"now", "late"} -> Call]],
           \A v \in Units \ {u} : call'[v] = call[v],
           mode' \in [Units -> Modes], \A v \in Units \ {u} : mode'[v] = mode[v],
           file' \in [Machines -> File],
           \A m \in Machines \ {u} : file'[m] = file[m],
           UnitInv(u)'
    PROVE  IInv'
  <1>1. TypeOK /\ Numbered /\ TakenWithinQuota
    BY InvariantByUnit
  <1>2. TypeOK' /\ Numbered' /\ UNCHANGED <<lic, live>>
    BY <1>1 DEF TypeOK, Numbered, license
  <1>3. TakenWithinQuota'
    BY <1>1, NobodyEnters
  <1>. QED
    BY <1>2, <1>3, UnitMoves

LEMMA WantStep ==
    ASSUME IInv, NEW u \in Units, Want(u)
    PROVE  IInv'
  <1>1. TypeOK /\ UnitInv(u)
    BY InvariantByUnit
  <1>2. /\ mode' \in [Units -> Modes] /\ mode'[u] = "joining"
        /\ \A v \in Units \ {u} : mode'[v] = mode[v]
        /\ mode[u] \in {"out", "left", "full"}
        /\ UNCHANGED <<license, row, call, file, disturbed>>
    BY <1>1 DEF Want, TypeOK, Modes
  <1>3. UnitInv(u)'
    BY <1>1, <1>2 DEF UnitInv, Idle, Active, license
  <1>. QED
    BY <1>1, <1>2, <1>3, CallerMoves DEF TypeOK

LEMMA LeaveStep ==
    ASSUME IInv, NEW u \in Units, Leave(u)
    PROVE  IInv'
  <1>1. TypeOK /\ UnitInv(u)
    BY InvariantByUnit
  <1>2. /\ mode' \in [Units -> Modes] /\ mode'[u] = "leaving"
        /\ \A v \in Units \ {u} : mode'[v] = mode[v]
        /\ call[u]["now"] = NoCall
        /\ UNCHANGED <<license, row, call, file, disturbed>>
    BY <1>1 DEF Leave, TypeOK, Modes, Idle
  <1>3. UnitInv(u)'
    BY <1>1, <1>2
    DEF UnitInv, Idle, Active, license, NoCall, Enters, Releases
  <1>. QED
    BY <1>1, <1>2, <1>3, CallerMoves DEF TypeOK

LEMMA SendStep ==
    ASSUME IInv, NEW u \in Units, Send(u)
    PROVE  IInv'
  <1>1. TypeOK /\ UnitInv(u)
    BY InvariantByUnit
  <1>2. /\ mode[u] \in {"joining", "using", "leaving"}
        /\ call' = [call EXCEPT ![u]["now"] = Request(u)]
        /\ UNCHANGED <<license, row, client, disturbed>>
    BY DEF Send
  <1>. DEFINE c == Request(u)
  <1>3. /\ c \in Call /\ c.at = "sent"
        /\ mode[u] = "leaving" => c.op \in Releases
        /\ mode[u] # "leaving" => c.op \in Enters
        /\ c.op = "deactivate" => u \in Machines /\ c.id = file[u].id
    <2>1. (u \in Machines \/ u \in Branches) /\ ~(u \in Machines /\ u \in Branches)
      BY ClientAssumption DEF Units
    <2>2. u \in Machines => file[u].id \in Ids
      BY <1>1 DEF TypeOK, File
    <2>3. CASE u \in Machines /\ mode[u] = "leaving"
      <3>1. c = [NoCall EXCEPT !.op = "deactivate", !.at = "sent", !.id = file[u].id]
        BY <2>1, <2>3 DEF Request
      <3>. QED
        BY <2>2, <2>3, <3>1, NoCallIsCall DEF Call, NoCall, Ops, Releases
    <2>4. CASE u \in Branches /\ mode[u] = "leaving"
      <3>1. c = [NoCall EXCEPT !.op = "release", !.at = "sent"]
        BY <2>1, <2>4 DEF Request
      <3>. QED
        BY <2>4, <3>1, NoCallIsCall DEF Call, NoCall, Ops, Releases
    <2>5. CASE u \in Machines /\ mode[u] # "leaving"
      <3>1. c = [NoCall EXCEPT !.op = "activate", !.at = "sent"]
        BY <2>1, <2>5 DEF Request
      <3>. QED
        BY <2>5, <3>1, NoCallIsCall DEF Call, NoCall, Ops, Enters
    <2>6. CASE u \in Branches /\ mode[u] # "leaving"
      <3>1. c = [NoCall EXCEPT !.op = "register", !.at = "sent"]
        BY <2>1, <2>6 DEF Request
      <3>. QED
        BY <2>6, <3>1, NoCallIsCall DEF Call, NoCall, Ops, Enters
    <2>. QED
      BY <2>1, <2>3, <2>4, <2>5, <2>6
  <1>4. call' = [call EXCEPT ![u]["now"] = c]
    BY <1>2
  <1>. HIDE DEF c
  <1>5. /\ call' \in [Units -> [{"now", "late"} -> Call]]
        /\ call'[u]["now"] = c
        /\ \A v \in Units \ {u} : call'[v] = call[v]
    BY <1>1, <1>3, <1>4, PutMoves DEF Slot
  <1>6. UNCHANGED <<mode, file, row, disturbed, lic, live>>
    BY <1>2 DEF client, license
  <1>7. UnitInv(u)'
    BY <1>1, <1>2, <1>3, <1>5, <1>6 DEF UnitInv, Idle, Active, Enters, Releases
  <1>. QED
    BY <1>1, <1>2, <1>5, <1>6, <1>7, CallerMoves DEF TypeOK

LEMMA GiveUpStep ==
    ASSUME IInv, NEW u \in Units, GiveUp(u)
    PROVE  IInv'
  <1>1. TypeOK /\ UnitInv(u)
    BY InvariantByUnit
  <1>2. /\ call' \in [Units -> [{"now", "late"} -> Call]]
        /\ call'[u]["now"] = NoCall
        /\ \A v \in Units \ {u} : call'[v] = call[v]
    <2>1. CASE call' = [call EXCEPT ![u]["now"] = NoCall]
      BY <1>1, <2>1, NoCallIsCall, PutMoves DEF Slot
    <2>2. CASE call' = [call EXCEPT ![u]["now"] = NoCall, ![u]["late"] = call[u]["now"]]
      <3>1. /\ call[u]["now"] \in Call /\ call[u] \in [{"now", "late"} -> Call]
            /\ call \in [Units -> [{"now", "late"} -> Call]]
        BY <1>1 DEF TypeOK
      <3>2. call' = [call EXCEPT ![u] =
                        [call[u] EXCEPT !["now"] = NoCall, !["late"] = call[u]["now"]]]
        BY <2>2, <3>1
      <3>3. [call[u] EXCEPT !["now"] = NoCall, !["late"] = call[u]["now"]]
                \in [{"now", "late"} -> Call]
        BY <3>1, NoCallIsCall
      <3>. QED
        BY <3>1, <3>2, <3>3
    <2>. QED
      BY <2>1, <2>2 DEF GiveUp
  <1>3. UNCHANGED <<mode, file, row, disturbed, lic, live>> /\ UNCHANGED license
    BY DEF GiveUp, client, license
  <1>4. UnitInv(u)'
    BY <1>1, <1>2, <1>3 DEF UnitInv, Idle, Active, NoCall, Enters, Releases
  <1>. QED
    BY <1>1, <1>2, <1>3, <1>4, CallerMoves DEF TypeOK

(* The mode an answer leads to is as true as the answer.                   *)
LEMMA ReceiveStep ==
    ASSUME IInv, NEW u \in Units, Receive(u)
    PROVE  IInv'
  <1>1. TypeOK /\ UnitInv(u)
    BY InvariantByUnit
  <1>. DEFINE c == call[u]["now"]
              m == ModeAfter(u, c)
  <1>2. /\ c \in Call /\ c.at = "answered" /\ c.op \in Enters \cup Releases
        /\ mode[u] \in Modes
    BY <1>1 DEF Receive, TypeOK, UnitInv, Idle, NoCall, Call, Ops, Enters, Releases
  <1>3. /\ c.op \in Enters => c.op \notin Releases
        /\ c.op \in Enters <=> c.op \in {"activate", "register"}
    BY DEF Enters, Releases
  <1>4. /\ m \in Modes
        /\ m = "using" => (c.op \in Enters /\ c.code = "OK") \/ mode[u] = "using"
        /\ m = "full" => mode[u] = "full" \/ (c.op \in Enters /\ c.code = "QUOTA_EXCEEDED")
        /\ m = "left" => mode[u] = "left" \/ (c.op \in Releases /\ c.code \in Released)
        /\ c.op = "activate" /\ c.code = "OK" => m = "using"
    <2>1. c.op \in Enters => mode[u] \in {"joining", "using"}
      BY <1>1 DEF UnitInv
    <2>2. c.op \in Releases => mode[u] = "leaving"
      BY <1>1 DEF UnitInv
    <2>3. CASE c.op \in Enters /\ c.code = "OK"
      <3>1. m = "using"
        BY <1>3, <2>1, <2>3 DEF ModeAfter
      <3>. QED
        BY <2>3, <3>1 DEF Modes
    <2>4. CASE c.op \in Enters /\ c.code # "OK"
      BY <1>2, <1>3, <2>1, <2>4 DEF ModeAfter, Modes
    <2>5. CASE c.op \in Releases
      BY <1>2, <1>3, <2>2, <2>5 DEF ModeAfter, Modes, Released
    <2>. QED
      BY <1>2, <2>3, <2>4, <2>5
  <1>5. /\ mode' \in [Units -> Modes] /\ mode'[u] = m
        /\ \A v \in Units \ {u} : mode'[v] = mode[v]
    BY <1>1, <1>4 DEF Receive, TypeOK
  <1>6. /\ call' \in [Units -> [{"now", "late"} -> Call]]
        /\ call'[u]["now"] = NoCall
        /\ \A v \in Units \ {u} : call'[v] = call[v]
    BY <1>1, NoCallIsCall DEF Receive, TypeOK
  <1>7. /\ file' \in [Machines -> File]
        /\ \A x \in Machines \ {u} : file'[x] = file[x]
        /\ ~(c.op = "activate" /\ c.code = "OK") => file' = file
    <2>1. [id |-> c.id, due |-> c.due] \in File
      BY <1>2 DEF Call, File
    <2>. QED
      BY <1>1, <2>1 DEF Receive, TypeOK
  <1>8. UNCHANGED <<license, row, disturbed>> /\ UNCHANGED <<lic, live>>
    BY DEF Receive, license
  <1>. HIDE DEF m
  <1>9. UnitInv(u)'
    <2>1. /\ NoCall.at = "none" /\ NoCall.op \notin Enters \cup Releases
          /\ NoCall.op = "none"
      BY DEF NoCall, Enters, Releases
    <2>3. ~disturbed[u] /\ m = "using" => Active(u)
      BY <1>1, <1>2, <1>4 DEF UnitInv
    <2>4. ~disturbed[u] /\ m = "full" => ~Active(u)
      BY <1>1, <1>2, <1>4 DEF UnitInv
    <2>5. ~disturbed[u] /\ m = "left" =>
             ~Active(u) \/ (u \in Machines /\ file[u].id # row[u].id)
      BY <1>1, <1>2, <1>4 DEF UnitInv, Releases
    <2>6. m = "left" => file' = file
      BY <1>4, <1>7
    <2>. QED
      BY <1>1, <1>5, <1>6, <1>8, <2>1, <2>3, <2>4, <2>5, <2>6 DEF UnitInv, Idle, Active
  <1>. QED
    BY <1>5, <1>6, <1>7, <1>8, <1>9, CallerMoves

-----------------------------------------------------------------------------
(* The back office's steps.                                                *)

LEMMA RecordPurchaseStep ==
    ASSUME IInv, RecordPurchase
    PROVE  IInv'
  <1>1. TypeOK /\ Numbered /\ TakenWithinQuota /\ \A u \in Units : UnitInv(u)
    BY InvariantByUnit
  <1>2. /\ toCome' = [licenses |-> toCome.licenses - 1, renewals |-> toCome.renewals]
        /\ toCome.licenses \in Nat /\ toCome.licenses > 0 /\ toCome.renewals \in Nat
        /\ lic \in Nat /\ MaxLicenses \in Nat
    BY <1>1, ClientAssumption DEF RecordPurchase, TypeOK, Ids
  <1>3. Numbered' /\ lic' \in Ids /\ toCome' \in [licenses : Nat, renewals : Nat]
    <2>1. lic' = lic + 1 /\ toCome'.licenses = toCome.licenses - 1
      BY <1>2 DEF RecordPurchase
    <2>2. lic + toCome.licenses <= MaxLicenses
      BY <1>1 DEF Numbered
    <2>3. /\ lic + 1 \in 0..MaxLicenses /\ toCome.licenses - 1 \in Nat
          /\ (lic + 1) + (toCome.licenses - 1) <= MaxLicenses
      BY <1>2, <2>2
    <2>. QED
      BY <1>2, <2>1, <2>3 DEF Numbered, Ids
  <1>4. TypeOK'
    BY <1>1, <1>3 DEF RecordPurchase, TypeOK, client
  <1>5. TakenWithinQuota'
    BY <1>1, NobodyEnters DEF RecordPurchase
  <1>6. ASSUME NEW u \in Units PROVE UnitInv(u)'
    BY <1>1 DEF RecordPurchase, UnitInv, Idle, Active, client
  <1>. QED
    BY <1>3, <1>4, <1>5, <1>6, InvariantByUnit

LEMMA DeleteLicenseStep ==
    ASSUME IInv, DeleteLicense
    PROVE  IInv'
  <1>1. TypeOK /\ Numbered /\ TakenWithinQuota /\ \A u \in Units : UnitInv(u)
    BY InvariantByUnit
  <1>2. /\ \A u \in Units : row'[u] = NoRow /\ disturbed'[u] = (disturbed[u] \/ Active(u))
        /\ row' \in [Units -> Row] /\ disturbed' \in [Units -> BOOLEAN]
    BY NoCallIsCall, <1>1 DEF DeleteLicense, TypeOK
  <1>3. TypeOK' /\ Numbered'
    BY <1>1, <1>2 DEF DeleteLicense, TypeOK, Numbered, client
  <1>4. NoRow.status # "ACTIVE"
    BY DEF NoRow
  <1>5. TakenWithinQuota'
    BY <1>1, <1>2, <1>4, NobodyEnters
  <1>6. ASSUME NEW u \in Units PROVE UnitInv(u)'
    BY <1>1, <1>2, <1>4 DEF DeleteLicense, UnitInv, Idle, Active, client
  <1>. QED
    BY <1>3, <1>5, <1>6, InvariantByUnit

LEMMA ForceReleaseStep ==
    ASSUME IInv, NEW u \in Units, ForceRelease(u)
    PROVE  IInv'
  <1>1. TypeOK /\ TakenWithinQuota
    BY InvariantByUnit
  <1>2. /\ row' \in [Units -> Row] /\ row'[u].status = "DEACTIVATED"
        /\ \A v \in Units \ {u} : row'[v] = row[v]
        /\ disturbed' \in [Units -> BOOLEAN] /\ disturbed'[u]
        /\ \A v \in Units \ {u} : disturbed'[v] = disturbed[v]
        /\ UNCHANGED <<license, call, client>>
    BY <1>1 DEF ForceRelease, SetStatus, TypeOK, Row
  <1>3. TakenWithinQuota'
    BY <1>1, <1>2, NobodyEnters
  <1>. QED
    BY <1>1, <1>2, <1>3, OutsideMoves DEF TypeOK

LEMMA BackOfficeStep ==
    ASSUME IInv, BackOffice
    PROVE  IInv'
  <1>1. ASSUME ExtendSubscription \/ SetProductStatus PROVE IInv'
    <2>1. TypeOK /\ Numbered /\ TakenWithinQuota /\ \A u \in Units : UnitInv(u)
      BY InvariantByUnit
    <2>2. UNCHANGED <<lic, live, row, call, client, disturbed>>
      BY <1>1 DEF ExtendSubscription, SetProductStatus
    <2>3. TypeOK' /\ Numbered'
      <3>1. CASE ExtendSubscription
        <4>1. /\ toCome.licenses \in Nat /\ toCome.renewals \in Nat /\ due \in Nat
              /\ toCome' = [licenses |-> toCome.licenses,
                            renewals |-> toCome.renewals - 1]
              /\ toCome.renewals > 0 /\ due' = due + 1
          BY <2>1, <3>1 DEF ExtendSubscription, TypeOK
        <4>2. /\ toCome' \in [licenses : Nat, renewals : Nat] /\ due' \in Nat
              /\ toCome'.licenses = toCome.licenses
          BY <4>1
        <4>. QED
          BY <2>1, <3>1, <4>2 DEF ExtendSubscription, TypeOK, Numbered, client
      <3>2. CASE SetProductStatus
        BY <2>1, <3>2 DEF SetProductStatus, TypeOK, Numbered, client
      <3>. QED
        BY <1>1, <3>1, <3>2
    <2>4. TakenWithinQuota'
      BY <2>1, <2>2, NobodyEnters
    <2>5. ASSUME NEW u \in Units PROVE UnitInv(u)'
      BY <2>1, <2>2 DEF UnitInv, Idle, Active, client
    <2>. QED
      BY <2>3, <2>4, <2>5, InvariantByUnit
  <1>. QED
    BY <1>1, RecordPurchaseStep, DeleteLicenseStep, ForceReleaseStep DEF BackOffice

-----------------------------------------------------------------------------
(* The invariant, and what callers may rely on.                            *)

LEMMA InitEstablishes == Init => IInv
  <1>. SUFFICES ASSUME Init PROVE IInv
    OBVIOUS
  <1>1. PICK s \in Scenarios :
           /\ mode = [u \in Units |-> IF u \in s.units THEN "out" ELSE "absent"]
           /\ toCome = [licenses |-> s.licenses, renewals |-> s.renewals]
    BY DEF Init
  <1>2. s.licenses \in 0..MaxLicenses /\ s.renewals \in Nat /\ MaxLicenses \in Nat
    BY ClientAssumption
  <1>3. TypeOK
    <2>1. lic \in Ids /\ live \in BOOLEAN /\ aktif \in BOOLEAN /\ due \in Nat
      <3>1. lic = 0 /\ due = 0 /\ live = FALSE /\ aktif = TRUE
        BY DEF Init
      <3>2. lic \in Ids /\ due \in Nat
        BY <1>2, <3>1 DEF Ids
      <3>. QED
        BY <3>1, <3>2
    <2>4. /\ row \in [Units -> Row] /\ file \in [Machines -> File]
          /\ disturbed \in [Units -> BOOLEAN]
      BY NoCallIsCall DEF Init
    <2>2. toCome \in [licenses : Nat, renewals : Nat] /\ mode \in [Units -> Modes]
      BY <1>1, <1>2 DEF Modes
    <2>3. call \in [Units -> [{"now", "late"} -> Call]]
      BY NoCallIsCall DEF Init
    <2>. QED
      BY <2>1, <2>2, <2>3, <2>4 DEF TypeOK
  <1>4. Numbered
    BY <1>1, <1>2 DEF Init, Numbered
  <1>5. TakenWithinQuota
    <2>1. \A u \in Units : Taken(u) = {}
      BY DEF Init, Taken, Active, NoRow, Like, Units
    <2>. QED
      BY <2>1, UnitsAreFinite, FS_EmptySet DEF TakenWithinQuota
  <1>6. ASSUME NEW u \in Units PROVE UnitInv(u)
    BY <1>1 DEF Init, UnitInv, Idle, Active, NoCall, NoRow, Enters, Releases
  <1>. QED
    BY <1>3, <1>4, <1>5, <1>6, InvariantByUnit

LEMMA StepPreserves == IInv /\ [Next]_vars => IInv'
  <1>. SUFFICES ASSUME IInv, [Next]_vars PROVE IInv'
    OBVIOUS
  <1>1. CASE UNCHANGED vars
    <2>1. TypeOK /\ Numbered /\ TakenWithinQuota /\ \A u \in Units : UnitInv(u)
      BY InvariantByUnit
    <2>2. TakenWithinQuota'
      BY <1>1, <2>1, NobodyEnters DEF vars
    <2>3. TypeOK' /\ Numbered' /\ \A u \in Units : UnitInv(u)'
      BY <1>1, <2>1
      DEF vars, license, client, TypeOK, Numbered, UnitInv, Idle, Active
    <2>. QED
      BY <2>2, <2>3, InvariantByUnit
  <1>2. ASSUME NEW u \in Units, Caller(u) PROVE IInv'
    BY <1>2, WantStep, LeaveStep, SendStep, GiveUpStep, ReceiveStep DEF Caller
  <1>. QED
    BY <1>1, <1>2, ServerStep, BackOfficeStep DEF Next, Slot

(* The inductive invariant holds of every behaviour.                       *)
THEOREM Invariance == Spec => []IInv
  <1>. QED
    BY InitEstablishes, StepPreserves, PTL DEF Spec

(* A machine that runs holds its seat, a branch in use its slot, though    *)
(* requests and answers are lost, given up and carried out late.           *)
THEOREM SeatIsKept == Spec => []RunningIsSeated
  <1>1. IInv => RunningIsSeated
    BY DEF IInv
  <1>. QED
    BY <1>1, Invariance, PTL

(* Who was told it is released, or refused for want of room, occupies      *)
(* nothing.                                                                *)
THEOREM NoSeatIsLeaked == Spec => []OutsiderHoldsNothing
  <1>1. IInv => OutsiderHoldsNothing
    BY DEF IInv
  <1>. QED
    BY <1>1, Invariance, PTL

(* No more run than were paid for.                                         *)
THEOREM NoMoreRunThanPaid == Spec => []RunningWithinQuota
  <1>1. IInv => RunningWithinQuota
    <2>. SUFFICES ASSUME IInv, NEW u \in Units
                  PROVE  Cardinality({v \in Like(u) : mode[v] = "using" /\ ~disturbed[v]})
                            <= Quota(u)
      BY DEF RunningWithinQuota
    <2>. DEFINE R == {v \in Like(u) : mode[v] = "using" /\ ~disturbed[v]}
    <2>1. IsFiniteSet(Like(u)) /\ Like(u) \subseteq Units /\ Quota(u) \in Nat
      BY UnitsAreFinite DEF Like, Units
    <2>2. R \subseteq Taken(u) /\ Taken(u) \subseteq Like(u)
      BY <2>1 DEF IInv, RunningIsSeated, Taken
    <2>. HIDE DEF R
    <2>3. IsFiniteSet(Taken(u))
      BY <2>1, <2>2, FS_Subset
    <2>4. IsFiniteSet(R) /\ Cardinality(R) <= Cardinality(Taken(u))
      BY <2>2, <2>3, FS_Subset
    <2>5. Cardinality(R) \in Nat /\ Cardinality(Taken(u)) \in Nat
      BY <2>3, <2>4, FS_CardinalityType
    <2>6. Cardinality(Taken(u)) <= Quota(u)
      BY DEF IInv, TakenWithinQuota
    <2>7. Cardinality(R) <= Quota(u)
      BY <2>1, <2>4, <2>5, <2>6
    <2>. QED
      BY <2>7 DEF R
  <1>. QED
    BY <1>1, Invariance, PTL
-----------------------------------------------------------------------------
(* ClientProtocol implements SeatQuota, for machines and for branches.     *)

(* What a step can be to the places: nothing, one unit that comes or goes  *)
(* while the license is there, or a purchase or deletion of the license.   *)
Comes(u) == MayEnter(u) /\ SetStatus(u, "ACTIVE")
Goes(u) == Active(u) /\ SetStatus(u, "DEACTIVATED")

LEMMA StepsOfPlaces ==
    ASSUME IInv, [Next]_vars
    PROVE  \/ UNCHANGED <<lic, live, row>>
           \/ /\ live /\ UNCHANGED <<lic, live>>
              /\ \E u \in Units : Comes(u) \/ Goes(u)
           \/ RecordPurchase \/ DeleteLicense
  <1>. DEFINE Moves(u) == live /\ UNCHANGED <<lic, live>> /\ (Comes(u) \/ Goes(u))
              Stays == UNCHANGED <<lic, live, row>>
  <1>1. ASSUME NEW u \in Units, NEW k \in Slot, Server(u, k)
        PROVE  Stays \/ Moves(u)
    <2>1. ASSUME NEW code, ActivateCommit(u, k, code) \/ RegisterCommit(u, k, code)
          PROVE  Moves(u)
      BY <2>1 DEF ActivateCommit, RegisterCommit, Comes, Gone, license
    <2>2. ASSUME SetStatus(u, "DEACTIVATED"), Active(u), UNCHANGED license
          PROVE  Moves(u)
      BY <2>2 DEF Goes, license, IInv, RowsOfLicense
    <2>3. ASSUME NEW code, Deactivate(u, k, code) \/ ReleaseUpdate(u, k, code)
          PROVE  Stays \/ Moves(u)
      BY <2>2, <2>3 DEF Deactivate, ReleaseUpdate, Release, Names, license
    <2>4. CASE ActivateRefuse(u, k) \/ RegisterRefuse(u, k) \/ LookUp(u, k) \/ Fail(u, k)
      BY <2>4 DEF ActivateRefuse, RegisterRefuse, LookUp, ActivateLookup, RegisterLookup,
                  ReleaseLookup, Lookup, LookupFails, Fail, license
    <2>. HIDE DEF Moves, Stays
    <2>. QED
      BY <1>1, <2>1, <2>3, <2>4 DEF Server, Decide, DecideUntold
  <1>2. ASSUME NEW u \in Units, Caller(u) PROVE Stays
    BY <1>2 DEF Caller, Want, Leave, Send, GiveUp, Receive, license
  <1>3. ASSUME NEW u \in Units, ForceRelease(u) PROVE Moves(u)
    BY <1>3 DEF ForceRelease, Goes, license, IInv, RowsOfLicense
  <1>4. CASE ExtendSubscription \/ SetProductStatus \/ UNCHANGED vars
    BY <1>4 DEF ExtendSubscription, SetProductStatus, vars, license
  <1>. QED
    BY <1>1, <1>2, <1>3, <1>4 DEF Next, BackOffice, Slot

(* The license there is has a number.                                      *)
LEMMA LicensesAreNumbered == Spec => [](live => lic # 0)
  <1>1. Init => (live => lic # 0)
    BY DEF Init
  <1>2. IInv /\ (live => lic # 0) /\ [Next]_vars => (live => lic # 0)'
    <2>. SUFFICES ASSUME IInv, live => lic # 0, [Next]_vars
                  PROVE  live' => lic' # 0
      OBVIOUS
    <2>1. CASE RecordPurchase
      BY <2>1 DEF RecordPurchase, IInv, TypeOK, Ids
    <2>. QED
      BY <2>1, StepsOfPlaces DEF DeleteLicense
  <1>. QED
    BY <1>1, <1>2, Invariance, PTL DEF Spec

(* A step of SeatQuota, for the units of one kind                          *)
PlacesMove(kind, quota) ==
    \/ UNCHANGED <<Capacity(quota), Holders(kind)>>
    \/ \E l \in 1..MaxLicenses :
        \/ /\ quota # 0 /\ Capacity(quota)[l] = 0
           /\ Capacity(quota)' = [Capacity(quota) EXCEPT ![l] = quota]
           /\ UNCHANGED Holders(kind)
        \/ /\ Capacity(quota)' = [Capacity(quota) EXCEPT ![l] = 0]
           /\ Holders(kind)' = [Holders(kind) EXCEPT ![l] = {}]
        \/ \E u \in kind :
            /\ UNCHANGED Capacity(quota)
            /\ \/ /\ u \notin Holders(kind)[l]
                  /\ Cardinality(Holders(kind)[l]) < Capacity(quota)[l]
                  /\ Holders(kind)' =
                        [Holders(kind) EXCEPT ![l] = Holders(kind)[l] \cup {u}]
               \/ /\ u \in Holders(kind)[l]
                  /\ Holders(kind)' =
                        [Holders(kind) EXCEPT ![l] = Holders(kind)[l] \ {u}]

IsKind(kind, quota) ==
    /\ quota \in Nat /\ kind \subseteq Units
    /\ \A u \in kind : Like(u) = kind /\ Quota(u) = quota

LEMMA Kinds == IsKind(Machines, Seats) /\ IsKind(Branches, Slots)
  BY ClientAssumption DEF IsKind, Units, Like, Quota

(* While the license is there, its holders are the units that are ACTIVE.  *)
LEMMA HoldersAreTaken ==
    ASSUME IInv, live, lic # 0, NEW kind, NEW quota, IsKind(kind, quota)
    PROVE  /\ lic \in 1..MaxLicenses
           /\ Holders(kind)[lic] = {v \in kind : Active(v)}
           /\ Capacity(quota)[lic] = quota
  <1>1. lic \in 1..MaxLicenses
    BY ClientAssumption DEF IInv, TypeOK, Ids
  <1>2. \A v \in kind : Active(v) => row[v].id = lic
    BY DEF IsKind, IInv, RowsOfLicense
  <1>. QED
    BY <1>1, <1>2 DEF Holders, Capacity

(* Places change for one license at a time.                                *)
LEMMA OneLicenseChanges ==
    ASSUME NEW kind, NEW l \in 1..MaxLicenses, NEW H,
           \A k \in 1..MaxLicenses :
              Holders(kind)'[k] = IF k = l THEN H ELSE Holders(kind)[k]
    PROVE  Holders(kind)' = [Holders(kind) EXCEPT ![l] = H]
  BY DEF Holders

LEMMA ComesTakesPlace ==
    ASSUME IInv, live, lic # 0, UNCHANGED <<lic, live>>,
           NEW u \in Units, Comes(u), NEW kind, NEW quota, IsKind(kind, quota)
    PROVE  PlacesMove(kind, quota)
  <1>1. /\ lic \in 1..MaxLicenses
        /\ Holders(kind)[lic] = {v \in kind : Active(v)}
        /\ Capacity(quota)[lic] = quota
    BY HoldersAreTaken
  <1>2. UNCHANGED Capacity(quota)
    BY DEF Capacity
  <1>3. /\ \A v \in Units \ {u} : row'[v] = row[v]
        /\ row'[u] = [status |-> "ACTIVE", id |-> lic]
    BY DEF Comes, SetStatus, IInv, TypeOK
  <1>4. CASE u \notin kind
    BY <1>2, <1>3, <1>4 DEF PlacesMove, Holders, Active, IsKind
  <1>5. CASE u \in kind /\ Active(u)
    <2>1. row[u].id = lic
      BY <1>5 DEF IInv, RowsOfLicense
    <2>2. UNCHANGED Holders(kind)
      BY <1>3, <1>5, <2>1 DEF Holders, Active, IsKind
    <2>. QED
      BY <1>2, <2>2 DEF PlacesMove
  <1>6. CASE u \in kind /\ ~Active(u)
    <2>1. u \notin Holders(kind)[lic]
      BY <1>1, <1>6
    <2>2. Cardinality(Holders(kind)[lic]) < Capacity(quota)[lic]
      BY <1>1, <1>6 DEF Comes, MayEnter, IsReuse, Active, HasRoom, Taken, IsKind
    <2>. DEFINE H == Holders(kind)[lic] \cup {u}
    <2>3. \A k \in 1..MaxLicenses :
             Holders(kind)'[k] = IF k = lic THEN H ELSE Holders(kind)[k]
      BY <1>1, <1>3, <1>6 DEF Holders, Active, IsKind
    <2>4. Holders(kind)' = [Holders(kind) EXCEPT ![lic] = H]
      <3>. HIDE DEF H
      <3>. QED
        BY <1>1, <2>3, OneLicenseChanges
    <2>. QED
      BY <1>1, <1>2, <1>6, <2>1, <2>2, <2>4 DEF PlacesMove
  <1>. QED
    BY <1>4, <1>5, <1>6

LEMMA GoesFreesPlace ==
    ASSUME IInv, live, lic # 0, UNCHANGED <<lic, live>>,
           NEW u \in Units, Goes(u), NEW kind, NEW quota, IsKind(kind, quota)
    PROVE  PlacesMove(kind, quota)
  <1>1. /\ lic \in 1..MaxLicenses
        /\ Holders(kind)[lic] = {v \in kind : Active(v)}
    BY HoldersAreTaken
  <1>2. UNCHANGED Capacity(quota)
    BY DEF Capacity
  <1>3. /\ \A v \in Units \ {u} : row'[v] = row[v]
        /\ row'[u].status = "DEACTIVATED"
        /\ row[u].id = lic
    BY DEF Goes, SetStatus, IInv, TypeOK, RowsOfLicense
  <1>4. CASE u \notin kind
    BY <1>2, <1>3, <1>4 DEF PlacesMove, Holders, Active, IsKind
  <1>5. CASE u \in kind
    <2>1. u \in Holders(kind)[lic]
      BY <1>1, <1>5 DEF Goes
    <2>. DEFINE H == Holders(kind)[lic] \ {u}
    <2>2. \A k \in 1..MaxLicenses :
             Holders(kind)'[k] = IF k = lic THEN H ELSE Holders(kind)[k]
      BY <1>1, <1>3, <1>5 DEF Holders, Active, IsKind
    <2>3. Holders(kind)' = [Holders(kind) EXCEPT ![lic] = H]
      <3>. HIDE DEF H
      <3>. QED
        BY <1>1, <2>2, OneLicenseChanges
    <2>. QED
      BY <1>1, <1>2, <1>5, <2>1, <2>3 DEF PlacesMove
  <1>. QED
    BY <1>4, <1>5

LEMMA PurchaseAddsPlaces ==
    ASSUME IInv, RecordPurchase, NEW kind, NEW quota, IsKind(kind, quota)
    PROVE  PlacesMove(kind, quota)
  <1>1. /\ ~live /\ live' /\ lic' = lic + 1 /\ UNCHANGED row
        /\ lic \in Nat /\ lic' \in 1..MaxLicenses
    BY ClientAssumption DEF RecordPurchase, IInv, TypeOK, Ids
  <1>2. UNCHANGED Holders(kind)
    BY <1>1 DEF Holders, Active
  <1>3. CASE quota = 0
    BY <1>2, <1>3 DEF PlacesMove, Capacity
  <1>4. CASE quota # 0
    <2>1. Capacity(quota)[lic'] = 0
      BY <1>1 DEF Capacity
    <2>2. Capacity(quota)' = [Capacity(quota) EXCEPT ![lic'] = quota]
      BY <1>1 DEF Capacity
    <2>. QED
      BY <1>1, <1>2, <1>4, <2>1, <2>2 DEF PlacesMove
  <1>. QED
    BY <1>3, <1>4

LEMMA DeletionClosesPlaces ==
    ASSUME IInv, lic # 0, DeleteLicense, NEW kind, NEW quota, IsKind(kind, quota)
    PROVE  PlacesMove(kind, quota)
  <1>1. live /\ ~live' /\ lic \in 1..MaxLicenses
    BY HoldersAreTaken DEF DeleteLicense
  <1>2. \A u \in kind : ~Active(u)'
    BY DEF DeleteLicense, NoRow, Active, IsKind
  <1>3. \A u \in kind : Active(u) => row[u].id = lic
    BY DEF IsKind, IInv, RowsOfLicense
  <1>4. Capacity(quota)' = [Capacity(quota) EXCEPT ![lic] = 0]
    BY <1>1 DEF Capacity
  <1>5. Holders(kind)' = [Holders(kind) EXCEPT ![lic] = {}]
    BY <1>1, <1>2, <1>3 DEF Holders
  <1>. QED
    BY <1>1, <1>4, <1>5 DEF PlacesMove

LEMMA EveryStepMovesPlaces ==
    ASSUME IInv, live => lic # 0, [Next]_vars,
           NEW kind, NEW quota, IsKind(kind, quota)
    PROVE  PlacesMove(kind, quota)
  <1>1. CASE UNCHANGED <<lic, live, row>>
    BY <1>1 DEF PlacesMove, Capacity, Holders, Active
  <1>. QED
    BY <1>1, StepsOfPlaces, ComesTakesPlace, GoesFreesPlace, PurchaseAddsPlaces,
       DeletionClosesPlaces DEF DeleteLicense

(* The Cardinality that SeatQuota imports is the one imported here.        *)
LEMMA SameCardinality ==
    \A S : /\ MachineSeats!Cardinality(S) = Cardinality(S)
           /\ BranchSlots!Cardinality(S) = Cardinality(S)
  BY DEF MachineSeats!Cardinality, BranchSlots!Cardinality, Cardinality,
         MachineSeats!IsFiniteSet, BranchSlots!IsFiniteSet, IsFiniteSet

LEMMA MachinesMove ==
    PlacesMove(Machines, Seats) => [MachineSeats!Next]_(MachineSeats!vars)
  <1>. SUFFICES ASSUME PlacesMove(Machines, Seats)
                PROVE  [MachineSeats!Next]_(MachineSeats!vars)
    OBVIOUS
  <1>1. Seats \in Nat
    BY ClientAssumption
  <1>2. Seats # 0 => Seats \in 1..Seats
    BY <1>1
  <1>. QED
    BY <1>1, <1>2, SameCardinality
    DEF PlacesMove, MachineSeats!Next, MachineSeats!vars, MachineSeats!AddSeats,
        MachineSeats!Close, MachineSeats!TakeSeat, MachineSeats!FreeSeat

LEMMA BranchesMove ==
    PlacesMove(Branches, Slots) => [BranchSlots!Next]_(BranchSlots!vars)
  <1>. SUFFICES ASSUME PlacesMove(Branches, Slots)
                PROVE  [BranchSlots!Next]_(BranchSlots!vars)
    OBVIOUS
  <1>1. Slots \in Nat
    BY ClientAssumption
  <1>2. Slots # 0 => Slots \in 1..Slots
    BY <1>1
  <1>. QED
    BY <1>1, <1>2, SameCardinality
    DEF PlacesMove, BranchSlots!Next, BranchSlots!vars, BranchSlots!AddSeats,
        BranchSlots!Close, BranchSlots!TakeSeat, BranchSlots!FreeSeat

(* To the seats and slots of a license, callers with their losses and      *)
(* repetitions do only what SeatQuota allows.                              *)
THEOREM ImplementsSeatQuota == Spec => PlacesRefined
  <1>1. Init => MachineSeats!Init /\ BranchSlots!Init
    BY DEF Init, MachineSeats!Init, BranchSlots!Init, Capacity, Holders, Active,
           NoRow, Units
  <1>2. IInv /\ (live => lic # 0) /\ [Next]_vars =>
           /\ [MachineSeats!Next]_(MachineSeats!vars)
           /\ [BranchSlots!Next]_(BranchSlots!vars)
    BY EveryStepMovesPlaces, Kinds, MachinesMove, BranchesMove
  <1>. QED
    BY <1>1, <1>2, Invariance, LicensesAreNumbered, PTL
    DEF Spec, PlacesRefined, MachineSeats!Spec, BranchSlots!Spec
=============================================================================

---------------------------- MODULE ClientProtocol ----------------------------
(***************************************************************************)
(* The API as its callers live with it: machines that activate, refresh    *)
(* and deactivate (README "API contract"), and branches that register and  *)
(* release, over a network and a server that lose requests, lose answers,  *)
(* and run a request after its caller has given it up and gone on.         *)
(*                                                                         *)
(* The transactions of internal/service/license and internal/service/      *)
(* branch are single steps here: LicenseActivation and BranchRegistration  *)
(* take them apart.  What is kept is what a caller can be caught by: the   *)
(* lookup before the transaction, and that the answer comes after the      *)
(* commit and can fail by itself.                                          *)
(*                                                                         *)
(* There is one (email, product_code), and at most one license for it at a *)
(* time.  Licenses are numbered; an activation_id or branch_id, which      *)
(* lives as long as its license, is the pair of that number and the unit.  *)
(***************************************************************************)
EXTENDS Integers, FiniteSets

CONSTANTS
    Machines, Branches,   \* the units: machine fingerprints, branch codes
    Seats, Slots,         \* max_activations, max_branches
    MaxLicenses,          \* bound: licenses bought one after the other
    MaxLate,              \* bound: requests given up and still to be carried out
    Scenarios             \* bound: which units, and how many purchases and renewals

ASSUME ClientAssumption ==
    /\ IsFiniteSet(Machines) /\ IsFiniteSet(Branches)
    /\ Machines \cap Branches = {}
    /\ {Seats, Slots, MaxLicenses, MaxLate} \subseteq Nat
    /\ Scenarios \subseteq [units : SUBSET (Machines \cup Branches),
                           licenses : 0..MaxLicenses, renewals : Nat]

VARIABLES
    lic, live,   \* the number of the latest license; whether it still exists
    aktif,       \* products.status_aktif
    due,         \* subscription_expires_at, as the number of renewals
    toCome,      \* bound: purchases and renewals still to come
    row,         \* the activations and branches rows
    call,        \* each unit's call, and one it has given up
    mode,        \* what each unit wants and believes
    file,        \* the last license.lic each machine saved
    disturbed    \* history: the unit's row was changed by something other
                 \* than the unit's own calls, since one of those took effect

license == <<lic, live, aktif, due, toCome>>
client == <<mode, file>>
vars == <<license, row, call, client, disturbed>>

Units == Machines \cup Branches

-----------------------------------------------------------------------------
(* Values.                                                                 *)

Ids == 0..MaxLicenses                      \* 0: no license
Row == [status : {"NONE", "ACTIVE", "DEACTIVATED"}, id : Ids]
NoRow == [status |-> "NONE", id |-> 0]

File == [id : Ids, due : Nat]        \* activation_id, expires_at
NoFile == [id |-> 0, due |-> 0]

Ops == {"none", "activate", "deactivate", "register", "release"}
Codes == {"OK", "QUOTA_EXCEEDED", "NOT_REGISTERED", "NOT_FOUND", "INTERNAL"}

Call == [op : Ops, at : {"none", "sent", "looked", "answered"},
         id : Ids, due : Nat, code : Codes]

NoCall == [op |-> "none", at |-> "none", id |-> 0, due |-> 0, code |-> "OK"]

Modes ==
    {"absent",    \* not in this scenario
     "out",       \* never asked, or was refused, NOT_REGISTERED
     "joining",   \* asks to activate or register until told the outcome
     "using",     \* runs; asks again now and then
     "leaving",   \* asks to deactivate or release until told the outcome
     "left",      \* was told it is released
     "full"}      \* was refused, QUOTA_EXCEEDED

Init ==
    /\ lic = 0 /\ live = FALSE /\ aktif = TRUE /\ due = 0
    /\ row = [u \in Units |-> NoRow]
    /\ call = [u \in Units |-> [k \in {"now", "late"} |-> NoCall]]
    /\ \E s \in Scenarios :
        /\ mode = [u \in Units |-> IF u \in s.units THEN "out" ELSE "absent"]
        /\ toCome = [licenses |-> s.licenses, renewals |-> s.renewals]
    /\ file = [m \in Machines |-> NoFile]
    /\ disturbed = [u \in Units |-> FALSE]

Registered == live /\ aktif
Like(u) == IF u \in Machines THEN Machines ELSE Branches
Quota(u) == IF u \in Machines THEN Seats ELSE Slots
Active(u) == row[u].status = "ACTIVE"
Taken(u) == {v \in Like(u) : Active(v)}

HasRoomOffByOne(u) == Cardinality(Taken(u)) <= Quota(u)
HasRoom(u) == Cardinality(Taken(u)) < Quota(u)

-----------------------------------------------------------------------------
(* The caller.  It has one call under way at a time, repeats it until it   *)
(* is told the outcome, and does not listen to one it has given up.        *)

Idle(u) == call[u]["now"] = NoCall

Want(u) ==
    /\ mode[u] \in {"out", "left", "full"}
    /\ mode' = [mode EXCEPT ![u] = "joining"]
    /\ UNCHANGED <<license, row, call, file, disturbed>>

Leave(u) ==
    /\ mode[u] = "using" /\ Idle(u)
    /\ mode' = [mode EXCEPT ![u] = "leaving"]
    /\ UNCHANGED <<license, row, call, file, disturbed>>

(* /activate and /register also while running: "safe to call on every app  *)
(* start".  /deactivate carries the activation_id of the saved license.lic. *)
Request(u) ==
    CASE u \in Machines /\ mode[u] = "leaving" ->
            [NoCall EXCEPT !.op = "deactivate", !.at = "sent", !.id = file[u].id]
      [] u \in Branches /\ mode[u] = "leaving" ->
            [NoCall EXCEPT !.op = "release", !.at = "sent"]
      [] u \in Machines /\ mode[u] # "leaving" ->
            [NoCall EXCEPT !.op = "activate", !.at = "sent"]
      [] u \in Branches /\ mode[u] # "leaving" ->
            [NoCall EXCEPT !.op = "register", !.at = "sent"]

Send(u) ==
    /\ mode[u] \in {"joining", "using", "leaving"} /\ Idle(u)
    /\ call' = [call EXCEPT ![u]["now"] = Request(u)]
    /\ UNCHANGED <<license, row, client, disturbed>>

LateUnits == {u \in Units : call[u]["late"] # NoCall}

(* The connection is lost or times out.  A request not yet carried out may *)
(* be lost with it, or be carried out later; at most MaxLate of them, and  *)
(* one of each unit.                                                       *)
GiveUp(u) ==
    LET c == call[u]["now"] IN
    /\ ~Idle(u)
    /\ \/ call' = [call EXCEPT ![u]["now"] = NoCall]
       \/ /\ c.at # "answered"
          /\ Cardinality(LateUnits \ {u}) < MaxLate
          /\ call' = [call EXCEPT ![u]["now"] = NoCall, ![u]["late"] = c]
    /\ UNCHANGED <<license, row, client, disturbed>>

(* INTERNAL tells nothing: the caller stays in its mode and asks again.    *)
ModeAfter(u, c) ==
    CASE c.op \in {"activate", "register"} /\ c.code = "OK" -> "using"
      [] mode[u] = "joining" /\ c.code = "QUOTA_EXCEEDED" -> "full"
      [] mode[u] = "joining" /\ c.code = "NOT_REGISTERED" -> "out"
      [] mode[u] = "leaving" /\ c.code \in {"OK", "NOT_FOUND"} -> "left"
      [] OTHER -> mode[u]

Receive(u) ==
    LET c == call[u]["now"] IN
    /\ c.at = "answered"
    /\ mode' = [mode EXCEPT ![u] = ModeAfter(u, c)]
    /\ file' = IF c.op = "activate" /\ c.code = "OK"
               THEN [file EXCEPT ![u] = [id |-> c.id, due |-> c.due]]
               ELSE file
    /\ call' = [call EXCEPT ![u]["now"] = NoCall]
    /\ UNCHANGED <<license, row, disturbed>>

-----------------------------------------------------------------------------
(* The server, on the call in slot k of unit u.  Nobody is there to take   *)
(* the answer of a late call.                                              *)

Put(u, k, c) ==
    call' = [call EXCEPT ![u][k] =
                 IF k = "late" /\ c.at = "answered" THEN NoCall ELSE c]

(* Only an activation's answer has content, the license.lic.               *)
Answer(u, k, code) ==
    LET c == IF call[u][k].op = "activate" /\ code = "OK" THEN call[u][k]
             ELSE [NoCall EXCEPT !.op = call[u][k].op]
    IN
    Put(u, k, [c EXCEPT !.at = "answered", !.code = code])

Is(u, k, op, at) == call[u][k].op = op /\ call[u][k].at = at

SetStatusNoReclaim(u, status) ==
    row' = IF status = "ACTIVE" /\ row[u].status = "DEACTIVATED" THEN row
           ELSE [row EXCEPT ![u] = [status |-> status, id |-> lic]]
SetStatus(u, status) == row' = [row EXCEPT ![u] = [status |-> status, id |-> lic]]

(* A call of the unit's own settles its row; a late one may disturb it.    *)
Settle(u, k) ==
    disturbed' = [disturbed EXCEPT ![u] =
                      k = "late" /\ (@ \/ row'[u].status # row[u].status)]

(* Nothing was found to release.                                           *)
SettleNothing(u, k) ==
    disturbed' = [disturbed EXCEPT ![u] = @ /\ (k = "late" \/ Active(u))]

(* SELECT ... WHERE email, product_code AND status_aktif, before any       *)
(* transaction: which license, and its due date.                           *)
Lookup(u, k, op) ==
    /\ Is(u, k, op, "sent")
    /\ Registered
    /\ Put(u, k, [call[u][k] EXCEPT !.at = "looked", !.id = lic,
                      !.due = IF op = "activate" THEN due ELSE 0])
    /\ UNCHANGED <<license, row, client, disturbed>>

LookupFails(u, k, op) ==
    /\ Is(u, k, op, "sent")
    /\ ~Registered
    /\ Answer(u, k, "NOT_REGISTERED")
    /\ UNCHANGED <<license, row, client, disturbed>>

ActivateLookup(u, k) == Lookup(u, k, "activate") \/ LookupFails(u, k, "activate")
RegisterLookup(u, k) == Lookup(u, k, "register") \/ LookupFails(u, k, "register")
ReleaseLookup(u, k) == Lookup(u, k, "release") \/ LookupFails(u, k, "release")

Gone(c) == ~live \/ c.id # lic

IsReuseNever(status) == FALSE
IsReuse(status) == status = "ACTIVE"

MayEnterAgainOnly(u) == IsReuse(row[u].status) \/ (row[u] = NoRow /\ HasRoom(u))

(* Case 2, or cases 1 and 3 while there is room.                           *)
MayEnter(u) == IsReuse(row[u].status) \/ HasRoom(u)

(* The transaction of Activate; signing comes after and may fail.          *)
ActivateCommit(u, k, code) ==
    /\ Is(u, k, "activate", "looked")
    /\ ~Gone(call[u][k])
    /\ MayEnter(u)
    /\ SetStatus(u, "ACTIVE")
    /\ code \in {"OK", "INTERNAL"}
    /\ Answer(u, k, code)
    /\ Settle(u, k)
    /\ UNCHANGED <<license, client>>

(* The transaction of Register; the commit may be reported as failed       *)
(* although it took effect, and the count after it may fail.               *)
RegisterCommit(u, k, code) ==
    /\ Is(u, k, "register", "looked")
    /\ ~Gone(call[u][k])
    /\ MayEnter(u)
    /\ SetStatus(u, "ACTIVE")
    /\ code \in {"OK", "INTERNAL"}
    /\ Answer(u, k, code)
    /\ Settle(u, k)
    /\ UNCHANGED <<license, client>>

ActivateRefuse(u, k) ==
    /\ Is(u, k, "activate", "looked")
    /\ ~Gone(call[u][k])
    /\ ~MayEnter(u)
    /\ Answer(u, k, "QUOTA_EXCEEDED")
    /\ UNCHANGED <<license, row, client, disturbed>>

RegisterRefuse(u, k) ==
    /\ Is(u, k, "register", "looked")
    /\ ~Gone(call[u][k])
    /\ ~MayEnter(u)
    /\ Answer(u, k, "QUOTA_EXCEEDED")
    /\ UNCHANGED <<license, row, client, disturbed>>

NamesWhileSold(u, c) == Active(u) /\ row[u].id = c.id /\ aktif

(* The rows that WHERE activation_id (or license and branch_code) AND      *)
(* status = 'ACTIVE' finds.                                                *)
Names(u, c) == Active(u) /\ row[u].id = c.id

NothingToReleaseUnnamed == "ALREADY_RELEASED"
NothingToReleaseInternal == "INTERNAL"
NothingToRelease == "NOT_FOUND"

(* One conditional UPDATE, which commits by itself; its reply may be lost, *)
(* or what comes after it fail.                                            *)
Release(u, k, code) ==
    /\ IF Names(u, call[u][k])
       THEN /\ SetStatus(u, "DEACTIVATED")
            /\ code \in {"OK", "INTERNAL"}
            /\ Settle(u, k)
       ELSE /\ UNCHANGED row
            /\ code = NothingToRelease
            /\ SettleNothing(u, k)
    /\ Answer(u, k, code)
    /\ UNCHANGED <<license, client>>

(* No lookup, so neither the product's status nor the expiry of the        *)
(* license.lic matter.                                                     *)
Deactivate(u, k, code) == Is(u, k, "deactivate", "sent") /\ Release(u, k, code)

(* A lookup goes before, and the count reported comes after.               *)
ReleaseUpdate(u, k, code) == Is(u, k, "release", "looked") /\ Release(u, k, code)

(* Any statement before the commit fails, or finds the license gone.       *)
Fail(u, k) ==
    /\ call[u][k].at \in {"sent", "looked"}
    /\ Answer(u, k, "INTERNAL")
    /\ UNCHANGED <<license, row, client, disturbed>>

-----------------------------------------------------------------------------
(* The back office.                                                        *)

RecordPurchase ==
    /\ ~live /\ aktif
    /\ toCome.licenses > 0
    /\ lic' = lic + 1 /\ live' = TRUE /\ due' = 0
    /\ toCome' = [toCome EXCEPT !.licenses = @ - 1]
    /\ UNCHANGED <<aktif, row, call, client, disturbed>>

ExtendSubscription ==
    /\ live
    /\ toCome.renewals > 0
    /\ due' = due + 1
    /\ toCome' = [toCome EXCEPT !.renewals = @ - 1]
    /\ UNCHANGED <<lic, live, aktif, row, call, client, disturbed>>

SetProductStatus ==
    /\ aktif' = ~aktif
    /\ UNCHANGED <<lic, live, due, toCome, row, call, client, disturbed>>

(* ForceDeactivate, ForceDeactivateBranch                                  *)
ForceRelease(u) ==
    /\ Active(u)
    /\ SetStatus(u, "DEACTIVATED")
    /\ disturbed' = [disturbed EXCEPT ![u] = TRUE]
    /\ UNCHANGED <<license, call, client>>

DeleteLicense ==
    /\ live
    /\ live' = FALSE
    /\ row' = [u \in Units |-> NoRow]
    /\ disturbed' = [u \in Units |-> disturbed[u] \/ Active(u)]
    /\ UNCHANGED <<lic, aktif, due, toCome, call, client>>

-----------------------------------------------------------------------------
LookUp(u, k) == ActivateLookup(u, k) \/ RegisterLookup(u, k) \/ ReleaseLookup(u, k)

(* The step that carries a call out, with an answer that tells the outcome. *)
Decide(u, k) ==
    \/ ActivateCommit(u, k, "OK") \/ RegisterCommit(u, k, "OK")
    \/ ActivateRefuse(u, k) \/ RegisterRefuse(u, k)
    \/ \E code \in {"OK", NothingToRelease} :
            Deactivate(u, k, code) \/ ReleaseUpdate(u, k, code)

(* ... and with one that does not.                                         *)
DecideUntold(u, k) ==
    \/ ActivateCommit(u, k, "INTERNAL") \/ RegisterCommit(u, k, "INTERNAL")
    \/ Deactivate(u, k, "INTERNAL") \/ ReleaseUpdate(u, k, "INTERNAL")

Hear(u) == Receive(u) /\ call[u]["now"].code # "INTERNAL"

Caller(u) == Want(u) \/ Leave(u) \/ Send(u) \/ GiveUp(u) \/ Receive(u)
Server(u, k) == LookUp(u, k) \/ Decide(u, k) \/ DecideUntold(u, k) \/ Fail(u, k)

BackOffice ==
    \/ RecordPurchase \/ ExtendSubscription \/ SetProductStatus \/ DeleteLicense
    \/ \E u \in Units : ForceRelease(u)

Next ==
    \/ \E u \in Units : Caller(u) \/ \E k \in {"now", "late"} : Server(u, k)
    \/ BackOffice

Spec == Init /\ [][Next]_vars

(* A caller asks again as long as it is owed an answer, and while it runs  *)
(* ("on every app start, or at least daily").  Not every attempt is lost   *)
(* or fails: of infinitely many, some are carried out and heard.           *)
Fairness ==
    \A u \in Units :
        /\ WF_vars(Send(u)) /\ WF_vars(Server(u, "now")) /\ WF_vars(Receive(u))
        /\ SF_vars(LookUp(u, "now"))
        /\ SF_vars(Decide(u, "now"))
        /\ SF_vars(Hear(u))

FairSpec == Spec /\ Fairness

-----------------------------------------------------------------------------
(* The places of one kind of units, license by license                     *)

Capacity(quota) == [l \in 1..MaxLicenses |-> IF live /\ l = lic THEN quota ELSE 0]

Holders(kind) ==
    [l \in 1..MaxLicenses |-> {u \in kind : Active(u) /\ row[u].id = l}]

MachineSeats ==
    INSTANCE SeatQuota WITH
        Licenses <- 1..MaxLicenses, MaxCapacity <- Seats,
        capacity <- Capacity(Seats), holders <- Holders(Machines)

BranchSlots ==
    INSTANCE SeatQuota WITH
        Licenses <- 1..MaxLicenses, Machines <- Branches, MaxCapacity <- Slots,
        capacity <- Capacity(Slots), holders <- Holders(Branches)

-----------------------------------------------------------------------------
(* What callers may rely on.                                               *)

(* Every variable has its type.                                            *)
TypeOK ==
    /\ lic \in Ids /\ live \in BOOLEAN /\ aktif \in BOOLEAN
    /\ due \in Nat /\ toCome \in [licenses : Nat, renewals : Nat]
    /\ row \in [Units -> Row]
    /\ call \in [Units -> [{"now", "late"} -> Call]]
    /\ mode \in [Units -> Modes]
    /\ file \in [Machines -> File]
    /\ disturbed \in [Units -> BOOLEAN]

(* A machine that runs on its license.lic holds a seat, and a branch that  *)
(* is in use a slot, whatever was lost, repeated or answered INTERNAL:     *)
(* only an admin, or a request the unit itself gave up, can take it away.  *)
RunningIsSeated ==
    \A u \in Units : mode[u] = "using" /\ ~disturbed[u] => Active(u)

(* A unit that was told it is released (OK or NOT_FOUND), or was refused   *)
(* for want of room, occupies nothing: no seat is lost to a lost answer.   *)
(* For a machine this is about the activation its license.lic names.       *)
OutsiderHoldsNothing ==
    \A u \in Units :
        mode[u] \in {"left", "full"} /\ ~disturbed[u] =>
            \/ ~Active(u)
            \/ mode[u] = "left" /\ u \in Machines /\ file[u].id # row[u].id

(* No more machines run, nor branches, than were paid for, counted where   *)
(* they run and not in the database.                                       *)
RunningWithinQuota ==
    \A u \in Units :
        Cardinality({v \in Like(u) : mode[v] = "using" /\ ~disturbed[v]})
            <= Quota(u)

(* Whatever is lost, repeated or late, seats and slots are bought, taken   *)
(* and freed only as SeatQuota allows, which the transactions of           *)
(* LicenseActivation and BranchRegistration implement as well: a call      *)
(* carried out after its caller gave it up takes no place that is not free. *)
PlacesRefined == MachineSeats!Spec /\ BranchSlots!Spec

(* Whoever asks to come or to go is told the outcome in the end, even when *)
(* an attempt was committed and its answer lost; a branch may have to wait *)
(* for its license or product to be there.                                 *)
EveryWishAnswered ==
    \A u \in Units :
        /\ mode[u] = "joining" ~> mode[u] # "joining"
        /\ mode[u] = "leaving" ~>
              mode[u] # "leaving" \/ (u \in Branches /\ ~Registered)

(* A renewal "actually reaches the installed copy" (README): a machine     *)
(* that keeps its seat gets a license.lic with the due date on record.     *)
RenewalReachesFile ==
    \A m \in Machines :
        mode[m] = "using" ~>
            \/ file[m] = [id |-> lic, due |-> due]
            \/ mode[m] # "using" \/ ~Active(m) \/ ~Registered

(* A machine or branch that lost its place while running, to its own late  *)
(* request or to an admin, has it back in the end, unless there is no room. *)
LostPlaceRegained ==
    \A u \in Units :
        mode[u] = "using" ~>
            Active(u) \/ mode[u] # "using" \/ ~HasRoom(u) \/ ~Registered

-----------------------------------------------------------------------------
(* The inductive invariant: why the safety properties hold.                *)

Enters == {"activate", "register"}
Releases == {"deactivate", "release"}
Released == {"OK", "NOT_FOUND"}

(* A unit's call serves what the unit wants, and a /deactivate still under  *)
(* way names the activation of the license.lic it has.                      *)
CallServesMode ==
    \A u \in Units :
        LET c == call[u]["now"] IN
        /\ c.at = "none" \/ c.op = "none" => Idle(u)
        /\ c.op \in Enters => mode[u] \in {"joining", "using"}
        /\ c.op \in Releases => mode[u] = "leaving"
        /\ c.op = "deactivate" => u \in Machines
        /\ c.op = "deactivate" /\ c.at = "sent" => c.id = file[u].id

(* An answer on its way is as true as the mode it leads to, and the license *)
(* a release has looked up is the one its row belongs to.                   *)
AnswersAreTrue ==
    \A u \in Units :
        LET c == call[u]["now"] IN
        ~disturbed[u] =>
            /\ c.at = "answered" =>
                /\ c.op \in Enters /\ c.code = "OK" => Active(u)
                /\ c.op \in Enters /\ c.code = "QUOTA_EXCEEDED" => ~Active(u)
                /\ c.op = "deactivate" /\ c.code \in Released =>
                      ~Active(u) \/ file[u].id # row[u].id
                /\ c.op = "release" /\ c.code \in Released => ~Active(u)
            /\ c.op = "release" /\ c.at = "looked" /\ Active(u) => c.id = row[u].id

(* An ACTIVE row belongs to the license there is.                           *)
RowsOfLicense == \A u \in Units : Active(u) => live /\ row[u].id = lic

TakenWithinQuota == \A u \in Units : Cardinality(Taken(u)) <= Quota(u)

IInv ==
    /\ TypeOK
    /\ lic + toCome.licenses <= MaxLicenses
    /\ CallServesMode
    /\ AnswersAreTrue
    /\ RowsOfLicense
    /\ TakenWithinQuota
    /\ RunningIsSeated
    /\ OutsiderHoldsNothing

==============================================================================

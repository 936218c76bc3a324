------------------------------ MODULE SeatQuota ------------------------------
(***************************************************************************)
(* What the server promises its vendor about seats, with nothing said of   *)
(* requests, transactions or locks.  A license has a capacity, the seats   *)
(* bought for it, and a set of machines that hold one.  A seat is taken    *)
(* only while one is free, a machine holds at most one seat, capacity only *)
(* grows, and a license is closed with all its seats in one step.          *)
(*                                                                         *)
(* LicenseActivation is the detailed specification that implements it.     *)
(***************************************************************************)
EXTENDS Integers, FiniteSets

CONSTANTS
    Licenses,     \* license_customers rows that can ever exist
    Machines,     \* machine fingerprints
    MaxCapacity   \* the most seats one license can record

VARIABLES
    capacity,   \* capacity[l]: seats bought for l, 0 before it exists
    holders     \* holders[l]: machines that hold a seat of l

vars == <<capacity, holders>>

TypeOK ==
    /\ capacity \in [Licenses -> 0..MaxCapacity]
    /\ holders \in [Licenses -> SUBSET Machines]

Init ==
    /\ capacity = [l \in Licenses |-> 0]
    /\ holders = [l \in Licenses |-> {}]

AddSeats(l, n) ==
    /\ capacity[l] + n <= MaxCapacity
    /\ capacity' = [capacity EXCEPT ![l] = @ + n]
    /\ UNCHANGED holders

TakeSeat(l, m) ==
    /\ m \notin holders[l]
    /\ Cardinality(holders[l]) < capacity[l]
    /\ holders' = [holders EXCEPT ![l] = @ \cup {m}]
    /\ UNCHANGED capacity

FreeSeat(l, m) ==
    /\ m \in holders[l]
    /\ holders' = [holders EXCEPT ![l] = @ \ {m}]
    /\ UNCHANGED capacity

Close(l) ==
    /\ capacity' = [capacity EXCEPT ![l] = 0]
    /\ holders' = [holders EXCEPT ![l] = {}]

Next ==
    \E l \in Licenses :
        \/ \E n \in 1..MaxCapacity : AddSeats(l, n)
        \/ \E m \in Machines : TakeSeat(l, m) \/ FreeSeat(l, m)
        \/ Close(l)

Spec == Init /\ [][Next]_vars

(***************************************************************************)
(* The core invariant of the activation service                            *)
(* (internal/service/license, package comment): the machines holding a     *)
(* seat of a license never outnumber the seats bought for it.              *)
(***************************************************************************)
NeverOversold ==
    \A l \in Licenses : Cardinality(holders[l]) <= capacity[l]
==============================================================================

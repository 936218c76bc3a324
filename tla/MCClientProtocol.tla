--------------------------- MODULE MCClientProtocol ---------------------------
(***************************************************************************)
(* Small instances of ClientProtocol for TLC.                              *)
(***************************************************************************)
EXTENDS ClientProtocol

CONSTANTS m1, m2, b1, b2

(* Two machines for one seat, two branches for one slot, a machine whose   *)
(* license is renewed, or deleted and bought again, and a machine beside a *)
(* branch.                                                                 *)
MCMachines == {m1, m2}
MCBranches == {b1, b2}
MCScenarios ==
    {[units |-> {m1, m2}, licenses |-> 1, renewals |-> 0],
     [units |-> {b1, b2}, licenses |-> 1, renewals |-> 0],
     [units |-> {m1}, licenses |-> 2, renewals |-> 1],
     [units |-> {m1, b1}, licenses |-> 1, renewals |-> 0]}

(* One unit at a time, and the license may be bought again after it is     *)
(* deleted: the lassos of the liveness properties need no second unit.     *)
OneMachine == {m1}
OneBranch == {b1}
OneUnit ==
    {[units |-> {m1}, licenses |-> 2, renewals |-> 1],
     [units |-> {b1}, licenses |-> 2, renewals |-> 0]}
==============================================================================

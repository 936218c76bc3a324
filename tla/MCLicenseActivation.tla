------------------------- MODULE MCLicenseActivation -------------------------
(***************************************************************************)
(* Small instances of LicenseActivation for TLC.  There is one account,    *)
(* because nothing two accounts do touches the same row except             *)
(* products.status_aktif, and two ids for its license, so that it can be   *)
(* deleted and bought again.                                               *)
(***************************************************************************)
EXTENDS LicenseActivation, TLC

CONSTANTS theAccount, theProduct

MCAccounts == {theAccount}
MCProducts == {theProduct}
MCProductOf(a) == theProduct
MCAccountOf(l) == theAccount

(* Requests, machines and admins are interchangeable (safety runs only).   *)
Symmetry ==
    Permutations(Requests) \cup Permutations(Machines)
==============================================================================

------------------------- MODULE MCBranchRegistration -------------------------
(***************************************************************************)
(* Small instances of BranchRegistration for TLC: one account, and two ids *)
(* for its license where it is to be deleted and created again.            *)
(***************************************************************************)
EXTENDS BranchRegistration

CONSTANTS theAccount, theProduct

MCAccounts == {theAccount}
MCProducts == {theProduct}
MCProductOf(a) == theProduct
MCAccountOf(l) == theAccount
==============================================================================

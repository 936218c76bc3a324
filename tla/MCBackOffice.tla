----------------------------- MODULE MCBackOffice -----------------------------
(***************************************************************************)
(* A small instance of BackOffice for TLC: two requests, and enough emails *)
(* and ids for them to meet at one customer, to miss one another, and to   *)
(* delete a row and create it again.                                       *)
(***************************************************************************)
EXTENDS BackOffice
==============================================================================

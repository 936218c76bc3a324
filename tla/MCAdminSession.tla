---------------------------- MODULE MCAdminSession ----------------------------
(***************************************************************************)
(* A small instance of AdminSession for TLC.                               *)
(***************************************************************************)
EXTENDS AdminSession

CONSTANTS t1, t2, c1, c2

MCTabs == {t1, t2}
MCCodes == {c1, c2}
==============================================================================
